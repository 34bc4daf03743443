---------------------------- MODULE Node_proofs -----------------------------
(***************************************************************************)
(* What users of a node do at their terminals, proved for any number of    *)
(* them: the lists and fortunes of Community, the limits of Signup, the    *)
(* panes of TalkScreen, and the relays of TalkBridge.  Each part has its   *)
(* inductive invariant first, then what a step does to it.                 *)
(***************************************************************************)
EXTENDS Community, Signup, TalkScreen, TalkBridge, FiniteSetTheorems, FunctionTheorems, WellFoundedInduction, TLAPS

-----------------------------------------------------------------------------
\* Lists and fortunes

Sending == [op : {"send"}, id : Nat, to : SUBSET Sitters]
Reviewing == [op : {"review"}, queue : SUBSET Fortunes]

\* What a session that sends, or reviews, has in hand.
TaskOK(s) ==
    /\ Busy(s, "send") => doing[s] \in Sending
    /\ Busy(s, "review") => doing[s] \in Reviewing
    /\ Busy(s, "members") => doing[s].id \in Nat
    /\ Busy(s, "create") => doing[s].name \in ListNames

CommTypeOK ==
    /\ lists \in [ListNames -> ListRow \cup {NoList}]
    /\ listsMade \in Nat
    /\ newcomers \subseteq ListNames
    /\ fortune \in [Fortunes -> FortuneRow \cup {Unsent}]
    /\ DOMAIN doing = Seats
    /\ \A s \in Seats : TaskOK(s)

Making(n) == \E s \in Seats : Busy(s, "create") /\ doing[s].name = n
Apart == \A n \in newcomers : lists[n] # NoList \/ Making(n) => n \in late

\* The list that a poster has found is still as it was.
Stands(s) ==
    \E n \in ListNames :
        /\ lists[n] # NoList /\ lists[n].id = doing[s].id
        /\ MayPost(s, lists[n].adminOnly, <<doing[s].id, Sitter[s]>> \in member)

PostersStand ==
    \A s \in Seats \ moved :
        /\ Busy(s, "members") \/ Busy(s, "send") => Stands(s)
        /\ Busy(s, "send") => doing[s].to \subseteq MembersOf(doing[s].id)

VerdictsStand ==
    /\ \A v \in verdicts : /\ v[1] \in Fortunes /\ fortune[v[1]] # Unsent
                           /\ v[2] \in {"approved", "rejected"} /\ fortune[v[1]].status = v[2]
    /\ \A v, w \in verdicts : v[1] = w[1] => v = w

SeatsOf(u) == {s \in Seats : Sitter[s] = u}
Typing(u) == {s \in SeatsOf(u) : Busy(s, "submit") /\ doing[s].counted = TRUE}

\* Sessions that were let through by a count go for fortunes submitted already.
FewAreLetThrough ==
    \A u \in Sitters \ Chiefs :
        /\ IsFiniteSet(AddedBy(u))
        /\ Cardinality(CountedBy(u)) + Cardinality(Typing(u)) <= DailyLimit + Cardinality(SeatsOf(u)) - 1

CommInv == CommTypeOK /\ Apart /\ PostersStand /\ VerdictsStand /\ FewAreLetThrough

USE CommAssumption

-----------------------------------------------------------------------------
\* Steps by what they change

\* A session turns to something else, or to nothing.
LEMMA TakeUpKeeps ==
    ASSUME CommInv, NEW s \in Seats, NEW task, TakeUp(s, task)
    PROVE  /\ DOMAIN doing' = Seats /\ doing'[s] = task
           /\ \A t \in Seats \ {s} : doing'[t] = doing[t]
BY DEF CommInv, CommTypeOK, TakeUp

LEMMA TasksStayOK ==
    ASSUME CommInv, NEW s \in Seats, DOMAIN doing' = Seats, TaskOK(s)',
           \A t \in Seats \ {s} : doing'[t] = doing[t]
    PROVE  \A t \in Seats : TaskOK(t)'
<1>1. ASSUME NEW t \in Seats \ {s} PROVE TaskOK(t)'
  <2>1. TaskOK(t) /\ doing'[t] = doing[t] BY DEF CommInv, CommTypeOK
  <2> QED BY <2>1 DEF TaskOK, Busy, Sending, Reviewing
<1> QED BY <1>1

LEMMA CommTypeStep == ASSUME CommInv, [CommNext]_commVars PROVE CommTypeOK'
<1> USE DEF CommInv, CommTypeOK
<1>1. CASE UNCHANGED commVars BY <1>1 DEF commVars, TaskOK, Busy, Sending, Reviewing
<1>2. ASSUME NEW n \in ListNames, NewUser(n) PROVE CommTypeOK'
  BY <1>2 DEF NewUser, TaskOK, Busy, Sending, Reviewing
<1>3. ASSUME NEW s \in Seats, NEW n \in ListNames, CheckListName(s, n) PROVE CommTypeOK'
  <2>1. TakeUp(s, [op |-> "create", name |-> n]) BY <1>3 DEF CheckListName
  <2>2. TaskOK(s)' BY <2>1, TakeUpKeeps DEF TaskOK, Busy
  <2> QED BY <1>3, <2>1, <2>2, TakeUpKeeps, TasksStayOK DEF CheckListName
<1>4. ASSUME NEW s \in Seats, NEW n \in ListNames, RemoveList(s, n) PROVE CommTypeOK'
  BY <1>4 DEF RemoveList, TaskOK, Busy, Sending, Reviewing
<1>5. ASSUME NEW s \in Seats, NEW n \in ListNames, NEW b \in BOOLEAN, FlagList(s, n, b) PROVE CommTypeOK'
  <2>1. PICK l \in ListRow : l = lists[n] BY <1>5 DEF FlagList
  <2>2. [l EXCEPT !.adminOnly = b] \in ListRow BY DEF ListRow
  <2>3. lists' = [lists EXCEPT ![n] = [l EXCEPT !.adminOnly = b]] BY <1>5, <2>1 DEF FlagList
  <2>4. lists' \in [ListNames -> ListRow \cup {NoList}] BY <2>2, <2>3
  <2> QED BY <1>5, <2>4 DEF FlagList, TaskOK, Busy, Sending, Reviewing
<1>6. ASSUME NEW s \in Seats, NEW n \in ListNames, NEW b \in BOOLEAN, LookUpList(s, n, b) PROVE CommTypeOK'
  <2>1. TakeUp(s, [op |-> "join", id |-> lists[n].id, join |-> b]) BY <1>6 DEF LookUpList
  <2>2. TaskOK(s)' BY <2>1, TakeUpKeeps DEF TaskOK, Busy
  <2> QED BY <1>6, <2>1, <2>2, TakeUpKeeps, TasksStayOK DEF LookUpList
<1>7. ASSUME NEW s \in Seats, NEW n \in ListNames, MailToList(s, n) PROVE CommTypeOK'
  <2>1. TakeUp(s, [op |-> "members", id |-> lists[n].id]) BY <1>7 DEF MailToList
  <2>2. lists[n].id \in Nat BY <1>7 DEF MailToList, ListRow
  <2>3. TaskOK(s)' BY <2>1, <2>2, TakeUpKeeps DEF TaskOK, Busy
  <2> QED BY <1>7, <2>1, <2>3, TakeUpKeeps, TasksStayOK DEF MailToList
<1>8. ASSUME NEW s \in Seats, TakeUp(s, Idle) PROVE DOMAIN doing' = Seats /\ \A t \in Seats : TaskOK(t)'
  <2>1. TaskOK(s)' BY <1>8, TakeUpKeeps DEF TaskOK, Busy
  <2> QED BY <1>8, <2>1, TakeUpKeeps, TasksStayOK
<1>9. ASSUME NEW s \in Seats, CreateMailingList(s) PROVE CommTypeOK'
  <2>1. doing[s].name \in ListNames BY <1>9 DEF CreateMailingList, TaskOK
  <2>2. [id |-> listsMade + 1, adminOnly |-> FALSE] \in ListRow BY DEF ListRow
  <2>3. lists' \in [ListNames -> ListRow \cup {NoList}] /\ listsMade' \in Nat
    BY <1>9, <2>1, <2>2 DEF CreateMailingList
  <2> QED BY <1>8, <1>9, <2>3 DEF CreateMailingList, Rest
<1>10. ASSUME NEW s \in Seats, SetSubscription(s) \/ CountFortunes(s) \/ EndReview(s) PROVE CommTypeOK'
  <2>1. CASE CountFortunes(s)
    <3>1. PICK counted \in BOOLEAN : TakeUp(s, [op |-> "submit", counted |-> counted])
      BY <2>1 DEF CountFortunes
    <3>2. TaskOK(s)' BY <3>1, TakeUpKeeps DEF TaskOK, Busy
    <3> QED BY <2>1, <3>1, <3>2, TakeUpKeeps, TasksStayOK DEF CountFortunes
  <2> QED BY <1>8, <1>10, <2>1 DEF SetSubscription, EndReview, Rest
<1>11. ASSUME NEW s \in Seats, ListMemberIDs(s) PROVE CommTypeOK'
  <2>1. CASE Rest(s) BY <1>8, <1>11, <2>1 DEF ListMemberIDs, Rest
  <2>2. CASE TakeUp(s, [op |-> "send", id |-> doing[s].id, to |-> MembersOf(doing[s].id)])
    <3>1. TakeUp(s, [op |-> "send", id |-> doing[s].id, to |-> MembersOf(doing[s].id)]) BY <2>2
    <3>2. doing[s].id \in Nat BY <1>11 DEF ListMemberIDs, TaskOK
    <3>3. [op |-> "send", id |-> doing[s].id, to |-> MembersOf(doing[s].id)] \in Sending
      BY <3>2 DEF Sending, MembersOf
    <3>4. TaskOK(s)' BY <3>1, <3>3, TakeUpKeeps DEF TaskOK, Busy, Sending
    <3> QED BY <1>11, <3>1, <3>4, TakeUpKeeps, TasksStayOK DEF ListMemberIDs
  <2> QED BY <1>11, <2>1, <2>2 DEF ListMemberIDs
<1>12. ASSUME NEW s \in Seats, SendListMail(s) PROVE CommTypeOK'
  <2>1. ASSUME NEW u \in doing[s].to, TakeUp(s, [doing[s] EXCEPT !.to = @ \ {u}]) PROVE CommTypeOK'
    <3>1. PICK d \in Sending : d = doing[s] BY <1>12 DEF SendListMail, TaskOK
    <3>2. PICK e \in Sending : e = [d EXCEPT !.to = @ \ {u}]
      <4>1. d.to \ {u} \in SUBSET Sitters BY DEF Sending
      <4> QED BY <4>1 DEF Sending
    <3>3. TakeUp(s, e) BY <2>1, <3>1, <3>2
    <3>4. TaskOK(s)' BY <3>3, TakeUpKeeps DEF TaskOK, Busy, Sending
    <3> QED BY <1>12, <3>3, <3>4, TakeUpKeeps, TasksStayOK DEF SendListMail
  <2> QED BY <1>8, <1>12, <2>1 DEF SendListMail, Rest
<1>13. ASSUME NEW s \in Seats, SubmitFortune(s) PROVE CommTypeOK'
  <2>1. [by |-> Sitter[s], status |-> "pending"] \in FortuneRow BY DEF FortuneRow, Sitters
  <2>2. fortune' \in [Fortunes -> FortuneRow \cup {Unsent}] BY <1>13, <2>1 DEF SubmitFortune
  <2> QED BY <1>8, <1>13, <2>2 DEF SubmitFortune, Rest
<1>14. ASSUME NEW s \in Seats, PendingFortunes(s) PROVE CommTypeOK'
  <2>1. TakeUp(s, [op |-> "review", queue |-> {f \in Fortunes : Awaits(f)}]) BY <1>14 DEF PendingFortunes
  <2>2. PICK e \in Reviewing : e = [op |-> "review", queue |-> {f \in Fortunes : Awaits(f)}]
    BY DEF Reviewing
  <2>3. TakeUp(s, e) BY <2>1, <2>2
  <2>4. TaskOK(s)' BY <2>3, TakeUpKeeps DEF TaskOK, Busy, Reviewing
  <2> QED BY <1>14, <2>3, <2>4, TakeUpKeeps, TasksStayOK DEF PendingFortunes
<1>15. ASSUME NEW s \in Seats, NEW f \in Fortunes, NEW b \in BOOLEAN, ReviewFortune(s, f, b) PROVE CommTypeOK'
  <2>1. PICK d \in Reviewing : d = doing[s] BY <1>15 DEF ReviewFortune, TaskOK
  <2>2. PICK e \in Reviewing : e = [d EXCEPT !.queue = @ \ {f}]
    <3>1. d.queue \ {f} \in SUBSET Fortunes BY DEF Reviewing
    <3> QED BY <3>1 DEF Reviewing
  <2>3. TakeUp(s, e) BY <1>15, <2>1, <2>2 DEF ReviewFortune
  <2>4. TaskOK(s)' BY <2>3, TakeUpKeeps DEF TaskOK, Busy, Reviewing
  <2>5. fortune' \in [Fortunes -> FortuneRow \cup {Unsent}]
    <3>1. CASE Awaits(f) /\ fortune' # fortune
      <4>1. PICK r \in FortuneRow : r = fortune[f] BY <3>1 DEF Awaits
      <4>2. PICK word \in {"approved", "rejected"} : fortune' = [fortune EXCEPT ![f].status = word]
        BY <1>15, <3>1 DEF ReviewFortune
      <4>3. fortune' = [fortune EXCEPT ![f] = [r EXCEPT !.status = word]] BY <4>1, <4>2
      <4>4. [r EXCEPT !.status = word] \in FortuneRow BY DEF FortuneRow
      <4> QED BY <4>3, <4>4
    <3>2. CASE fortune' = fortune BY <3>2
    <3> QED BY <1>15, <3>1, <3>2 DEF ReviewFortune
  <2> QED BY <1>15, <2>3, <2>4, <2>5, TakeUpKeeps, TasksStayOK DEF ReviewFortune
<1>16. ASSUME NEW s \in Seats, NEW n \in ListNames, NEW b \in BOOLEAN,
              \/ CheckListName(s, n) \/ RemoveList(s, n) \/ MailToList(s, n)
              \/ FlagList(s, n, b) \/ LookUpList(s, n, b)
       PROVE  CommTypeOK'
  BY <1>3, <1>4, <1>5, <1>6, <1>7, <1>16
<1>17. ASSUME NEW s \in Seats,
              \/ CreateMailingList(s) \/ SetSubscription(s) \/ ListMemberIDs(s) \/ SendListMail(s)
              \/ CountFortunes(s) \/ SubmitFortune(s) \/ PendingFortunes(s) \/ EndReview(s)
       PROVE  CommTypeOK'
  BY <1>9, <1>10, <1>11, <1>12, <1>13, <1>14, <1>17
<1> HIDE DEF CommInv, CommTypeOK
<1> QED BY <1>1, <1>2, <1>15, <1>16, <1>17 DEF CommNext

-----------------------------------------------------------------------------
\* Names

LEMMA NobodyElseMakes ==
    ASSUME CommInv, NEW s \in Seats, NEW task, TakeUp(s, task), task # Idle => task.op # "create"
    PROVE  \A n : Making(n)' => Making(n)
BY TakeUpKeeps DEF Making, Busy

LEMMA ApartStep == ASSUME CommInv, [CommNext]_commVars PROVE Apart'
<1>1. ASSUME \A n \in newcomers : Making(n)' => Making(n),
             \A n \in newcomers : lists'[n] # NoList => lists[n] # NoList \/ Making(n),
             newcomers' = newcomers, late \subseteq late'
      PROVE  Apart'
  BY <1>1 DEF CommInv, Apart
<1>2. CASE UNCHANGED commVars BY <1>1, <1>2 DEF commVars, Making, Busy
<1>3. ASSUME NEW n \in ListNames, NewUser(n) PROVE Apart'
  <2>1. doing' = doing /\ lists' = lists /\ newcomers' = newcomers \cup {n} BY <1>3 DEF NewUser
  <2>2. \A m : Making(m)' <=> Making(m) BY <2>1 DEF Making, Busy
  <2>3. late \subseteq late' /\ (lists[n] # NoList \/ Making(n) => n \in late') BY <1>3 DEF NewUser, Making
  <2> QED BY <2>1, <2>2, <2>3 DEF CommInv, Apart
<1>4. ASSUME NEW s \in Seats, NEW n \in ListNames, CheckListName(s, n) PROVE Apart'
  <2>1. TakeUp(s, [op |-> "create", name |-> n]) BY <1>4 DEF CheckListName
  <2>2. \A m : Making(m)' => Making(m) \/ m = n BY <2>1, TakeUpKeeps DEF Making, Busy
  <2>3. late' = late \cup ({n} \cap newcomers) /\ lists' = lists /\ newcomers' = newcomers
    BY <1>4 DEF CheckListName
  <2> QED BY <2>2, <2>3 DEF CommInv, Apart
<1>5. ASSUME NEW s \in Seats, NEW n \in ListNames, NEW b \in BOOLEAN, RemoveList(s, n) \/ FlagList(s, n, b)
      PROVE  Apart'
  <2>1. \A m : Making(m)' => Making(m) BY <1>5 DEF RemoveList, FlagList, Making, Busy
  <2>2. \A m \in newcomers : lists'[m] # NoList => lists[m] # NoList
    BY <1>5 DEF RemoveList, FlagList, CommInv, CommTypeOK
  <2> QED BY <1>1, <1>5, <2>1, <2>2 DEF RemoveList, FlagList
<1>6. ASSUME NEW s \in Seats, CreateMailingList(s) PROVE Apart'
  <2>1. \A m : Making(m)' => Making(m) BY <1>6, NobodyElseMakes DEF CreateMailingList, Rest
  <2>2. Making(doing[s].name) BY <1>6 DEF CreateMailingList, Making
  <2>3. \A m \in newcomers : lists'[m] # NoList => lists[m] # NoList \/ m = doing[s].name
    BY <1>6 DEF CreateMailingList, CommInv, CommTypeOK
  <2> QED BY <1>1, <1>6, <2>1, <2>2, <2>3 DEF CreateMailingList
<1>7. ASSUME NEW s \in Seats, NEW task, TakeUp(s, task), task # Idle => task.op # "create",
             UNCHANGED <<lists, newcomers, late>>
      PROVE  Apart'
  BY <1>1, <1>7, NobodyElseMakes
<1>8. ASSUME NEW s \in Seats, NEW n \in ListNames, NEW b \in BOOLEAN, LookUpList(s, n, b) PROVE Apart'
  BY <1>7, <1>8 DEF LookUpList
<1>9. ASSUME NEW s \in Seats, NEW n \in ListNames, MailToList(s, n) PROVE Apart'
  BY <1>7, <1>9 DEF MailToList
<1>10. ASSUME NEW s \in Seats, SetSubscription(s) \/ EndReview(s) \/ SubmitFortune(s) PROVE Apart'
  BY <1>7, <1>10 DEF SetSubscription, EndReview, SubmitFortune, Rest
<1>11. ASSUME NEW s \in Seats, CountFortunes(s) \/ PendingFortunes(s) PROVE Apart'
  <2>1. CASE CountFortunes(s)
    <3>1. PICK counted \in BOOLEAN : TakeUp(s, [op |-> "submit", counted |-> counted])
      BY <2>1 DEF CountFortunes
    <3> QED BY <1>7, <2>1, <3>1 DEF CountFortunes
  <2> QED BY <1>7, <1>11, <2>1 DEF PendingFortunes
<1>12. ASSUME NEW s \in Seats, ListMemberIDs(s) PROVE Apart'
  <2>1. UNCHANGED <<lists, newcomers, late>> BY <1>12 DEF ListMemberIDs
  <2>2. CASE TakeUp(s, Idle) BY <1>7, <2>1, <2>2
  <2>3. CASE TakeUp(s, [op |-> "send", id |-> doing[s].id, to |-> MembersOf(doing[s].id)])
    BY <1>7, <2>1, <2>3
  <2> QED BY <1>12, <2>2, <2>3 DEF ListMemberIDs, Rest
<1>13. ASSUME NEW s \in Seats, SendListMail(s) PROVE Apart'
  <2>1. UNCHANGED <<lists, newcomers, late>> BY <1>13 DEF SendListMail
  <2>2. CASE TakeUp(s, Idle) BY <1>7, <2>1, <2>2
  <2>3. ASSUME NEW u \in doing[s].to, TakeUp(s, [doing[s] EXCEPT !.to = @ \ {u}]) PROVE Apart'
    <3>1. doing[s] \in Sending BY <1>13 DEF SendListMail, CommInv, CommTypeOK, TaskOK
    <3>2. [doing[s] EXCEPT !.to = @ \ {u}].op # "create" BY <3>1 DEF Sending
    <3> QED BY <1>7, <2>1, <2>3, <3>2
  <2> QED BY <1>13, <2>2, <2>3 DEF SendListMail, Rest
<1>14. ASSUME NEW s \in Seats, NEW f \in Fortunes, NEW b \in BOOLEAN, ReviewFortune(s, f, b) PROVE Apart'
  <2>1. doing[s] \in Reviewing BY <1>14 DEF ReviewFortune, CommInv, CommTypeOK, TaskOK
  <2>2. [doing[s] EXCEPT !.queue = @ \ {f}].op # "create" BY <2>1 DEF Reviewing
  <2> QED BY <1>7, <1>14, <2>2 DEF ReviewFortune
<1> QED BY <1>2, <1>3, <1>4, <1>5, <1>6, <1>8, <1>9, <1>10, <1>11, <1>12, <1>13, <1>14 DEF CommNext

-----------------------------------------------------------------------------
\* Posts

\* For one poster the list stands, and what is still to send is for members.
Fair(s) ==
    /\ Busy(s, "members") \/ Busy(s, "send") => Stands(s)
    /\ Busy(s, "send") => doing[s].to \subseteq MembersOf(doing[s].id)

\* Whatever changes a list moves all who hold it.
LEMMA OtherListsStand ==
    ASSUME CommInv, NEW id, \A n \in ListNames : lists[n] # lists'[n] => lists[n] = NoList \/ lists[n].id = id,
           \A k, u : k # id => (<<k, u>> \in member <=> <<k, u>> \in member'),
           moved' = moved \cup Holders(id), NEW t \in Seats \ moved', doing'[t] = doing[t]
    PROVE  Fair(t)'
<1>1. Fair(t) BY DEF CommInv, PostersStand, Fair
<1>2. CASE Busy(t, "members") \/ Busy(t, "send")
  <2>1. doing[t].id # id BY <1>2 DEF Holders, Busy
  <2>2. PICK n \in ListNames : /\ lists[n] # NoList /\ lists[n].id = doing[t].id
                               /\ MayPost(t, lists[n].adminOnly, <<doing[t].id, Sitter[t]>> \in member)
    BY <1>1, <1>2 DEF Fair, Stands
  <2>3. lists'[n] = lists[n] BY <2>1, <2>2
  <2>4. <<doing[t].id, Sitter[t]>> \in member' <=> <<doing[t].id, Sitter[t]>> \in member BY <2>1
  <2>5. MayPost(t, lists[n].adminOnly, <<doing[t].id, Sitter[t]>> \in member') BY <2>2, <2>4 DEF MayPost
  <2>6. Stands(t)' BY <2>2, <2>3, <2>5 DEF Stands, MayPost
  <2>7. MembersOf(doing[t].id)' = MembersOf(doing[t].id) BY <2>1 DEF MembersOf
  <2> QED BY <1>1, <2>6, <2>7 DEF Fair, Busy
<1>3. CASE ~(Busy(t, "members") \/ Busy(t, "send")) BY <1>3 DEF Fair, Busy
<1> QED BY <1>2, <1>3

LEMMA FairStays ==
    ASSUME CommInv, UNCHANGED <<lists, member>>, NEW t \in Seats \ moved, doing'[t] = doing[t]
    PROVE  Fair(t)'
<1>1. Fair(t) BY DEF CommInv, PostersStand, Fair
<1>2. Stands(t) => Stands(t)' BY DEF Stands, MayPost
<1>3. MembersOf(doing[t].id)' = MembersOf(doing[t].id) BY DEF MembersOf
<1> QED BY <1>1, <1>2, <1>3 DEF Fair, Busy

LEMMA PostStep == ASSUME CommInv, [CommNext]_commVars PROVE PostersStand'
<1>0. (\A t \in Seats \ moved' : Fair(t)') => PostersStand' BY DEF PostersStand, Fair
<1>1. ASSUME UNCHANGED <<lists, member, doing, moved>> PROVE PostersStand'
  BY <1>1, <1>0, FairStays
<1>2. CASE UNCHANGED commVars BY <1>1, <1>2 DEF commVars
<1>3. ASSUME NEW n \in ListNames, NewUser(n) PROVE PostersStand' BY <1>1, <1>3 DEF NewUser
<1>4. ASSUME NEW s \in Seats, NEW task, TakeUp(s, task), UNCHANGED <<lists, member, moved>>,
             task # Idle => task.op \notin {"members", "send"}
      PROVE  PostersStand'
  <2>1. Fair(s)' BY <1>4, TakeUpKeeps DEF Fair, Busy
  <2>2. \A t \in Seats \ moved' : t # s => Fair(t)' BY <1>4, TakeUpKeeps, FairStays
  <2> QED BY <1>0, <2>1, <2>2
<1>5. ASSUME NEW s \in Seats, NEW n \in ListNames, CheckListName(s, n) PROVE PostersStand'
  BY <1>4, <1>5 DEF CheckListName
<1>6. ASSUME NEW s \in Seats, NEW n \in ListNames, NEW b \in BOOLEAN, RemoveList(s, n) \/ FlagList(s, n, b)
      PROVE  PostersStand'
  <2>1. PICK id : id = lists[n].id OBVIOUS
  <2>2. \A m \in ListNames : lists[m] # lists'[m] => lists[m].id = id
    BY <1>6, <2>1 DEF RemoveList, FlagList, CommInv, CommTypeOK
  <2>3. \A k, u : k # id => (<<k, u>> \in member <=> <<k, u>> \in member')
    BY <1>6, <2>1 DEF RemoveList, FlagList
  <2>4. moved' = moved \cup Holders(id) /\ doing' = doing BY <1>6, <2>1 DEF RemoveList, FlagList
  <2> QED BY <1>0, <2>2, <2>3, <2>4, OtherListsStand
<1>7. ASSUME NEW s \in Seats, NEW n \in ListNames, NEW b \in BOOLEAN, LookUpList(s, n, b) PROVE PostersStand'
  BY <1>4, <1>7 DEF LookUpList
<1>8. ASSUME NEW s \in Seats, CountFortunes(s) \/ PendingFortunes(s) PROVE PostersStand'
  <2>1. CASE CountFortunes(s)
    <3>1. PICK counted \in BOOLEAN : TakeUp(s, [op |-> "submit", counted |-> counted])
      BY <2>1 DEF CountFortunes
    <3> QED BY <1>4, <2>1, <3>1 DEF CountFortunes
  <2> QED BY <1>4, <1>8, <2>1 DEF PendingFortunes
<1>9. ASSUME NEW s \in Seats, EndReview(s) \/ SubmitFortune(s) PROVE PostersStand'
  BY <1>4, <1>9 DEF EndReview, SubmitFortune, Rest
<1>10. ASSUME NEW s \in Seats, CreateMailingList(s) PROVE PostersStand'
  <2>1. TakeUp(s, Idle) /\ UNCHANGED <<member, moved>> BY <1>10 DEF CreateMailingList, Rest
  <2>2. \A m \in ListNames : lists[m] # lists'[m] => lists[m] = NoList
    BY <1>10 DEF CreateMailingList, CommInv, CommTypeOK
  <2>3. ASSUME NEW t \in Seats \ moved', t # s PROVE Fair(t)'
    <3>1. Fair(t) /\ doing'[t] = doing[t] BY <2>1, <2>3, TakeUpKeeps DEF CommInv, PostersStand, Fair
    <3>2. Stands(t) => Stands(t)' BY <2>1, <2>2, <3>1 DEF Stands, MayPost
    <3>3. MembersOf(doing[t].id)' = MembersOf(doing[t].id) BY <2>1, <3>1 DEF MembersOf
    <3> QED BY <3>1, <3>2, <3>3 DEF Fair, Busy
  <2>4. Fair(s)' BY <2>1, TakeUpKeeps DEF Fair, Busy
  <2> QED BY <1>0, <2>3, <2>4
<1>11. ASSUME NEW s \in Seats, SetSubscription(s) PROVE PostersStand'
  <2>1. PICK id : id = doing[s].id OBVIOUS
  <2>2. lists' = lists /\ TakeUp(s, Idle) /\ moved' = moved \cup Holders(id)
    BY <1>11, <2>1 DEF SetSubscription, Rest
  <2>3. \A k, u : k # id => (<<k, u>> \in member <=> <<k, u>> \in member')
    BY <1>11, <2>1 DEF SetSubscription
  <2>4. Fair(s)' BY <2>2, TakeUpKeeps DEF Fair, Busy
  <2>5. \A t \in Seats \ moved' : t # s => Fair(t)' BY <2>2, <2>3, TakeUpKeeps, OtherListsStand
  <2> QED BY <1>0, <2>4, <2>5
<1>12. ASSUME NEW s \in Seats, NEW n \in ListNames, MailToList(s, n) PROVE PostersStand'
  <2>1. TakeUp(s, [op |-> "members", id |-> lists[n].id]) /\ UNCHANGED <<lists, member>> /\ moved' = moved \ {s}
    BY <1>12 DEF MailToList
  <2>2. doing'[s] = [op |-> "members", id |-> lists[n].id] BY <2>1, TakeUpKeeps
  <2>3. Stands(s)' BY <1>12, <2>1, <2>2 DEF Stands, MailToList, MayPost
  <2>4. Fair(s)' BY <2>2, <2>3 DEF Fair, Busy
  <2>5. \A t \in Seats \ moved' : t # s => Fair(t)' BY <2>1, TakeUpKeeps, FairStays
  <2> QED BY <1>0, <2>4, <2>5
<1>13. ASSUME NEW s \in Seats, ListMemberIDs(s) PROVE PostersStand'
  <2>1. UNCHANGED <<lists, member, moved>> /\ Busy(s, "members") BY <1>13 DEF ListMemberIDs
  <2>2. CASE TakeUp(s, Idle) BY <1>4, <2>1, <2>2
  <2>3. CASE TakeUp(s, [op |-> "send", id |-> doing[s].id, to |-> MembersOf(doing[s].id)])
    <3>1. doing'[s] = [op |-> "send", id |-> doing[s].id, to |-> MembersOf(doing[s].id)] BY <2>3, TakeUpKeeps
    <3>2. s \notin moved' => Stands(s) BY <2>1 DEF CommInv, PostersStand
    <3>3. Stands(s) => Stands(s)' BY <2>1, <3>1 DEF Stands, MayPost
    <3>4. MembersOf(doing[s].id)' = MembersOf(doing[s].id) BY <2>1, <3>1 DEF MembersOf
    <3>5. s \notin moved' => Fair(s)' BY <3>1, <3>2, <3>3, <3>4 DEF Fair
    <3>6. \A t \in Seats \ moved' : t # s => Fair(t)' BY <2>1, <2>3, TakeUpKeeps, FairStays
    <3> QED BY <1>0, <3>5, <3>6
  <2> QED BY <1>13, <2>2, <2>3 DEF ListMemberIDs, Rest
<1>14. ASSUME NEW s \in Seats, SendListMail(s) PROVE PostersStand'
  <2>1. UNCHANGED <<lists, member, moved>> /\ Busy(s, "send") BY <1>14 DEF SendListMail
  <2>2. CASE TakeUp(s, Idle) BY <1>4, <2>1, <2>2
  <2>3. ASSUME NEW u \in doing[s].to, TakeUp(s, [doing[s] EXCEPT !.to = @ \ {u}]) PROVE PostersStand'
    <3>1. PICK d \in Sending : d = doing[s] BY <2>1 DEF CommInv, CommTypeOK, TaskOK
    <3>2. doing'[s] = [d EXCEPT !.to = @ \ {u}] BY <2>3, <3>1, TakeUpKeeps
    <3>3. doing'[s].op = "send" /\ doing'[s].id = d.id /\ doing'[s].to \subseteq d.to BY <3>2 DEF Sending
    <3>4. s \notin moved' => Stands(s) /\ d.to \subseteq MembersOf(d.id) BY <2>1, <3>1 DEF CommInv, PostersStand
    <3>5. Stands(s) => Stands(s)' BY <2>1, <3>1, <3>3 DEF Stands, MayPost
    <3>6. MembersOf(d.id) = MembersOf(doing[s].id)' BY <2>1, <3>3 DEF MembersOf
    <3>7. s \notin moved' => Fair(s)' BY <3>3, <3>4, <3>5, <3>6 DEF Fair
    <3>8. \A t \in Seats \ moved' : t # s => Fair(t)' BY <2>1, <2>3, TakeUpKeeps, FairStays
    <3> QED BY <1>0, <3>7, <3>8
  <2> QED BY <1>14, <2>2, <2>3 DEF SendListMail, Rest
<1>15. ASSUME NEW s \in Seats, NEW f \in Fortunes, NEW b \in BOOLEAN, ReviewFortune(s, f, b) PROVE PostersStand'
  <2>1. doing[s] \in Reviewing BY <1>15 DEF ReviewFortune, CommInv, CommTypeOK, TaskOK
  <2>2. [doing[s] EXCEPT !.queue = @ \ {f}].op = "review" BY <2>1 DEF Reviewing
  <2> QED BY <1>4, <1>15, <2>2 DEF ReviewFortune
<1> QED BY <1>2, <1>3, <1>5, <1>6, <1>7, <1>8, <1>9, <1>10, <1>11, <1>12, <1>13, <1>14, <1>15 DEF CommNext

-----------------------------------------------------------------------------
\* Verdicts

LEMMA VerdictStep == ASSUME CommInv, [CommNext]_commVars PROVE VerdictsStand'
<1>1. ASSUME UNCHANGED <<fortune, verdicts>> PROVE VerdictsStand' BY <1>1 DEF CommInv, VerdictsStand
<1>2. ASSUME NEW s \in Seats, SubmitFortune(s) PROVE VerdictsStand'
  <2>1. verdicts' = verdicts /\ (fortune' = fortune \/ \E f \in Fortunes :
          fortune[f] = Unsent /\ fortune' = [fortune EXCEPT ![f] = [by |-> Sitter[s], status |-> "pending"]])
    BY <1>2 DEF SubmitFortune
  <2>2. \A v \in verdicts : fortune'[v[1]] = fortune[v[1]]
    BY <2>1 DEF CommInv, CommTypeOK, VerdictsStand
  <2> QED BY <2>1, <2>2 DEF CommInv, VerdictsStand
<1>3. ASSUME NEW s \in Seats, NEW f \in Fortunes, NEW b \in BOOLEAN, ReviewFortune(s, f, b) PROVE VerdictsStand'
  <2>1. CASE UNCHANGED <<fortune, verdicts>> BY <1>1, <2>1
  <2>2. CASE Awaits(f) /\ ~UNCHANGED <<fortune, verdicts>>
    <3>1. PICK word \in {"approved", "rejected"} :
            /\ fortune' = [fortune EXCEPT ![f].status = word]
            /\ verdicts' = verdicts \cup {<<f, word, Sitter[s]>>} \/ verdicts' = verdicts
      BY <1>3, <2>2 DEF ReviewFortune
    <3>2. PICK r \in FortuneRow : r = fortune[f] /\ r.status = "pending"
      BY <2>2 DEF Awaits, CommInv, CommTypeOK
    <3>3. PICK q \in FortuneRow : q = [r EXCEPT !.status = word] BY DEF FortuneRow
    <3>q. q.status = word BY <3>3 DEF FortuneRow
    <3>4. fortune' = [fortune EXCEPT ![f] = q] BY <3>1, <3>2, <3>3
    <3>5. fortune'[f] = q /\ \A g \in Fortunes \ {f} : fortune'[g] = fortune[g]
      BY <3>4 DEF CommInv, CommTypeOK
    <3>6. \A v \in verdicts : v[1] # f BY <3>2 DEF CommInv, VerdictsStand
    <3>7. PICK w : w = <<f, word, Sitter[s]>> OBVIOUS
    <3>8. w[1] = f /\ w[2] = word BY <3>7
    <3>9. verdicts' \subseteq verdicts \cup {w} BY <3>1, <3>7
    <3> QED BY <3>q, <3>5, <3>6, <3>8, <3>9 DEF CommInv, VerdictsStand
  <2> QED BY <1>3, <2>1, <2>2 DEF ReviewFortune
<1>4. CASE UNCHANGED commVars BY <1>1, <1>4 DEF commVars
<1>5. ASSUME NEW n \in ListNames, NewUser(n) PROVE VerdictsStand' BY <1>1, <1>5 DEF NewUser
<1>6. ASSUME NEW s \in Seats, NEW n \in ListNames, NEW b \in BOOLEAN,
             \/ CheckListName(s, n) \/ RemoveList(s, n) \/ MailToList(s, n)
             \/ FlagList(s, n, b) \/ LookUpList(s, n, b)
      PROVE  VerdictsStand'
  BY <1>1, <1>6 DEF CheckListName, RemoveList, MailToList, FlagList, LookUpList
<1>7. ASSUME NEW s \in Seats,
             \/ CreateMailingList(s) \/ SetSubscription(s) \/ ListMemberIDs(s) \/ SendListMail(s)
             \/ CountFortunes(s) \/ PendingFortunes(s) \/ EndReview(s)
      PROVE  VerdictsStand'
  <2>1. UNCHANGED <<fortune, verdicts>>
    BY <1>7 DEF CreateMailingList, SetSubscription, ListMemberIDs, SendListMail, CountFortunes,
                PendingFortunes, EndReview
  <2> QED BY <1>1, <2>1
<1> QED BY <1>2, <1>3, <1>4, <1>5, <1>6, <1>7 DEF CommNext

-----------------------------------------------------------------------------
\* Submissions

LEMMA TypingIsFinite ==
    \A u : /\ IsFiniteSet(SeatsOf(u)) /\ IsFiniteSet(Typing(u))
           /\ Cardinality(SeatsOf(u)) \in Nat /\ Cardinality(Typing(u)) \in Nat
<1> TAKE u
<1>1. SeatsOf(u) \subseteq Seats /\ Typing(u) \subseteq Seats BY DEF SeatsOf, Typing
<1>2. IsFiniteSet(SeatsOf(u)) /\ IsFiniteSet(Typing(u)) BY <1>1, FS_Subset
<1> QED BY <1>2, FS_CardinalityType

LEMMA CountedIsFinite ==
    ASSUME CommInv, NEW u \in Sitters \ Chiefs
    PROVE  /\ IsFiniteSet(AddedBy(u)) /\ Cardinality(AddedBy(u)) \in Nat
           /\ IsFiniteSet(CountedBy(u)) /\ Cardinality(CountedBy(u)) \in Nat
           /\ Cardinality(CountedBy(u)) <= Cardinality(AddedBy(u))
           /\ Cardinality(CountedBy(u)) + Cardinality(Typing(u)) <= DailyLimit + Cardinality(SeatsOf(u)) - 1
<1>1. IsFiniteSet(AddedBy(u)) BY DEF CommInv, FewAreLetThrough
<1>2. CountedBy(u) \subseteq AddedBy(u) BY DEF CountedBy
<1>3. Cardinality(CountedBy(u)) + Cardinality(Typing(u)) <= DailyLimit + Cardinality(SeatsOf(u)) - 1
  BY DEF CommInv, FewAreLetThrough
<1> QED BY <1>1, <1>2, <1>3, FS_Subset, FS_CardinalityType

\* Nobody new is let through, and nothing counted is added.
LEMMA FewKeeps ==
    ASSUME CommInv, \A u : Typing(u)' \subseteq Typing(u),
           \A u \in Sitters \ Chiefs : IsFiniteSet(AddedBy(u)') /\ CountedBy(u)' \subseteq CountedBy(u)
    PROVE  FewAreLetThrough'
<1> SUFFICES ASSUME NEW u \in Sitters \ Chiefs
             PROVE  Cardinality(CountedBy(u)') + Cardinality(Typing(u)') <= DailyLimit + Cardinality(SeatsOf(u)) - 1
  BY DEF FewAreLetThrough, SeatsOf
<1>1. /\ IsFiniteSet(CountedBy(u)) /\ Cardinality(CountedBy(u)) \in Nat
      /\ Cardinality(CountedBy(u)) + Cardinality(Typing(u)) <= DailyLimit + Cardinality(SeatsOf(u)) - 1
  BY CountedIsFinite
<1>2. IsFiniteSet(Typing(u)) /\ Cardinality(Typing(u)) \in Nat /\ Cardinality(SeatsOf(u)) \in Nat
  BY TypingIsFinite
<1>3. Cardinality(Typing(u)') <= Cardinality(Typing(u)) /\ Cardinality(Typing(u)') \in Nat
  BY <1>2, FS_Subset, FS_CardinalityType
<1>4. Cardinality(CountedBy(u)') <= Cardinality(CountedBy(u)) /\ Cardinality(CountedBy(u)') \in Nat
  BY <1>1, FS_Subset, FS_CardinalityType
<1> QED BY <1>1, <1>2, <1>3, <1>4

LEMMA FewKeepAll ==
    ASSUME CommInv, UNCHANGED <<fortune, uncounted>>, \A u : Typing(u)' \subseteq Typing(u)
    PROVE  FewAreLetThrough'
<1>1. \A u : AddedBy(u)' = AddedBy(u) /\ CountedBy(u)' = CountedBy(u) BY DEF AddedBy, CountedBy
<1>2. \A u \in Sitters \ Chiefs : IsFiniteSet(AddedBy(u)) BY CountedIsFinite
<1> QED BY <1>1, <1>2, FewKeeps

LEMMA NobodyElseTypes ==
    ASSUME CommInv, NEW s \in Seats, NEW task, TakeUp(s, task),
           (task # Idle /\ task.op = "submit") => task.counted # TRUE
    PROVE  \A u : Typing(u)' \subseteq Typing(u) \ {s}
BY TakeUpKeeps DEF Typing, SeatsOf, Busy

LEMMA CountStep == ASSUME CommInv, NEW s \in Seats, CountFortunes(s) PROVE FewAreLetThrough'
<1>1. PICK counted \in BOOLEAN :
        /\ Chief(s) \/ ~counted \/ Cardinality(AddedBy(Sitter[s])) < DailyLimit
        /\ TakeUp(s, [op |-> "submit", counted |-> counted])
  BY DEF CountFortunes
<1>2. UNCHANGED <<fortune, uncounted>> BY DEF CountFortunes
<1>3. CASE ~counted
  <2>1. [op |-> "submit", counted |-> counted].counted # TRUE BY <1>3
  <2>2. \A u : Typing(u)' \subseteq Typing(u) \ {s} BY <1>1, <2>1, NobodyElseTypes
  <2> QED BY <1>2, <2>2, FewKeepAll
<1>4. CASE counted
  <2> SUFFICES ASSUME NEW u \in Sitters \ Chiefs
               PROVE  /\ IsFiniteSet(AddedBy(u)')
                      /\ Cardinality(CountedBy(u)') + Cardinality(Typing(u)')
                            <= DailyLimit + Cardinality(SeatsOf(u)) - 1
    BY DEF FewAreLetThrough, SeatsOf
  <2>1. AddedBy(u)' = AddedBy(u) /\ CountedBy(u)' = CountedBy(u) BY <1>2 DEF AddedBy, CountedBy
  <2>2. /\ IsFiniteSet(AddedBy(u)) /\ Cardinality(AddedBy(u)) \in Nat /\ Cardinality(CountedBy(u)) \in Nat
        /\ Cardinality(CountedBy(u)) <= Cardinality(AddedBy(u))
        /\ Cardinality(CountedBy(u)) + Cardinality(Typing(u)) <= DailyLimit + Cardinality(SeatsOf(u)) - 1
    BY CountedIsFinite
  <2>3. IsFiniteSet(SeatsOf(u)) /\ Cardinality(Typing(u)) \in Nat /\ Cardinality(SeatsOf(u)) \in Nat
    BY TypingIsFinite
  <2>4. CASE u = Sitter[s]
    <3>1. Cardinality(AddedBy(u)) < DailyLimit BY <1>1, <1>4, <2>4 DEF Chief
    <3>2. Typing(u)' \subseteq SeatsOf(u) BY DEF Typing, SeatsOf
    <3>3. Cardinality(Typing(u)') <= Cardinality(SeatsOf(u)) /\ Cardinality(Typing(u)') \in Nat
      BY <2>3, <3>2, FS_Subset, FS_CardinalityType
    <3> QED BY <2>1, <2>2, <2>3, <3>1, <3>3
  <2>5. CASE u # Sitter[s]
    <3>1. Typing(u)' = Typing(u) BY <1>1, <2>5, TakeUpKeeps DEF Typing, SeatsOf, Busy
    <3> QED BY <2>1, <2>2, <3>1
  <2> QED BY <2>4, <2>5
<1> QED BY <1>3, <1>4

LEMMA SubmitStep == ASSUME CommInv, NEW s \in Seats, SubmitFortune(s) PROVE FewAreLetThrough'
<1>1. TakeUp(s, Idle) /\ Busy(s, "submit") BY DEF SubmitFortune, Rest
<1>2. \A u : Typing(u)' \subseteq Typing(u) \ {s} BY <1>1, NobodyElseTypes
<1>3. CASE UNCHANGED <<fortune, uncounted>> BY <1>2, <1>3, FewKeepAll
<1>4. ASSUME NEW f \in Fortunes, fortune[f] = Unsent,
             fortune' = [fortune EXCEPT ![f] = [by |-> Sitter[s], status |-> "pending"]],
             uncounted' = IF doing[s].counted THEN uncounted ELSE uncounted \cup {f}
      PROVE  FewAreLetThrough'
  <2>1. \A u : AddedBy(u)' \subseteq AddedBy(u) \cup {f} BY <1>4 DEF AddedBy, CommInv, CommTypeOK
  <2>2. \A u : u # Sitter[s] => AddedBy(u)' = AddedBy(u) BY <1>4 DEF AddedBy, CommInv, CommTypeOK
  <2>3. \A u \in Sitters \ Chiefs : IsFiniteSet(AddedBy(u)')
    BY <2>1, CountedIsFinite, FS_AddElement, FS_Subset
  <2>4. uncounted \subseteq uncounted' BY <1>4
  <2>5. CASE doing[s].counted # TRUE
    <3>1. f \in uncounted' BY <1>4, <2>5
    <3>2. \A u : CountedBy(u)' \subseteq CountedBy(u) BY <2>1, <2>4, <3>1 DEF CountedBy
    <3> QED BY <1>2, <2>3, <3>2, FewKeeps
  <2>6. CASE doing[s].counted = TRUE
    <3> SUFFICES ASSUME NEW u \in Sitters \ Chiefs
                 PROVE  Cardinality(CountedBy(u)') + Cardinality(Typing(u)')
                              <= DailyLimit + Cardinality(SeatsOf(u)) - 1
      BY <2>3 DEF FewAreLetThrough, SeatsOf
    <3>1. /\ IsFiniteSet(CountedBy(u)) /\ Cardinality(CountedBy(u)) \in Nat
          /\ Cardinality(CountedBy(u)) + Cardinality(Typing(u)) <= DailyLimit + Cardinality(SeatsOf(u)) - 1
      BY CountedIsFinite
    <3>2. IsFiniteSet(Typing(u)) /\ Cardinality(Typing(u)) \in Nat /\ Cardinality(SeatsOf(u)) \in Nat
      BY TypingIsFinite
    <3>3. CASE u = Sitter[s]
      <4>1. CountedBy(u)' \subseteq CountedBy(u) \cup {f} BY <2>1, <2>4 DEF CountedBy
      <4>2. IsFiniteSet(CountedBy(u) \cup {f}) BY <3>1, FS_AddElement
      <4>3. Cardinality(CountedBy(u) \cup {f}) \in {Cardinality(CountedBy(u)), Cardinality(CountedBy(u)) + 1}
        BY <3>1, FS_AddElement
      <4>4. Cardinality(CountedBy(u)') <= Cardinality(CountedBy(u) \cup {f}) /\ Cardinality(CountedBy(u)') \in Nat
        BY <4>1, <4>2, FS_Subset, FS_CardinalityType
      <4>5. Cardinality(CountedBy(u)') <= Cardinality(CountedBy(u)) + 1 /\ Cardinality(CountedBy(u)') \in Nat
        BY <3>1, <4>3, <4>4
      <4>6. s \in Typing(u) BY <1>1, <2>6, <3>3 DEF Typing, SeatsOf
      <4>7. /\ IsFiniteSet(Typing(u) \ {s}) /\ Cardinality(Typing(u) \ {s}) = Cardinality(Typing(u)) - 1
            /\ Cardinality(Typing(u) \ {s}) \in Nat
        BY <3>2, <4>6, FS_RemoveElement, FS_CardinalityType
      <4>8. Cardinality(Typing(u)') <= Cardinality(Typing(u)) - 1 /\ Cardinality(Typing(u)') \in Nat
        BY <1>2, <4>7, FS_Subset, FS_CardinalityType
      <4> QED BY <3>1, <3>2, <4>5, <4>8
    <3>4. CASE u # Sitter[s]
      <4>1. CountedBy(u)' \subseteq CountedBy(u) BY <2>2, <2>4, <3>4 DEF CountedBy
      <4>2. Cardinality(CountedBy(u)') <= Cardinality(CountedBy(u)) /\ Cardinality(CountedBy(u)') \in Nat
        BY <3>1, <4>1, FS_Subset, FS_CardinalityType
      <4>3. Typing(u)' \subseteq Typing(u) BY <1>2
      <4>4. Cardinality(Typing(u)') <= Cardinality(Typing(u)) /\ Cardinality(Typing(u)') \in Nat
        BY <3>2, <4>3, FS_Subset, FS_CardinalityType
      <4> QED BY <3>1, <3>2, <4>2, <4>4
    <3> QED BY <3>3, <3>4
  <2> QED BY <2>5, <2>6
<1> QED BY <1>3, <1>4 DEF SubmitFortune

LEMMA FewStep == ASSUME CommInv, [CommNext]_commVars PROVE FewAreLetThrough'
<1>1. ASSUME NEW s \in Seats, NEW task, TakeUp(s, task), task # Idle => task.op # "submit",
             UNCHANGED <<fortune, uncounted>>
      PROVE  FewAreLetThrough'
  BY <1>1, NobodyElseTypes, FewKeepAll
<1>2. ASSUME UNCHANGED <<doing, fortune, uncounted>> PROVE FewAreLetThrough'
  <2>1. \A u : Typing(u)' \subseteq Typing(u) BY <1>2 DEF Typing, SeatsOf, Busy
  <2> QED BY <1>2, <2>1, FewKeepAll
<1>3. CASE UNCHANGED commVars BY <1>2, <1>3 DEF commVars
<1>4. ASSUME NEW n \in ListNames, NewUser(n) PROVE FewAreLetThrough' BY <1>2, <1>4 DEF NewUser
<1>5. ASSUME NEW s \in Seats, NEW n \in ListNames, NEW b \in BOOLEAN, RemoveList(s, n) \/ FlagList(s, n, b)
      PROVE  FewAreLetThrough'
  BY <1>2, <1>5 DEF RemoveList, FlagList
<1>6. ASSUME NEW s \in Seats, NEW n \in ListNames, CheckListName(s, n) PROVE FewAreLetThrough'
  BY <1>1, <1>6 DEF CheckListName
<1>7. ASSUME NEW s \in Seats, NEW n \in ListNames, MailToList(s, n) PROVE FewAreLetThrough'
  BY <1>1, <1>7 DEF MailToList
<1>8. ASSUME NEW s \in Seats, NEW n \in ListNames, NEW b \in BOOLEAN, LookUpList(s, n, b) PROVE FewAreLetThrough'
  BY <1>1, <1>8 DEF LookUpList
<1>9. ASSUME NEW s \in Seats, CreateMailingList(s) \/ SetSubscription(s) \/ EndReview(s)
      PROVE  FewAreLetThrough'
  BY <1>1, <1>9 DEF CreateMailingList, SetSubscription, EndReview, Rest
<1>10. ASSUME NEW s \in Seats, ListMemberIDs(s) PROVE FewAreLetThrough'
  <2>1. UNCHANGED <<fortune, uncounted>> BY <1>10 DEF ListMemberIDs
  <2>2. CASE TakeUp(s, Idle) BY <1>1, <2>1, <2>2
  <2>3. CASE TakeUp(s, [op |-> "send", id |-> doing[s].id, to |-> MembersOf(doing[s].id)])
    BY <1>1, <2>1, <2>3
  <2> QED BY <1>10, <2>2, <2>3 DEF ListMemberIDs, Rest
<1>11. ASSUME NEW s \in Seats, SendListMail(s) PROVE FewAreLetThrough'
  <2>1. UNCHANGED <<fortune, uncounted>> BY <1>11 DEF SendListMail
  <2>2. CASE TakeUp(s, Idle) BY <1>1, <2>1, <2>2
  <2>3. ASSUME NEW u \in doing[s].to, TakeUp(s, [doing[s] EXCEPT !.to = @ \ {u}]) PROVE FewAreLetThrough'
    <3>1. doing[s] \in Sending BY <1>11 DEF SendListMail, CommInv, CommTypeOK, TaskOK
    <3>2. [doing[s] EXCEPT !.to = @ \ {u}].op # "submit" BY <3>1 DEF Sending
    <3> QED BY <1>1, <2>1, <2>3, <3>2
  <2> QED BY <1>11, <2>2, <2>3 DEF SendListMail, Rest
<1>12. ASSUME NEW s \in Seats, PendingFortunes(s) PROVE FewAreLetThrough' BY <1>1, <1>12 DEF PendingFortunes
<1>13. ASSUME NEW s \in Seats, NEW f \in Fortunes, NEW b \in BOOLEAN, ReviewFortune(s, f, b)
       PROVE  FewAreLetThrough'
  <2>1. doing[s] \in Reviewing BY <1>13 DEF ReviewFortune, CommInv, CommTypeOK, TaskOK
  <2>2. [doing[s] EXCEPT !.queue = @ \ {f}].op # "submit" BY <2>1 DEF Reviewing
  <2>3. \A u : Typing(u)' \subseteq Typing(u) BY <1>13, <2>2, NobodyElseTypes DEF ReviewFortune
  <2>4. \A u : AddedBy(u)' = AddedBy(u)
    <3>1. CASE fortune' = fortune BY <3>1 DEF AddedBy
    <3>2. CASE Awaits(f) /\ fortune' # fortune
      <4>1. PICK word \in {"approved", "rejected"} : fortune' = [fortune EXCEPT ![f].status = word]
        BY <1>13, <3>2 DEF ReviewFortune
      <4>2. PICK r \in FortuneRow : r = fortune[f] BY <3>2 DEF Awaits, CommInv, CommTypeOK
      <4>3. PICK q \in FortuneRow : q = [r EXCEPT !.status = word] BY DEF FortuneRow
      <4>q. q.by = r.by BY <4>3 DEF FortuneRow
      <4>4. fortune' = [fortune EXCEPT ![f] = q] BY <4>1, <4>2, <4>3
      <4>5. fortune'[f] = q /\ \A g \in Fortunes \ {f} : fortune'[g] = fortune[g]
        BY <4>4 DEF CommInv, CommTypeOK
      <4>6. ASSUME NEW u PROVE AddedBy(u)' = AddedBy(u) BY <3>2, <4>2, <4>q, <4>5 DEF AddedBy, Awaits
      <4> QED BY <4>6
    <3> QED BY <1>13, <3>1, <3>2 DEF ReviewFortune
  <2>5. uncounted' = uncounted BY <1>13 DEF ReviewFortune
  <2>6. \A u : CountedBy(u)' = CountedBy(u) BY <2>4, <2>5 DEF CountedBy
  <2>7. \A u \in Sitters \ Chiefs : IsFiniteSet(AddedBy(u)') BY <2>4, CountedIsFinite
  <2> QED BY <2>3, <2>6, <2>7, FewKeeps
<1> QED BY <1>3, <1>4, <1>5, <1>6, <1>7, <1>8, <1>9, <1>10, <1>11, <1>12, <1>13, CountStep, SubmitStep DEF CommNext

-----------------------------------------------------------------------------
\* The theorem

LEMMA CommInitInv == CommInit => CommInv
<1> SUFFICES ASSUME CommInit PROVE CommInv OBVIOUS
<1>1. CommTypeOK BY DEF CommInit, CommTypeOK, TaskOK, Busy
<1>2. Apart /\ PostersStand /\ VerdictsStand BY DEF CommInit, Apart, PostersStand, VerdictsStand, Busy
<1>3. FewAreLetThrough
  <2> SUFFICES ASSUME NEW u \in Sitters \ Chiefs
               PROVE  /\ IsFiniteSet(AddedBy(u))
                      /\ Cardinality(CountedBy(u)) + Cardinality(Typing(u))
                            <= DailyLimit + Cardinality(SeatsOf(u)) - 1
    BY DEF FewAreLetThrough
  <2>0. AddedBy(u) = {} /\ Typing(u) = {} BY DEF CommInit, AddedBy, Typing, SeatsOf, Busy
  <2>1. AddedBy(u) = {} /\ CountedBy(u) = {} /\ Typing(u) = {} BY <2>0 DEF CountedBy
  <2>2. SeatsOf(u) # {} BY DEF SeatsOf, Sitters
  <2>3. Cardinality(SeatsOf(u)) \in Nat /\ Cardinality(SeatsOf(u)) # 0
    BY <2>2, TypingIsFinite, FS_EmptySet
  <2> QED BY <2>1, <2>3, FS_EmptySet
<1> QED BY <1>1, <1>2, <1>3 DEF CommInv

\* What users and admins share stays in order: names, posts, verdicts and the
\* number of submissions.
THEOREM CommunityAlwaysOrderly == CommSpec => []CommunityIsOrderly
<1>1. CommInv /\ [CommNext]_commVars => CommInv'
  BY CommTypeStep, ApartStep, PostStep, VerdictStep, FewStep DEF CommInv
<1>2. ASSUME CommInv PROVE CommunityIsOrderly
  <2>1. NamesAreApart BY <1>2 DEF CommInv, Apart, NamesAreApart
  <2>2. PostIsFair BY <1>2 DEF CommInv, PostersStand, Stands, PostIsFair
  <2>3. OneVerdict BY <1>2 DEF CommInv, VerdictsStand, OneVerdict
  <2>4. SubmissionsAreFew
    <3> SUFFICES ASSUME NEW u \in Sitters \ Chiefs
                 PROVE  Cardinality(CountedBy(u)) <= DailyLimit + Cardinality(SeatsOf(u)) - 1
      BY DEF SubmissionsAreFew, SeatsOf
    <3>1. /\ Cardinality(CountedBy(u)) \in Nat
          /\ Cardinality(CountedBy(u)) + Cardinality(Typing(u)) <= DailyLimit + Cardinality(SeatsOf(u)) - 1
      BY <1>2, CountedIsFinite
    <3> QED BY <3>1, TypingIsFinite
  <2> QED BY <2>1, <2>2, <2>3, <2>4 DEF CommunityIsOrderly
<1> QED BY <1>1, <1>2, CommInitInv, PTL DEF CommSpec

HIDE CommAssumption

-----------------------------------------------------------------------------
\* Signing up

Lives(i, n) == pending[n] # NoRow /\ pending[n].id = i

\* How far a request has come, and that it means the row it has read.
ReqOK(c) ==
    req[c] # NoRequest =>
        /\ req[c].name \in Names
        /\ req[c].step = "limit" => /\ req[c].now \in Nat
                                    /\ req[c].now <= clock /\ clock <= req[c].now + Lag
        /\ req[c].step \in {"wrong", "delete"} => req[c].id \in 1..rowsMade
        /\ req[c].step = "wrong" => \A m \in Names : Lives(req[c].id, m) => m = req[c].name

TalliesOK ==
    /\ judged \in [1..MaxIds -> Nat]
    /\ lost \in [1..MaxIds -> Nat] /\ spared \in [1..MaxIds -> Nat]

SignTypeOK ==
    /\ clock \in Nat /\ rowsMade \in 0..MaxIds
    /\ TalliesOK
    /\ pending \in [Names -> PendingRow \cup {NoRow}]
    /\ \A n \in Names : pending[n] # NoRow => pending[n].id \in 1..rowsMade
    /\ \A m, n \in Names : pending[m] # NoRow /\ Lives(pending[m].id, n) => m = n
    /\ DOMAIN req = Clients
    /\ \A c \in Clients : ReqOK(c)

\* What is known of a stamp, and of a grant whose stamp has been pruned.
StampOK(grants, now, e) ==
    /\ e.nth \in 1..Len(grants) /\ e.at \in Nat /\ e.at <= now
    /\ grants[e.nth] <= e.at + Lag

Remembered(stamps, j) == \E e \in stamps : e.nth = j

LogOK(stamps, grants, now) ==
    /\ grants \in Seq(Nat) /\ now \in Nat
    /\ IsFiniteSet(stamps) /\ \A e \in stamps : StampOK(grants, now, e)
    /\ \A i, j \in 1..Len(grants) : i <= j => grants[i] <= grants[j]
    /\ \A j \in 1..Len(grants) :
          /\ grants[j] <= now
          /\ Remembered(stamps, j) \/ grants[j] + Window <= now + Lag
          /\ j + MaxEvents <= Len(grants) => grants[j + MaxEvents] + Lag >= grants[j] + Window

LimiterOK(ip) == LogOK(events[ip], granted[ip], clock)

LimitersOK ==
    /\ DOMAIN events = Ips /\ DOMAIN granted = Ips
    /\ \A ip \in Ips : LimiterOK(ip)

Wrong(i) == {c \in Clients : At(c, "wrong") /\ req[c].id = i}
Deleting(i) == {c \in Clients : At(c, "delete") /\ req[c].id = i}

\* A wrong code is counted, or about to be, or its count has failed; and of those
\* who make the count too high each is about to delete the row, or has failed to.
RowOK(i, n) ==
    Lives(i, n) =>
        /\ judged[i] <= pending[n].attempts + Cardinality(Wrong(i)) + lost[i]
        /\ pending[n].attempts <= maxConfirmAttempts - 1 + Cardinality(Deleting(i)) + spared[i]

Counted ==
    \A i \in 1..MaxIds :
        /\ \A n \in Names : RowOK(i, n)
        /\ judged[i] <= maxConfirmAttempts + Cardinality(Clients) - 1 + lost[i] + spared[i]
        /\ i > rowsMade => judged[i] = 0

SignInv == SignTypeOK /\ LimitersOK /\ Counted

\* As many things as numbers they are told apart by.
LEMMA CountTagged ==
    ASSUME NEW K, IsFiniteSet(K), NEW a \in Nat, NEW b \in Nat, a <= b,
           \A j \in a..b : \E e \in K : e.nth = j
    PROVE  b - a + 1 <= Cardinality(K)
<1> DEFINE f == [j \in a..b |-> CHOOSE e \in K : e.nth = j]
<1>1. \A j \in a..b : f[j] \in K /\ f[j].nth = j OBVIOUS
<1>2. f \in [a..b -> K] OBVIOUS
<1> HIDE DEF f
<1>3. f \in Injection(a..b, K) BY <1>1, <1>2 DEF Injection, IsInjective
<1>4. Cardinality(a..b) <= Cardinality(K) BY <1>3, FS_Injection
<1>5. Cardinality(a..b) = b - a + 1 BY FS_Interval
<1> QED BY <1>4, <1>5

\* Two groups of a crowd, and a bystander.
LEMMA Crowd ==
    ASSUME NEW K, IsFiniteSet(K), NEW W, NEW D, W \subseteq K, D \subseteq K, W \cap D = {}
    PROVE  /\ Cardinality(W) \in Nat /\ Cardinality(D) \in Nat /\ Cardinality(K) \in Nat
           /\ Cardinality(W) + Cardinality(D) <= Cardinality(K)
           /\ \A c \in K \ (W \cup D) : Cardinality(W) + Cardinality(D) + 1 <= Cardinality(K)
<1>1. IsFiniteSet(W) /\ IsFiniteSet(D) BY FS_Subset
<1>2. Cardinality(W) \in Nat /\ Cardinality(D) \in Nat /\ Cardinality(K) \in Nat
  BY <1>1, FS_CardinalityType
<1>3. Cardinality(W \cap D) = 0 BY FS_EmptySet
<1>4. IsFiniteSet(W \cup D) BY <1>1, FS_Union
<1>5. Cardinality(W \cup D) = Cardinality(W) + Cardinality(D) - Cardinality(W \cap D) BY <1>1, FS_Union
<1>6. Cardinality(W \cup D) = Cardinality(W) + Cardinality(D) BY <1>2, <1>3, <1>5
<1>7. W \cup D \subseteq K OBVIOUS
<1>8. Cardinality(W \cup D) <= Cardinality(K) BY <1>7, FS_Subset
<1>9. ASSUME NEW c \in K \ (W \cup D) PROVE Cardinality(W) + Cardinality(D) + 1 <= Cardinality(K)
  <2>1. Cardinality((W \cup D) \cup {c}) = Cardinality(W \cup D) + 1 BY <1>4, FS_AddElement
  <2>2. (W \cup D) \cup {c} \subseteq K BY <1>7
  <2>3. Cardinality((W \cup D) \cup {c}) <= Cardinality(K) BY <2>2, FS_Subset
  <2> QED BY <1>6, <2>1, <2>3
<1> QED BY <1>2, <1>6, <1>8, <1>9

LEMMA Longer == ASSUME NEW s \in Seq(Nat), NEW e \in Nat PROVE Append(s, e) \in Seq(Nat)
OBVIOUS

\* One more, or one less.
LEMMA OneMore ==
    ASSUME NEW S, IsFiniteSet(S), NEW c, c \notin S
    PROVE  Cardinality(S \cup {c}) = Cardinality(S) + 1 /\ Cardinality(S) \in Nat
BY FS_AddElement, FS_CardinalityType

\* A tally that stays, or goes up by one at i.
LEMMA TallyUp ==
    ASSUME NEW f \in [1..MaxIds -> Nat], NEW i \in 1..MaxIds, NEW g,
           g = f \/ g = [f EXCEPT ![i] = f[i] + 1]
    PROVE  /\ g \in [1..MaxIds -> Nat]
           /\ \A j \in 1..MaxIds : g[j] \in Nat /\ f[j] <= g[j]
           /\ \A j \in 1..MaxIds \ {i} : g[j] = f[j]
<1>1. f[i] + 1 \in Nat /\ f[i] \in Nat OBVIOUS
<1>2. CASE g = f BY <1>2
<1>3. CASE g = [f EXCEPT ![i] = f[i] + 1]
  <2>1. g[i] = f[i] + 1 /\ \A j \in 1..MaxIds \ {i} : g[j] = f[j] BY <1>3
  <2>2. g \in [1..MaxIds -> Nat] BY <1>1, <1>3
  <2> QED BY <1>1, <2>1, <2>2
<1> QED BY <1>2, <1>3

LEMMA FreshRow == ASSUME NEW k \in Nat, NEW c \in Clients PROVE [id |-> k, by |-> c, attempts |-> 0] \in PendingRow
BY DEF PendingRow

USE SignAssumption

-----------------------------------------------------------------------------
\* Requests

LEMMA GoKeeps ==
    ASSUME SignInv, NEW c \in Clients, NEW r, Go(c, r)
    PROVE  /\ DOMAIN req' = Clients /\ req'[c] = r
           /\ \A t \in Clients \ {c} : req'[t] = req[t]
BY DEF SignInv, SignTypeOK, Go

\* Rows come with new ids, and other requests see no more of them.
LEMMA ReqsStay ==
    ASSUME SignInv, clock' = clock, rowsMade' \in Nat, rowsMade <= rowsMade',
           \A m \in Names : \A i \in 1..rowsMade : Lives(i, m)' => Lives(i, m),
           NEW t \in Clients, req'[t] = req[t]
    PROVE  ReqOK(t)'
<1>1. ReqOK(t) /\ rowsMade \in Nat BY DEF SignInv, SignTypeOK
<1>2. \A i \in 1..rowsMade : i \in 1..rowsMade' BY <1>1
<1> QED BY <1>1, <1>2 DEF ReqOK

LEMMA PendingSame == UNCHANGED pending => \A i, n : Lives(i, n)' <=> Lives(i, n)
BY DEF Lives

\* A step of one request that leaves the rows alone.
LEMMA GoType ==
    ASSUME SignInv, UNCHANGED <<clock, pending, rowsMade>>, TalliesOK',
           NEW c \in Clients, NEW r, Go(c, r), ReqOK(c)'
    PROVE  SignTypeOK'
<1>1. rowsMade \in Nat BY DEF SignInv, SignTypeOK
<1>2. \A t \in Clients \ {c} : ReqOK(t)' BY <1>1, GoKeeps, PendingSame, ReqsStay
<1>3. /\ \A n \in Names : pending'[n] # NoRow => pending'[n].id \in 1..rowsMade'
      /\ \A m, n \in Names : pending'[m] # NoRow /\ Lives(pending[m].id, n)' => m = n
  BY DEF SignInv, SignTypeOK, Lives
<1> QED BY <1>2, <1>3, GoKeeps DEF SignInv, SignTypeOK

\* Rows only go, while a request goes on.
LEMMA RowsGo ==
    ASSUME SignInv, UNCHANGED <<clock, rowsMade>>, TalliesOK', NEW c \in Clients, NEW r, Go(c, r), ReqOK(c)',
           pending' \in [Names -> PendingRow \cup {NoRow}],
           \A n \in Names : pending'[n] = pending[n] \/ pending'[n] = NoRow
    PROVE  SignTypeOK'
<1>1. rowsMade \in Nat BY DEF SignInv, SignTypeOK
<1>2. \A m \in Names : \A i \in 1..rowsMade : Lives(i, m)' => Lives(i, m) BY DEF Lives
<1>3. \A t \in Clients \ {c} : ReqOK(t)' BY <1>1, <1>2, GoKeeps, ReqsStay
<1>4. /\ \A n \in Names : pending'[n] # NoRow => pending'[n].id \in 1..rowsMade'
      /\ \A m, n \in Names : pending'[m] # NoRow /\ Lives(pending[m].id, n)' => m = n
  BY DEF SignInv, SignTypeOK, Lives
<1> QED BY <1>3, <1>4, GoKeeps DEF SignInv, SignTypeOK

LEMMA WithoutRows ==
    ASSUME SignInv, NEW i
    PROVE  /\ Without(i) \in [Names -> PendingRow \cup {NoRow}]
           /\ \A n \in Names : Without(i)[n] = pending[n] \/ Without(i)[n] = NoRow
           /\ \A n \in Names : Without(i)[n] # NoRow => pending[n].id # i
BY DEF Without, SignInv, SignTypeOK

LEMMA DoneIsOK == ASSUME SignInv, NEW c \in Clients, Done(c) PROVE ReqOK(c)'
BY GoKeeps DEF Done, ReqOK

LEMMA SignTypeStep == ASSUME SignInv, [SignNext]_signVars PROVE SignTypeOK'
<1> USE DEF TalliesOK
<1>0. /\ clock \in Nat /\ rowsMade \in 0..MaxIds /\ rowsMade \in Nat /\ TalliesOK
      /\ pending \in [Names -> PendingRow \cup {NoRow}] /\ DOMAIN req = Clients
      /\ \A c \in Clients : ReqOK(c)
  BY DEF SignInv, SignTypeOK
<1>1. CASE UNCHANGED signVars
  <2>1. \A c \in Clients : ReqOK(c)' BY <1>0, <1>1, PendingSame, ReqsStay DEF signVars
  <2> QED BY <1>1, <2>1 DEF signVars, SignInv, SignTypeOK, Lives
<1>2. CASE Tick
  <2>1. ASSUME NEW c \in Clients PROVE ReqOK(c)'
    <3>1. clock' = clock + 1 /\ UNCHANGED <<pending, req, rowsMade>> BY <1>2 DEF Tick
    <3>2. req[c] # NoRequest /\ req[c].step = "limit" => clock < req[c].now + Lag BY <1>2 DEF Tick
    <3>3. ReqOK(c) BY <1>0
    <3>4. \A i, n : Lives(i, n)' <=> Lives(i, n) BY <3>1, PendingSame
    <3> QED BY <1>0, <3>1, <3>2, <3>3, <3>4 DEF ReqOK
  <2>2. clock' \in Nat /\ UNCHANGED <<pending, req, rowsMade, judged, lost, spared>> BY <1>0, <1>2 DEF Tick
  <2> QED BY <2>1, <2>2 DEF SignInv, SignTypeOK, Lives
<1>3. ASSUME NEW n \in Names, Expire(n) PROVE SignTypeOK'
  <2>1. UNCHANGED <<clock, req, rowsMade, judged, lost, spared>> /\ pending' = [pending EXCEPT ![n] = NoRow]
    BY <1>3 DEF Expire
  <2>2. \A m \in Names : \A i \in 1..rowsMade : Lives(i, m)' => Lives(i, m) BY <1>0, <2>1 DEF Lives
  <2>3. \A c \in Clients : ReqOK(c)' BY <1>0, <2>1, <2>2, ReqsStay
  <2>4. /\ pending' \in [Names -> PendingRow \cup {NoRow}]
        /\ \A m \in Names : pending'[m] # NoRow => pending'[m].id \in 1..rowsMade'
        /\ \A m, k \in Names : pending'[m] # NoRow /\ Lives(pending[m].id, k)' => m = k
    BY <1>0, <2>1 DEF SignInv, SignTypeOK, Lives
  <2>5. \A m \in Names : pending'[m] # NoRow => pending'[m] = pending[m] BY <1>0, <2>1
  <2> QED BY <2>1, <2>3, <2>4, <2>5 DEF SignInv, SignTypeOK
<1>4. ASSUME NEW c \in Clients, NEW n \in Names, ReadClock(c, n) PROVE SignTypeOK'
  <2>1. Go(c, [step |-> "limit", name |-> n, now |-> clock]) BY <1>4 DEF ReadClock, Go
  <2>2. ReqOK(c)' BY <1>0, <1>4, <2>1, GoKeeps DEF ReqOK, ReadClock
  <2> QED BY <1>0, <1>4, <2>1, <2>2, GoType DEF ReadClock
<1>5. ASSUME NEW c \in Clients, Allow(c) PROVE SignTypeOK'
  <2>1. ReqOK(c) /\ req[c] # NoRequest BY <1>0, <1>5 DEF Allow
  <2>2. UNCHANGED <<clock, pending, rowsMade, judged, lost, spared>> BY <1>5 DEF Allow
  <2>3. CASE Done(c) BY <1>0, <2>2, <2>3, DoneIsOK, GoType DEF Done
  <2>4. CASE Go(c, [step |-> "check", name |-> req[c].name])
    <3>1. ReqOK(c)' BY <2>1, <2>4, GoKeeps DEF ReqOK
    <3> QED BY <1>0, <2>2, <2>4, <3>1, GoType
  <2>5. Done(c) \/ Go(c, [step |-> "check", name |-> req[c].name]) BY <1>0, <1>5 DEF Allow, Done, Go
  <2> QED BY <2>3, <2>4, <2>5
<1>6. ASSUME NEW c \in Clients, CheckTaken(c) PROVE SignTypeOK'
  <2>1. ReqOK(c) /\ req[c] # NoRequest BY <1>0, <1>6 DEF CheckTaken, At
  <2>2. UNCHANGED <<clock, pending, rowsMade, judged, lost, spared>> BY <1>6 DEF CheckTaken
  <2>3. CASE Done(c) BY <1>0, <2>2, <2>3, DoneIsOK, GoType DEF Done
  <2>4. CASE Go(c, [step |-> "replace", name |-> req[c].name])
    <3>1. ReqOK(c)' BY <2>1, <2>4, GoKeeps DEF ReqOK
    <3> QED BY <1>0, <2>2, <2>4, <3>1, GoType
  <2> QED BY <1>6, <2>3, <2>4 DEF CheckTaken
<1>7. ASSUME NEW c \in Clients, DeletePrior(c) PROVE SignTypeOK'
  <2>1. ReqOK(c) /\ req[c] # NoRequest BY <1>0, <1>7 DEF DeletePrior, At
  <2>2. Go(c, [step |-> "insert", name |-> req[c].name]) BY <1>7 DEF DeletePrior
  <2>3. ReqOK(c)' BY <2>1, <2>2, GoKeeps DEF ReqOK
  <2>4. pending' \in [Names -> PendingRow \cup {NoRow}]
        /\ \A n \in Names : pending'[n] = pending[n] \/ pending'[n] = NoRow
    BY <1>0, <1>7 DEF DeletePrior
  <2> QED BY <1>0, <1>7, <2>2, <2>3, <2>4, RowsGo DEF DeletePrior
<1>8. ASSUME NEW c \in Clients, InsertPending(c) PROVE SignTypeOK'
  <2>1. ReqOK(c) /\ req[c] # NoRequest /\ req[c].name \in Names BY <1>0, <1>8 DEF InsertPending, At, ReqOK
  <2>2. CASE Done(c) /\ UNCHANGED <<pending, rowsMade>>
    BY <1>0, <1>8, <2>2, DoneIsOK, GoType DEF InsertPending, Done
  <2>3. CASE pending[req[c].name] = NoRow
    <3> HIDE DEF TalliesOK
    <3>1. PICK n \in Names : n = req[c].name BY <2>1
    <3>a. rowsMade + 1 \in Nat BY <1>0
    <3>2. PICK row \in PendingRow : row = [id |-> rowsMade + 1, by |-> c, attempts |-> 0]
      BY <3>a, FreshRow
    <3>3. row.id = rowsMade + 1 BY <3>2
    <3>4. /\ rowsMade' = rowsMade + 1 /\ rowsMade < MaxIds /\ pending' = [pending EXCEPT ![n] = row]
          /\ Go(c, [step |-> "mail", name |-> n]) /\ UNCHANGED <<clock, judged, lost, spared>>
      BY <1>8, <2>3, <3>1, <3>2 DEF InsertPending
    <3>5. pending'[n] = row /\ \A m \in Names \ {n} : pending'[m] = pending[m] BY <1>0, <3>4
    <3>6. \A m \in Names : pending[m] # NoRow => pending[m].id \in 1..rowsMade BY DEF SignInv, SignTypeOK
    <3>7. \A m \in Names : \A i \in 1..rowsMade : Lives(i, m)' => Lives(i, m)
      BY <1>0, <3>3, <3>5 DEF Lives
    <3>8. ReqOK(c)' BY <3>4, GoKeeps DEF ReqOK
    <3>9. \A t \in Clients \ {c} : ReqOK(t)' BY <1>0, <3>4, <3>7, GoKeeps, ReqsStay
    <3>10. \A m \in Names : pending'[m] # NoRow => pending'[m].id \in 1..rowsMade'
      BY <1>0, <3>3, <3>4, <3>5, <3>6
    <3>11. \A m, k \in Names : pending'[m] # NoRow /\ Lives(pending[m].id, k)' => m = k
      <4> SUFFICES ASSUME NEW m \in Names, NEW k \in Names, pending'[m] # NoRow, pending'[k] # NoRow,
                          pending'[k].id = pending'[m].id, m # k
                   PROVE  FALSE
        BY DEF Lives
      <4>1. CASE m = n BY <1>0, <3>3, <3>5, <3>6, <4>1
      <4>2. CASE k = n BY <1>0, <3>3, <3>5, <3>6, <4>2
      <4>3. CASE m # n /\ k # n BY <3>5, <4>3 DEF SignInv, SignTypeOK, Lives
      <4> QED BY <4>1, <4>2, <4>3
    <3>12. pending' \in [Names -> PendingRow \cup {NoRow}] /\ rowsMade' \in 0..MaxIds
      BY <1>0, <3>4
    <3> QED BY <1>0, <3>4, <3>8, <3>9, <3>10, <3>11, <3>12, GoKeeps
               DEF SignTypeOK, TalliesOK
  <2> QED BY <1>8, <2>2, <2>3 DEF InsertPending
<1>9. ASSUME NEW c \in Clients, SendConfirmation(c) PROVE SignTypeOK'
  <2>1. ReqOK(c) /\ req[c] # NoRequest BY <1>0, <1>9 DEF SendConfirmation, At
  <2>2. UNCHANGED <<clock, pending, rowsMade, judged, lost, spared>> BY <1>9 DEF SendConfirmation
  <2>3. CASE Done(c) BY <1>0, <2>2, <2>3, DoneIsOK, GoType DEF Done
  <2>4. CASE Go(c, [step |-> "undo", name |-> req[c].name])
    <3>1. ReqOK(c)' BY <2>1, <2>4, GoKeeps DEF ReqOK
    <3> QED BY <1>0, <2>2, <2>4, <3>1, GoType
  <2> QED BY <1>9, <2>3, <2>4 DEF SendConfirmation
<1>10. ASSUME NEW c \in Clients, FindOrphan(c) PROVE SignTypeOK'
  <2>1. ReqOK(c) /\ req[c] # NoRequest /\ req[c].name \in Names BY <1>0, <1>10 DEF FindOrphan, At, ReqOK
  <2>2. UNCHANGED <<clock, pending, rowsMade, judged, lost, spared>> BY <1>10 DEF FindOrphan
  <2>3. CASE Done(c) BY <1>0, <2>2, <2>3, DoneIsOK, GoType DEF Done
  <2>4. CASE pending[req[c].name] # NoRow
    <3>1. Go(c, [step |-> "delete", name |-> req[c].name, id |-> pending[req[c].name].id])
      BY <1>10, <2>4 DEF FindOrphan
    <3>2. pending[req[c].name].id \in 1..rowsMade BY <2>1, <2>4 DEF SignInv, SignTypeOK
    <3>3. ReqOK(c)' BY <2>1, <2>2, <3>1, <3>2, GoKeeps DEF ReqOK
    <3> QED BY <1>0, <2>2, <3>1, <3>3, GoType
  <2> QED BY <1>10, <2>3, <2>4 DEF FindOrphan
<1>11. ASSUME NEW c \in Clients, DeletePending(c) PROVE SignTypeOK'
  <2>a. UNCHANGED <<clock, rowsMade, judged, lost>> /\ Done(c) BY <1>11 DEF DeletePending
  <2>b. spared' = spared \/ \E i : spared' = [spared EXCEPT ![i] = @ + 1] BY <1>11 DEF DeletePending
  <2>c. spared \in [1..MaxIds -> Nat] BY <1>0 DEF TalliesOK
  <2>1. UNCHANGED <<clock, rowsMade, judged, lost>> /\ Done(c) /\ spared' \in [1..MaxIds -> Nat]
    BY <2>a, <2>b, <2>c
  <2>2. CASE pending' = Without(req[c].id) BY <1>0, <2>1, <2>2, DoneIsOK, WithoutRows, RowsGo DEF Done
  <2>3. CASE pending' = pending BY <1>0, <2>1, <2>3, DoneIsOK, GoType DEF Done
  <2> QED BY <1>11, <2>2, <2>3 DEF DeletePending
<1>12. ASSUME NEW c \in Clients, NEW n \in Names, NEW right \in BOOLEAN, ReadPending(c, n, right)
       PROVE  SignTypeOK'
  <2>1. pending[n].id \in 1..rowsMade /\ pending[n] # NoRow BY <1>12 DEF ReadPending, SignInv, SignTypeOK
  <2>2. TalliesOK' /\ UNCHANGED <<clock, pending, rowsMade>>
    <3>1. PICK i \in 1..MaxIds : i = pending[n].id BY <1>0, <2>1
    <3>2. judged' = judged \/ judged' = [judged EXCEPT ![i] = judged[i] + 1]
      BY <1>12, <3>1 DEF ReadPending
    <3>3. judged' \in [1..MaxIds -> Nat] BY <1>0, <3>2, TallyUp
    <3> QED BY <1>0, <1>12, <3>3 DEF ReadPending
  <2>3. PICK step \in {"confirm", "wrong"} : step = IF right THEN "confirm" ELSE "wrong" OBVIOUS
  <2>4. Go(c, [step |-> step, name |-> n, id |-> pending[n].id]) BY <1>12, <2>3 DEF ReadPending
  <2>5. \A m \in Names : Lives(pending[n].id, m) => m = n BY <2>1 DEF SignInv, SignTypeOK
  <2>6. ReqOK(c)'
    <3>1. PICK i \in 1..rowsMade : i = pending[n].id BY <2>1
    <3>2. req'[c] = [step |-> step, name |-> n, id |-> i] BY <2>4, <3>1, GoKeeps
    <3>3. \A m \in Names : Lives(i, m)' => m = n BY <2>2, <2>5, <3>1, PendingSame
    <3>4. i \in 1..rowsMade' BY <2>2
    <3>5. req'[c].name = n /\ req'[c].id = i /\ req'[c].step # "limit" BY <3>2
    <3>6. \A m \in Names : Lives(req[c].id, m)' => m = n BY <3>3, <3>5 DEF Lives
    <3> QED BY <3>4, <3>5, <3>6 DEF ReqOK
  <2> QED BY <2>2, <2>4, <2>6, GoType
<1>13. ASSUME NEW c \in Clients, CountAttempt(c) PROVE SignTypeOK'
  <2>1. PICK n \in Names, i \in 1..rowsMade : n = req[c].name /\ i = req[c].id
    BY <1>0, <1>13 DEF CountAttempt, At, ReqOK
  <2>2. UNCHANGED <<clock, rowsMade>> /\ TalliesOK'
    <3>1. i \in 1..MaxIds BY <1>0
    <3>2. /\ lost' = lost \/ lost' = [lost EXCEPT ![i] = lost[i] + 1]
          /\ spared' = spared \/ spared' = [spared EXCEPT ![i] = spared[i] + 1]
          /\ UNCHANGED <<clock, rowsMade, judged>>
      BY <1>13, <2>1 DEF CountAttempt
    <3>3. lost' \in [1..MaxIds -> Nat] /\ spared' \in [1..MaxIds -> Nat] BY <1>0, <3>1, <3>2, TallyUp
    <3> QED BY <1>0, <3>2, <3>3
  <2>3. CASE Done(c) \/ Go(c, [step |-> "delete", name |-> n, id |-> i])
    <3>1. ReqOK(c)'
      <4>1. CASE Done(c) BY <4>1, DoneIsOK
      <4>2. CASE Go(c, [step |-> "delete", name |-> n, id |-> i]) BY <2>1, <2>2, <4>2, GoKeeps DEF ReqOK
      <4> QED BY <2>3, <4>1, <4>2
    <3>2. CASE pending' = pending
      BY <1>0, <2>2, <2>3, <3>1, <3>2, GoType DEF Done
    <3>3. CASE Lives(i, n) /\ pending' = [pending EXCEPT ![n].attempts = pending[n].attempts + 1]
      <4>1. PICK row \in PendingRow : row = pending[n] /\ row.id = i BY <1>0, <3>3 DEF Lives
      <4>2. row.attempts + 1 \in Nat BY DEF PendingRow
      <4>3. PICK next \in PendingRow : next = [row EXCEPT !.attempts = row.attempts + 1]
        BY <4>2 DEF PendingRow
      <4>4. next.id = i BY <4>1, <4>3 DEF PendingRow
      <4>5. pending' = [pending EXCEPT ![n] = next] BY <3>3, <4>1, <4>3
      <4>6. pending'[n] = next /\ \A m \in Names \ {n} : pending'[m] = pending[m] BY <1>0, <4>5
      <4>7. \A m, k : m \in Names => (Lives(k, m)' <=> Lives(k, m)) BY <3>3, <4>4, <4>6 DEF Lives
      <4>8. \A t \in Clients \ {c} : ReqOK(t)'
        <5>1. \A t \in Clients \ {c} : req'[t] = req[t] BY <2>3, GoKeeps DEF Done
        <5> QED BY <1>0, <2>2, <4>7, <5>1, ReqsStay
      <4>9. pending' \in [Names -> PendingRow \cup {NoRow}] BY <1>0, <4>5
      <4>10. \A m \in Names : pending'[m] # NoRow => pending'[m].id \in 1..rowsMade'
        BY <1>0, <2>1, <2>2, <4>4, <4>6 DEF SignInv, SignTypeOK
      <4>11. \A m, k \in Names : pending'[m] # NoRow /\ Lives(pending[m].id, k)' => m = k
        <5> SUFFICES ASSUME NEW m \in Names, NEW k \in Names, pending'[m] # NoRow, pending'[k] # NoRow,
                            pending'[k].id = pending'[m].id
                     PROVE  m = k
          BY DEF Lives
        <5>1. PICK j : j = pending'[m].id OBVIOUS
        <5>2. Lives(j, m) /\ Lives(j, k) BY <4>7, <5>1 DEF Lives
        <5> QED BY <5>2 DEF SignInv, SignTypeOK, Lives
      <4>12. DOMAIN req' = Clients BY <2>3, GoKeeps DEF Done
      <4> QED BY <1>0, <2>2, <3>1, <4>8, <4>9, <4>10, <4>11, <4>12 DEF SignTypeOK
    <3> QED BY <1>13, <2>1, <3>2, <3>3 DEF CountAttempt, Lives
  <2> QED BY <1>13, <2>1, <2>3 DEF CountAttempt
<1>14. ASSUME NEW c \in Clients, ConfirmPending(c) PROVE SignTypeOK'
  <2>1. Done(c) /\ UNCHANGED <<clock, rowsMade, judged, lost, spared>> BY <1>14 DEF ConfirmPending
  <2>2. CASE pending' = pending BY <1>0, <2>1, <2>2, DoneIsOK, GoType DEF Done
  <2>3. CASE pending' = Without(req[c].id) BY <1>0, <2>1, <2>3, DoneIsOK, WithoutRows, RowsGo DEF Done
  <2> QED BY <1>14, <2>2, <2>3 DEF ConfirmPending
<1>15. ASSUME NEW c \in Clients, StatementFails(c) PROVE SignTypeOK'
  <2>1. Done(c) /\ UNCHANGED <<clock, pending, rowsMade, judged, lost, spared>> BY <1>15 DEF StatementFails
  <2> QED BY <1>0, <2>1, DoneIsOK, GoType DEF Done
<1> QED BY <1>1, <1>2, <1>3, <1>4, <1>5, <1>6, <1>7, <1>8, <1>9, <1>10, <1>11, <1>12, <1>13, <1>14, <1>15
        DEF SignNext

-----------------------------------------------------------------------------
\* The limiter

\* Time passes, and everything known of an address stays known.
LEMMA LogStays ==
    ASSUME NEW stamps, NEW grants, NEW before, NEW now \in Nat, LogOK(stamps, grants, before), before <= now
    PROVE  LogOK(stamps, grants, now)
<1>1. before \in Nat /\ \A j \in 1..Len(grants) : grants[j] \in Nat BY DEF LogOK
<1>2. \A e \in stamps : StampOK(grants, now, e) BY <1>1 DEF LogOK, StampOK
<1> QED BY <1>1, <1>2 DEF LogOK

\* Pruning forgets grants a window old, but for the wait of the request that
\* prunes.
LEMMA PrunedAreOld ==
    ASSUME NEW stamps, NEW grants, NEW now, LogOK(stamps, grants, now), NEW read \in Nat, read <= now
    PROVE  /\ IsFiniteSet(Kept(stamps, read)) /\ Kept(stamps, read) \subseteq stamps
           /\ \A j \in 1..Len(grants) :
                 Remembered(Kept(stamps, read), j) \/ grants[j] + Window <= now + Lag
<1>1. Kept(stamps, read) \subseteq stamps BY DEF Kept
<1>2. IsFiniteSet(Kept(stamps, read)) BY <1>1, FS_Subset DEF LogOK
<1>3. ASSUME NEW j \in 1..Len(grants), NEW e \in stamps, e.nth = j, e \notin Kept(stamps, read)
      PROVE  grants[j] + Window <= now + Lag
  <2>1. e.at \in Nat /\ grants[j] <= e.at + Lag BY <1>3 DEF LogOK, StampOK
  <2>2. e.at + Window <= read BY <1>3, <2>1 DEF Kept
  <2>3. grants[j] \in Nat /\ now \in Nat BY DEF LogOK
  <2> QED BY <2>1, <2>2, <2>3
<1>4. ASSUME NEW j \in 1..Len(grants)
      PROVE  Remembered(Kept(stamps, read), j) \/ grants[j] + Window <= now + Lag
  BY <1>3 DEF LogOK, Remembered
<1> QED BY <1>1, <1>2, <1>4

\* A refusal: the stamps are pruned, and nothing is granted.
LEMMA RefusalKeeps ==
    ASSUME NEW stamps, NEW grants, NEW now, LogOK(stamps, grants, now), NEW read \in Nat, read <= now
    PROVE  LogOK(Kept(stamps, read), grants, now)
<1>1. PICK kept : kept = Kept(stamps, read) OBVIOUS
<1>2. IsFiniteSet(kept) /\ \A e \in kept : StampOK(grants, now, e) BY <1>1, PrunedAreOld DEF LogOK
<1>3. \A j \in 1..Len(grants) : Remembered(kept, j) \/ grants[j] + Window <= now + Lag
  BY <1>1, PrunedAreOld
<1>4. LogOK(kept, grants, now) BY <1>2, <1>3 DEF LogOK
<1> QED BY <1>1, <1>4

\* A grant: fewer than MaxEvents stamps were kept, so one of the last
\* MaxEvents grants has been pruned.
LEMMA GrantKeeps ==
    ASSUME NEW stamps, NEW grants, NEW now, LogOK(stamps, grants, now), NEW read \in Nat,
           read <= now, now <= read + Lag, Cardinality(Kept(stamps, read)) < MaxEvents,
           NEW stamp, stamp.nth = Len(grants) + 1, stamp.at = read
    PROVE  LogOK(Kept(stamps, read) \cup {stamp}, Append(grants, now), now)
<1>1. PICK kept : kept = Kept(stamps, read) OBVIOUS
<1>2. /\ IsFiniteSet(kept) /\ kept \subseteq stamps /\ Cardinality(kept) < MaxEvents
      /\ \A j \in 1..Len(grants) : Remembered(kept, j) \/ grants[j] + Window <= now + Lag
  BY <1>1, PrunedAreOld
<1>3. PICK n \in Nat : n = Len(grants) BY DEF LogOK
<1>0. grants \in Seq(Nat) /\ now \in Nat BY DEF LogOK
<1>4. PICK more \in Seq(Nat) : more = Append(grants, now) BY <1>0, Longer
<1>5. Len(more) = n + 1 /\ more[n + 1] = now /\ \A i \in 1..n : more[i] = grants[i]
  BY <1>3, <1>4 DEF LogOK
<1>6. now \in Nat /\ \A i \in 1..n : grants[i] \in Nat /\ grants[i] <= now BY <1>3 DEF LogOK
<1>7. PICK all : all = kept \cup {stamp} OBVIOUS
<1>8. IsFiniteSet(all) BY <1>2, <1>7, FS_AddElement
<1>9. ASSUME NEW e \in all PROVE StampOK(more, now, e)
  <2>1. CASE e \in kept
    <3>1. StampOK(grants, now, e) BY <1>2, <2>1 DEF LogOK
    <3>2. e.nth \in 1..n BY <1>3, <3>1 DEF StampOK
    <3>3. e.nth \in 1..(n + 1) /\ more[e.nth] = grants[e.nth] BY <1>5, <3>2
    <3> QED BY <1>5, <3>1, <3>3 DEF StampOK
  <2>2. CASE e = stamp BY <1>3, <1>5, <1>6, <2>2 DEF StampOK
  <2> QED BY <1>7, <2>1, <2>2
<1>10. ASSUME NEW i \in 1..(n + 1), NEW j \in 1..(n + 1), i <= j PROVE more[i] <= more[j]
  <2>1. CASE j = n + 1 /\ i \in 1..n
    <3>1. more[j] = now /\ more[i] = grants[i] /\ grants[i] <= now BY <1>5, <1>6, <2>1
    <3> QED BY <3>1
  <2>2. CASE j = n + 1 /\ i = n + 1 BY <1>5, <1>6, <2>2
  <2>3. CASE j \in 1..n
    <3>1. i \in 1..n BY <1>10, <2>3
    <3>2. grants[i] <= grants[j] BY <1>3, <1>10, <2>3, <3>1 DEF LogOK
    <3> QED BY <1>5, <2>3, <3>1, <3>2
  <2> QED BY <2>1, <2>2, <2>3
<1>11. ASSUME NEW j \in 1..(n + 1) PROVE more[j] <= now /\ (Remembered(all, j) \/ more[j] + Window <= now + Lag)
  <2>1. CASE j = n + 1 BY <1>3, <1>5, <1>6, <1>7, <2>1 DEF Remembered
  <2>2. CASE j \in 1..n
    <3>1. Remembered(kept, j) => Remembered(all, j) BY <1>7 DEF Remembered
    <3> QED BY <1>2, <1>3, <1>5, <1>6, <2>2, <3>1
  <2> QED BY <2>1, <2>2
<1>12. ASSUME NEW j \in 1..(n + 1), j + MaxEvents <= n + 1
       PROVE  more[j + MaxEvents] + Lag >= more[j] + Window
  <2>1. j \in 1..n BY <1>12
  <2>2. CASE j + MaxEvents <= n
    <3>1. j + MaxEvents \in 1..n BY <2>1, <2>2
    <3>2. grants[j + MaxEvents] + Lag >= grants[j] + Window BY <1>3, <2>1, <2>2 DEF LogOK
    <3> QED BY <1>5, <2>1, <3>1, <3>2
  <2>3. CASE j + MaxEvents = n + 1
    <3>1. PICK k \in j..n : ~Remembered(kept, k)
      <4>1. n - j + 1 = MaxEvents BY <2>1, <2>3
      <4>2. Cardinality(kept) \in Nat BY <1>2, FS_CardinalityType
      <4>3. SUFFICES ASSUME \A k \in j..n : Remembered(kept, k) PROVE FALSE OBVIOUS
      <4>4. \A k \in j..n : \E e \in kept : e.nth = k BY <4>3 DEF Remembered
      <4>5. n - j + 1 <= Cardinality(kept) BY <1>2, <2>1, <4>4, CountTagged
      <4> QED BY <1>2, <4>1, <4>2, <4>5
    <3>2. k \in 1..n /\ j <= k BY <2>1, <3>1
    <3>3. grants[k] + Window <= now + Lag BY <1>2, <1>3, <3>1, <3>2
    <3>4. grants[j] <= grants[k] BY <1>3, <2>1, <3>2 DEF LogOK
    <3>5. grants[j] \in Nat /\ grants[k] \in Nat BY <1>6, <2>1, <3>2
    <3>6. grants[j] + Window <= now + Lag BY <1>6, <3>3, <3>4, <3>5
    <3> QED BY <1>5, <1>6, <2>1, <2>3, <3>6
  <2> QED BY <1>12, <2>1, <2>2, <2>3
<1>13. LogOK(all, more, now) BY <1>5, <1>6, <1>8, <1>9, <1>10, <1>11, <1>12 DEF LogOK
<1> QED BY <1>1, <1>4, <1>7, <1>13

LEMMA LimiterStep == ASSUME SignInv, [SignNext]_signVars PROVE LimitersOK'
<1>0. clock \in Nat /\ DOMAIN events = Ips /\ DOMAIN granted = Ips /\ \A ip \in Ips : LimiterOK(ip)
  BY DEF SignInv, SignTypeOK, LimitersOK
<1>1. ASSUME UNCHANGED <<events, granted>>, clock' \in Nat, clock <= clock' PROVE LimitersOK'
  <2>1. ASSUME NEW ip \in Ips PROVE LimiterOK(ip)'
    <3>1. LogOK(events[ip], granted[ip], clock') BY <1>0, <1>1, LogStays DEF LimiterOK
    <3> QED BY <1>1, <3>1 DEF LimiterOK
  <2> QED BY <1>0, <1>1, <2>1 DEF LimitersOK
<1>2. ASSUME UNCHANGED <<events, granted, clock>> PROVE LimitersOK' BY <1>0, <1>1, <1>2
<1>3. CASE UNCHANGED signVars BY <1>2, <1>3 DEF signVars
<1>4. CASE Tick BY <1>0, <1>1, <1>4 DEF Tick
<1>5. ASSUME NEW c \in Clients, Allow(c) PROVE LimitersOK'
  <2>1. PICK ip \in Ips : ip = IpOf[c] BY DEF Ips
  <2>2. PICK now \in Nat : now = req[c].now /\ now <= clock /\ clock <= now + Lag
    BY <1>5 DEF Allow, SignInv, SignTypeOK, ReqOK
  <2>3. clock' = clock BY <1>5 DEF Allow
  <2>4. CASE ~(Cardinality(Kept(events[ip], now)) < MaxEvents)
    <3>1. events' = [events EXCEPT ![ip] = Kept(events[ip], now)] /\ granted' = granted
      BY <1>5, <2>1, <2>2, <2>4 DEF Allow
    <3>2. LimiterOK(ip)'
      <4>1. LogOK(Kept(events[ip], now), granted[ip], clock) BY <1>0, <2>2, RefusalKeeps DEF LimiterOK
      <4>2. events'[ip] = Kept(events[ip], now) BY <1>0, <3>1
      <4> QED BY <2>3, <3>1, <4>1, <4>2 DEF LimiterOK
    <3>3. \A other \in Ips \ {ip} : LimiterOK(other)' BY <1>0, <2>3, <3>1 DEF LimiterOK
    <3> QED BY <1>0, <3>1, <3>2, <3>3 DEF LimitersOK
  <2>5. CASE Cardinality(Kept(events[ip], now)) < MaxEvents
    <3>1. PICK stamp : stamp = [nth |-> Len(granted[ip]) + 1, at |-> now] OBVIOUS
    <3>2. stamp.nth = Len(granted[ip]) + 1 /\ stamp.at = now BY <3>1
    <3>3. /\ events' = [events EXCEPT ![ip] = Kept(events[ip], now) \cup {stamp}]
          /\ granted' = [granted EXCEPT ![ip] = Append(granted[ip], clock)]
      BY <1>5, <2>1, <2>2, <2>5, <3>1 DEF Allow
    <3>4. events'[ip] = Kept(events[ip], now) \cup {stamp} /\ granted'[ip] = Append(granted[ip], clock)
      BY <1>0, <3>3
    <3>5. LimiterOK(ip)'
      <4>1. LogOK(events[ip], granted[ip], clock) BY <1>0 DEF LimiterOK
      <4>2. LogOK(Kept(events[ip], now) \cup {stamp}, Append(granted[ip], clock), clock)
        BY <2>2, <2>5, <3>2, <4>1, GrantKeeps
      <4> QED BY <2>3, <3>4, <4>2 DEF LimiterOK
    <3>6. \A other \in Ips \ {ip} : LimiterOK(other)' BY <1>0, <2>3, <3>3 DEF LimiterOK
    <3> QED BY <1>0, <3>3, <3>5, <3>6 DEF LimitersOK
  <2> QED BY <2>4, <2>5
<1>6. ASSUME NEW n \in Names, Expire(n) PROVE LimitersOK' BY <1>2, <1>6 DEF Expire
<1>7. ASSUME NEW c \in Clients, NEW n \in Names, NEW right \in BOOLEAN,
             ReadClock(c, n) \/ ReadPending(c, n, right)
      PROVE  LimitersOK'
  BY <1>2, <1>7 DEF ReadClock, ReadPending
<1>8. ASSUME NEW c \in Clients,
             \/ CheckTaken(c) \/ DeletePrior(c) \/ InsertPending(c) \/ SendConfirmation(c)
             \/ FindOrphan(c) \/ DeletePending(c) \/ CountAttempt(c) \/ ConfirmPending(c)
             \/ StatementFails(c)
      PROVE  LimitersOK'
  <2>1. UNCHANGED <<events, granted, clock>>
    BY <1>8 DEF CheckTaken, DeletePrior, InsertPending, SendConfirmation, FindOrphan, DeletePending,
                CountAttempt, ConfirmPending, StatementFails
  <2> QED BY <1>2, <2>1
<1> QED BY <1>3, <1>4, <1>5, <1>6, <1>7, <1>8 DEF SignNext

-----------------------------------------------------------------------------
\* Wrong codes

LEMMA CrowdsOf ==
    ASSUME NEW i
    PROVE  /\ Wrong(i) \subseteq Clients /\ Deleting(i) \subseteq Clients /\ Wrong(i) \cap Deleting(i) = {}
           /\ IsFiniteSet(Wrong(i)) /\ IsFiniteSet(Deleting(i))
           /\ Cardinality(Wrong(i)) \in Nat /\ Cardinality(Deleting(i)) \in Nat
<1>1. Wrong(i) \subseteq Clients /\ Deleting(i) \subseteq Clients /\ Wrong(i) \cap Deleting(i) = {}
  BY DEF Wrong, Deleting, At
<1>2. IsFiniteSet(Wrong(i)) /\ IsFiniteSet(Deleting(i)) BY <1>1, FS_Subset
<1> QED BY <1>1, <1>2, FS_CardinalityType

\* What has failed about a row, in a step that fails nothing about it.
SlipsStay(i) == lost'[i] = lost[i] /\ spared'[i] = spared[i]

LEMMA SlipsAreNumbers == ASSUME SignInv, NEW i \in 1..MaxIds PROVE lost[i] \in Nat /\ spared[i] \in Nat
BY DEF SignInv, SignTypeOK, TalliesOK

\* A row that stays as it is, with as many requests about it.
LEMMA RowKeeps ==
    ASSUME SignInv, NEW i \in 1..MaxIds, NEW n \in Names, judged'[i] = judged[i], SlipsStay(i),
           Lives(i, n)' => /\ Lives(i, n) /\ pending'[n].attempts = pending[n].attempts
                           /\ Wrong(i) \subseteq Wrong(i)' /\ Deleting(i) \subseteq Deleting(i)'
    PROVE  RowOK(i, n)'
<1> SUFFICES ASSUME Lives(i, n)' PROVE RowOK(i, n)' BY DEF RowOK
<1>1. Lives(i, n)' OBVIOUS
<1>2. RowOK(i, n) BY DEF SignInv, Counted
<1>3. IsFiniteSet(Wrong(i)') /\ IsFiniteSet(Deleting(i)')
  <2>1. Wrong(i)' \subseteq Clients /\ Deleting(i)' \subseteq Clients BY DEF Wrong, Deleting
  <2> QED BY <2>1, FS_Subset
<1>4. Cardinality(Wrong(i)) <= Cardinality(Wrong(i)') /\ Cardinality(Deleting(i)) <= Cardinality(Deleting(i)')
  BY <1>1, <1>3, FS_Subset
<1>5. Cardinality(Wrong(i)') \in Nat /\ Cardinality(Deleting(i)') \in Nat BY <1>3, FS_CardinalityType
<1>6. judged[i] \in Nat /\ pending[n].attempts \in Nat
  BY <1>1 DEF SignInv, SignTypeOK, TalliesOK, Lives, PendingRow
<1> QED BY <1>1, <1>2, <1>4, <1>5, <1>6, CrowdsOf, SlipsAreNumbers DEF RowOK, SlipsStay

\* A step that judges no code.
LEMMA CountedKeeps ==
    ASSUME SignInv, judged' = judged, rowsMade' \in Nat, rowsMade <= rowsMade',
           \A i \in 1..MaxIds : lost'[i] \in Nat /\ lost[i] <= lost'[i],
           \A i \in 1..MaxIds : spared'[i] \in Nat /\ spared[i] <= spared'[i],
           \A i \in 1..MaxIds, n \in Names : RowOK(i, n)'
    PROVE  Counted'
<1>1. \A i \in 1..MaxIds : i > rowsMade' => judged[i] = 0
  BY DEF SignInv, SignTypeOK, Counted
<1>2. ASSUME NEW i \in 1..MaxIds
      PROVE  judged[i] <= maxConfirmAttempts + Cardinality(Clients) - 1 + lost'[i] + spared'[i]
  <2>1. judged[i] <= maxConfirmAttempts + Cardinality(Clients) - 1 + lost[i] + spared[i] /\ judged[i] \in Nat
    BY DEF SignInv, SignTypeOK, TalliesOK, Counted
  <2>2. Cardinality(Clients) \in Nat BY FS_CardinalityType
  <2> QED BY <2>1, <2>2, SlipsAreNumbers
<1> QED BY <1>1, <1>2 DEF Counted

\* A request without a wrong code goes on.
LEMMA OthersWait ==
    ASSUME SignInv, NEW c \in Clients, NEW r, Go(c, r), req[c] = NoRequest \/ req[c].step \notin {"wrong", "delete"}
    PROVE  \A i : Wrong(i) \subseteq Wrong(i)' /\ Deleting(i) \subseteq Deleting(i)'
BY GoKeeps DEF Wrong, Deleting, At

LEMMA NobodyMoves == UNCHANGED req => \A i : Wrong(i)' = Wrong(i) /\ Deleting(i)' = Deleting(i)
BY DEF Wrong, Deleting, At

LEMMA RowsStay ==
    ASSUME SignInv, UNCHANGED <<judged, rowsMade, lost, spared>>,
           \A n \in Names : pending'[n] = pending[n] \/ pending'[n] = NoRow,
           \A i : Wrong(i) \subseteq Wrong(i)' /\ Deleting(i) \subseteq Deleting(i)'
    PROVE  Counted'
<1>1. \A i \in 1..MaxIds, n \in Names : RowOK(i, n)'
  <2> SUFFICES ASSUME NEW i \in 1..MaxIds, NEW n \in Names PROVE RowOK(i, n)' OBVIOUS
  <2>1. Lives(i, n)' => Lives(i, n) /\ pending'[n].attempts = pending[n].attempts BY DEF Lives
  <2> QED BY <2>1, RowKeeps DEF SlipsStay
<1>2. rowsMade \in Nat BY DEF SignInv, SignTypeOK
<1> QED BY <1>1, <1>2, CountedKeeps, SlipsAreNumbers

LEMMA InsertCounts == ASSUME SignInv, NEW c \in Clients, InsertPending(c) PROVE Counted'
<1>1. req[c] # NoRequest /\ req[c].step = "insert" BY DEF InsertPending, At
<1>2. CASE Done(c) /\ UNCHANGED <<pending, rowsMade>>
  <2>1. Go(c, NoRequest) BY <1>2 DEF Done
  <2>2. \A i : Wrong(i) \subseteq Wrong(i)' /\ Deleting(i) \subseteq Deleting(i)' BY <1>1, <2>1, OthersWait
  <2> QED BY <1>2, <2>2, RowsStay DEF InsertPending
<1>3. CASE pending[req[c].name] = NoRow
  <2>0. rowsMade \in Nat /\ pending \in [Names -> PendingRow \cup {NoRow}] BY DEF SignInv, SignTypeOK
  <2>1. PICK n \in Names : n = req[c].name BY <1>1 DEF SignInv, SignTypeOK, ReqOK
  <2>a. rowsMade + 1 \in Nat BY <2>0
  <2>2. PICK row \in PendingRow : row = [id |-> rowsMade + 1, by |-> c, attempts |-> 0] BY <2>a, FreshRow
  <2>3. row.id = rowsMade + 1 /\ row.attempts = 0 BY <2>2
  <2>4. /\ rowsMade' = rowsMade + 1 /\ pending' = [pending EXCEPT ![n] = row]
        /\ UNCHANGED <<judged, lost, spared>>
        /\ Go(c, [step |-> "mail", name |-> n])
    BY <1>3, <2>1, <2>2 DEF InsertPending
  <2>5. pending'[n] = row /\ \A m \in Names \ {n} : pending'[m] = pending[m] BY <2>0, <2>4
  <2>6. \A i : Wrong(i) \subseteq Wrong(i)' /\ Deleting(i) \subseteq Deleting(i)' BY <1>1, <2>4, OthersWait
  <2>7. ASSUME NEW i \in 1..MaxIds, NEW m \in Names PROVE RowOK(i, m)'
    <3>1. CASE m = n /\ Lives(i, m)'
      <4>1. i = rowsMade + 1 BY <2>3, <2>5, <3>1 DEF Lives
      <4>2. judged[i] = 0 BY <2>0, <4>1 DEF SignInv, Counted
      <4>3. Cardinality(Wrong(i)') \in Nat /\ Cardinality(Deleting(i)') \in Nat
        <5>1. Wrong(i)' \subseteq Clients /\ Deleting(i)' \subseteq Clients BY DEF Wrong, Deleting
        <5> QED BY <5>1, FS_Subset, FS_CardinalityType
      <4>4. pending'[m].attempts = 0 /\ judged'[i] = 0 BY <2>3, <2>4, <2>5, <3>1, <4>2
      <4> QED BY <2>4, <4>3, <4>4, SlipsAreNumbers DEF RowOK
    <3>2. CASE m # n BY <2>4, <2>5, <2>6, <3>2, RowKeeps DEF Lives, SlipsStay
    <3>3. CASE ~Lives(i, m)' BY <3>3 DEF RowOK
    <3> QED BY <3>1, <3>2, <3>3
  <2> QED BY <2>0, <2>4, <2>7, CountedKeeps, SlipsAreNumbers
<1> QED BY <1>2, <1>3 DEF InsertPending

\* A wrong code is compared: the request joins those about to count theirs.
LEMMA ReadCounts ==
    ASSUME SignInv, NEW c \in Clients, NEW n \in Names, NEW right \in BOOLEAN, ReadPending(c, n, right)
    PROVE  Counted'
<1>1. req[c] = NoRequest /\ UNCHANGED <<pending, rowsMade, lost, spared>> /\ pending[n] # NoRow BY DEF ReadPending
<1>2. PICK step \in {"confirm", "wrong"} : step = IF right THEN "confirm" ELSE "wrong" OBVIOUS
<1>3. PICK id \in 1..rowsMade : id = pending[n].id BY <1>1 DEF SignInv, SignTypeOK
<1>4. Go(c, [step |-> step, name |-> n, id |-> id]) BY <1>2, <1>3 DEF ReadPending
<1>5. \A i : Wrong(i) \subseteq Wrong(i)' /\ Deleting(i) \subseteq Deleting(i)' BY <1>1, <1>4, OthersWait
<1>6. CASE right
  <2>1. judged' = judged BY <1>6 DEF ReadPending
  <2> QED BY <1>1, <1>5, <2>1, RowsStay
<1>7. CASE ~right
  <2>0. rowsMade \in 0..MaxIds /\ judged \in [1..MaxIds -> Nat] /\ rowsMade \in Nat
        /\ pending \in [Names -> PendingRow \cup {NoRow}]
    BY DEF SignInv, SignTypeOK, TalliesOK
  <2>1. id \in 1..MaxIds BY <2>0
  <2>2. judged' = [judged EXCEPT ![id] = judged[id] + 1] BY <1>3, <1>7 DEF ReadPending
  <2>3. judged'[id] = judged[id] + 1 /\ \A i \in 1..MaxIds \ {id} : judged'[i] = judged[i] BY <2>0, <2>1, <2>2
  <2>4. Lives(id, n) /\ judged[id] \in Nat /\ pending[n].attempts \in Nat
    BY <1>1, <1>3, <2>0, <2>1 DEF Lives, PendingRow
  <2>5. RowOK(id, n) BY <2>1 DEF SignInv, Counted
  <2>6. c \notin Wrong(id) /\ c \notin Deleting(id) BY <1>1 DEF Wrong, Deleting, At
  <2>7. Cardinality(Wrong(id)) + Cardinality(Deleting(id)) + 1 <= Cardinality(Clients)
        /\ Cardinality(Clients) \in Nat
    BY <2>6, CrowdsOf, Crowd
  <2>8. judged'[id] <= maxConfirmAttempts + Cardinality(Clients) - 1 + lost[id] + spared[id]
    BY <2>1, <2>3, <2>4, <2>5, <2>7, CrowdsOf, SlipsAreNumbers DEF RowOK
  <2>9. ASSUME NEW i \in 1..MaxIds, NEW m \in Names PROVE RowOK(i, m)'
    <3>1. CASE i # id BY <1>1, <1>5, <2>3, <3>1, RowKeeps, PendingSame DEF SlipsStay
    <3>2. CASE i = id /\ ~Lives(i, m) BY <1>1, <3>2, PendingSame DEF RowOK
    <3>3. CASE i = id /\ Lives(i, m)
      <4>1. RowOK(id, m) BY <2>1 DEF SignInv, Counted
      <4>2. req'[c].step = "wrong" /\ req'[c].id = id /\ req'[c] # NoRequest
        <5>1. req'[c] = [step |-> "wrong", name |-> n, id |-> id] BY <1>2, <1>4, <1>7, GoKeeps
        <5>2. [step |-> "wrong", name |-> n, id |-> id] \in Guess BY <1>3, <2>0 DEF Guess
        <5> QED BY <5>1, <5>2
      <4>3. Wrong(id) \cup {c} \subseteq Wrong(id)' BY <1>5, <4>2 DEF Wrong, At
      <4>4. IsFiniteSet(Wrong(id)') /\ IsFiniteSet(Deleting(id)')
        <5>1. Wrong(id)' \subseteq Clients /\ Deleting(id)' \subseteq Clients BY DEF Wrong, Deleting
        <5> QED BY <5>1, FS_Subset
      <4>5. Cardinality(Wrong(id)) + 1 <= Cardinality(Wrong(id)')
        <5>1. Cardinality(Wrong(id) \cup {c}) <= Cardinality(Wrong(id)') BY <4>3, <4>4, FS_Subset
        <5> QED BY <2>6, <5>1, CrowdsOf, OneMore
      <4>6. Cardinality(Deleting(id)) <= Cardinality(Deleting(id)') BY <1>5, <4>4, FS_Subset
      <4>7. Cardinality(Wrong(id)') \in Nat /\ Cardinality(Deleting(id)') \in Nat BY <4>4, FS_CardinalityType
      <4>8. pending[m].attempts \in Nat /\ pending'[m] = pending[m] BY <1>1, <2>0, <3>3 DEF Lives, PendingRow
      <4>9. Lives(id, m) BY <3>3
      <4> QED BY <1>1, <2>1, <2>3, <2>4, <3>3, <4>1, <4>5, <4>6, <4>7, <4>8, <4>9, CrowdsOf, SlipsAreNumbers DEF RowOK
    <3> QED BY <3>1, <3>2, <3>3
  <2>10. ASSUME NEW i \in 1..MaxIds, i # id
         PROVE  /\ judged'[i] <= maxConfirmAttempts + Cardinality(Clients) - 1 + lost[i] + spared[i]
                /\ i > rowsMade => judged'[i] = 0
    BY <2>3, <2>10 DEF SignInv, Counted
  <2> QED BY <1>1, <2>0, <2>8, <2>9, <2>10 DEF Counted
<1> QED BY <1>6, <1>7

\* A wrong code is counted; the one that makes the count too high deletes.
LEMMA AttemptCounts == ASSUME SignInv, NEW c \in Clients, CountAttempt(c) PROVE Counted'
<1>0. rowsMade \in Nat /\ rowsMade \in 0..MaxIds /\ judged \in [1..MaxIds -> Nat]
      /\ pending \in [Names -> PendingRow \cup {NoRow}]
  BY DEF SignInv, SignTypeOK, TalliesOK
<1>1. UNCHANGED <<rowsMade, judged>> /\ req[c] # NoRequest /\ req[c].step = "wrong" /\ ReqOK(c)
  BY DEF CountAttempt, At, SignInv, SignTypeOK
<1>2. PICK n \in Names, id \in 1..rowsMade : n = req[c].name /\ id = req[c].id BY <1>1 DEF ReqOK
<1>3. \A m \in Names : Lives(id, m) => m = n BY <1>1, <1>2 DEF ReqOK
<1>4. PICK r : /\ Go(c, r)
               /\ r = NoRequest \/ r = [step |-> "delete", name |-> n, id |-> id]
  BY <1>2 DEF CountAttempt, Done
<1>a. /\ \A i \in 1..MaxIds \ {id} : SlipsStay(i)
      /\ \A i \in 1..MaxIds : lost'[i] \in Nat /\ lost[i] <= lost'[i]
      /\ \A i \in 1..MaxIds : spared'[i] \in Nat /\ spared[i] <= spared'[i]
  <2>1. id \in 1..MaxIds /\ lost \in [1..MaxIds -> Nat] /\ spared \in [1..MaxIds -> Nat]
    BY <1>0 DEF SignInv, SignTypeOK, TalliesOK
  <2>2. /\ lost' = lost \/ lost' = [lost EXCEPT ![id] = lost[id] + 1]
        /\ spared' = spared \/ spared' = [spared EXCEPT ![id] = spared[id] + 1]
    BY <1>2 DEF CountAttempt
  <2>3. /\ \A i \in 1..MaxIds \ {id} : lost'[i] = lost[i]
        /\ \A i \in 1..MaxIds : lost'[i] \in Nat /\ lost[i] <= lost'[i]
    BY <2>1, <2>2, TallyUp
  <2>4. /\ \A i \in 1..MaxIds \ {id} : spared'[i] = spared[i]
        /\ \A i \in 1..MaxIds : spared'[i] \in Nat /\ spared[i] <= spared'[i]
    BY <2>1, <2>2, TallyUp
  <2> QED BY <2>3, <2>4 DEF SlipsStay
<1>5. ASSUME NEW i, i # id PROVE Wrong(i) \subseteq Wrong(i)' /\ Deleting(i) \subseteq Deleting(i)'
  BY <1>1, <1>2, <1>4, <1>5, GoKeeps DEF Wrong, Deleting, At
<1>6. Deleting(id) \subseteq Deleting(id)' BY <1>1, <1>4, GoKeeps DEF Deleting, At
<1>7. c \in Wrong(id) /\ c \notin Deleting(id) /\ Wrong(id) \ {c} \subseteq Wrong(id)'
  BY <1>1, <1>2, <1>4, GoKeeps DEF Wrong, Deleting, At
<1>b. id \in 1..MaxIds /\ judged[id] \in Nat BY <1>0
<1>c. /\ IsFiniteSet(Wrong(id)') /\ IsFiniteSet(Deleting(id)')
      /\ Cardinality(Wrong(id)') \in Nat /\ Cardinality(Deleting(id)') \in Nat
  <2>1. Wrong(id)' \subseteq Clients /\ Deleting(id)' \subseteq Clients BY DEF Wrong, Deleting
  <2> QED BY <2>1, FS_Subset, FS_CardinalityType
<1>d. Cardinality(Wrong(id)) <= Cardinality(Wrong(id)') + 1
  <2>1. IsFiniteSet(Wrong(id) \ {c}) /\ c \notin Wrong(id) \ {c} BY CrowdsOf, FS_Subset
  <2>2. (Wrong(id) \ {c}) \cup {c} = Wrong(id) BY <1>7
  <2>3. Cardinality(Wrong(id)) = Cardinality(Wrong(id) \ {c}) + 1 BY <2>1, <2>2, OneMore
  <2>4. Cardinality(Wrong(id) \ {c}) <= Cardinality(Wrong(id)') BY <1>7, <1>c, FS_Subset
  <2>5. Cardinality(Wrong(id) \ {c}) \in Nat BY <2>1, OneMore
  <2> QED BY <1>c, <2>3, <2>4, <2>5
<1>e. Cardinality(Deleting(id)) <= Cardinality(Deleting(id)') BY <1>6, <1>c, FS_Subset
<1>8. CASE ~Lives(id, n)
  <2>1. pending' = pending BY <1>2, <1>8 DEF CountAttempt, Lives
  <2>2. \A m \in Names : ~Lives(id, m)' BY <1>3, <1>8, <2>1, PendingSame
  <2>3. ASSUME NEW i \in 1..MaxIds, NEW m \in Names PROVE RowOK(i, m)'
    <3>1. CASE i = id BY <2>2, <3>1 DEF RowOK
    <3>2. CASE i # id BY <1>1, <1>a, <1>5, <2>1, <3>2, RowKeeps, PendingSame
    <3> QED BY <3>1, <3>2
  <2> QED BY <1>0, <1>1, <1>a, <2>3, CountedKeeps
<1>9. CASE Lives(id, n)
  <2>1. PICK row \in PendingRow : row = pending[n] /\ row.id = id BY <1>0, <1>9 DEF Lives
  <2>2. row.attempts + 1 \in Nat /\ row.attempts \in Nat BY DEF PendingRow
  <2>3. PICK next \in PendingRow : next = [row EXCEPT !.attempts = row.attempts + 1] BY <2>2 DEF PendingRow
  <2>4. next.id = id /\ next.attempts = row.attempts + 1 BY <2>1, <2>3 DEF PendingRow
  <2>5. /\ judged[id] <= row.attempts + Cardinality(Wrong(id)) + lost[id]
        /\ row.attempts <= maxConfirmAttempts - 1 + Cardinality(Deleting(id)) + spared[id]
    BY <1>9, <1>b, <2>1 DEF SignInv, Counted, RowOK
  <2>6. \/ pending' = pending /\ lost'[id] = lost[id] + 1 /\ spared'[id] = spared[id]
        \/ /\ pending' = [pending EXCEPT ![n] = next] /\ lost'[id] = lost[id]
           /\ \/ /\ spared'[id] = spared[id]
                 /\ TooMany(row.attempts + 1) => r = [step |-> "delete", name |-> n, id |-> id]
              \/ spared'[id] = spared[id] + 1
    <3>1. \/ pending' = pending /\ lost' = [lost EXCEPT ![id] = lost[id] + 1] /\ spared' = spared
          \/ /\ pending' = [pending EXCEPT ![n].attempts = pending[n].attempts + 1] /\ lost' = lost
             /\ \/ /\ spared' = spared
                   /\ TooMany(row.attempts + 1) => Go(c, [step |-> "delete", name |-> n, id |-> id])
                \/ spared' = [spared EXCEPT ![id] = spared[id] + 1]
      BY <1>2, <1>9, <2>1 DEF CountAttempt, Lives
    <3>2. lost \in [1..MaxIds -> Nat] /\ spared \in [1..MaxIds -> Nat]
      BY DEF SignInv, SignTypeOK, TalliesOK
    <3>3. Go(c, [step |-> "delete", name |-> n, id |-> id]) => r = [step |-> "delete", name |-> n, id |-> id]
      BY <1>4, GoKeeps
    <3> QED BY <1>b, <2>1, <2>3, <3>1, <3>2, <3>3
  <2>7. CASE pending' = pending /\ lost'[id] = lost[id] + 1 /\ spared'[id] = spared[id]
    <3>1. RowOK(id, n)'
      <4>1. judged'[id] <= row.attempts + Cardinality(Wrong(id)') + lost'[id]
        BY <1>1, <1>b, <1>c, <1>d, <2>2, <2>5, <2>7, CrowdsOf, SlipsAreNumbers
      <4>2. row.attempts <= maxConfirmAttempts - 1 + Cardinality(Deleting(id)') + spared'[id]
        BY <1>b, <1>c, <1>e, <2>2, <2>5, <2>7, CrowdsOf, SlipsAreNumbers
      <4> QED BY <2>1, <2>7, <4>1, <4>2 DEF RowOK
    <3>2. ASSUME NEW i \in 1..MaxIds, NEW m \in Names PROVE RowOK(i, m)'
      <4>1. CASE m = n /\ i = id BY <3>1, <4>1
      <4>2. CASE m # n /\ i = id BY <1>3, <2>7, <4>2 DEF RowOK, Lives
      <4>3. CASE i # id BY <1>1, <1>a, <1>5, <2>7, <4>3, RowKeeps, PendingSame
      <4> QED BY <4>1, <4>2, <4>3
    <3> QED BY <1>0, <1>1, <1>a, <3>2, CountedKeeps
  <2>8. CASE /\ pending' = [pending EXCEPT ![n] = next] /\ lost'[id] = lost[id]
             /\ \/ /\ spared'[id] = spared[id]
                   /\ TooMany(row.attempts + 1) => r = [step |-> "delete", name |-> n, id |-> id]
                \/ spared'[id] = spared[id] + 1
    <3>1. pending'[n] = next /\ \A m \in Names \ {n} : pending'[m] = pending[m] BY <1>0, <2>8
    <3>2. judged'[id] <= next.attempts + Cardinality(Wrong(id)') + lost'[id]
      BY <1>1, <1>b, <1>c, <1>d, <2>2, <2>4, <2>5, <2>8, CrowdsOf, SlipsAreNumbers
    <3>3. next.attempts <= maxConfirmAttempts - 1 + Cardinality(Deleting(id)') + spared'[id]
      <4>1. CASE spared'[id] = spared[id] + 1
        BY <1>b, <1>c, <1>e, <2>2, <2>4, <2>5, <4>1, CrowdsOf, SlipsAreNumbers
      <4>2. CASE ~TooMany(row.attempts + 1) /\ spared'[id] = spared[id]
        BY <1>b, <1>c, <2>2, <2>4, <4>2, SlipsAreNumbers DEF TooMany
      <4>3. CASE spared'[id] = spared[id] /\ r = [step |-> "delete", name |-> n, id |-> id]
        <5>1. [step |-> "delete", name |-> n, id |-> id] \in Guess BY <1>0 DEF Guess
        <5>2. req'[c].step = "delete" /\ req'[c].id = id /\ req'[c] # NoRequest BY <1>4, <4>3, <5>1, GoKeeps
        <5>3. Deleting(id) \cup {c} \subseteq Deleting(id)' BY <1>6, <5>2 DEF Deleting, At
        <5>4. Cardinality(Deleting(id) \cup {c}) <= Cardinality(Deleting(id)') BY <1>c, <5>3, FS_Subset
        <5>5. Cardinality(Deleting(id)) + 1 <= Cardinality(Deleting(id)') BY <1>7, <5>4, CrowdsOf, OneMore
        <5> QED BY <1>b, <1>c, <2>2, <2>4, <2>5, <4>3, <5>5, CrowdsOf, SlipsAreNumbers
      <4> QED BY <2>8, <4>1, <4>2, <4>3
    <3>4. RowOK(id, n)' BY <3>1, <3>2, <3>3 DEF RowOK
    <3>5. ASSUME NEW i \in 1..MaxIds, NEW m \in Names PROVE RowOK(i, m)'
      <4>1. CASE m = n /\ i = id BY <3>4, <4>1
      <4>2. CASE m = n /\ i # id BY <2>4, <3>1, <4>2 DEF RowOK, Lives
      <4>3. CASE m # n /\ i = id BY <1>3, <3>1, <4>3 DEF RowOK, Lives
      <4>4. CASE m # n /\ i # id BY <1>1, <1>a, <1>5, <3>1, <4>4, RowKeeps DEF Lives
      <4> QED BY <4>1, <4>2, <4>3, <4>4
    <3> QED BY <1>0, <1>1, <1>a, <3>5, CountedKeeps
  <2> QED BY <2>6, <2>7, <2>8
<1> QED BY <1>8, <1>9

\* The row the count was about is gone when its request leaves, or has been spared.
LEMMA DeleteCounts == ASSUME SignInv, NEW c \in Clients, DeletePending(c) PROVE Counted'
<1>1. req[c] # NoRequest /\ req[c].step = "delete" /\ ReqOK(c) BY DEF DeletePending, At, SignInv, SignTypeOK
<1>2. PICK id \in 1..rowsMade : id = req[c].id BY <1>1 DEF ReqOK
<1>3. UNCHANGED <<rowsMade, judged, lost>> /\ Go(c, NoRequest) BY DEF DeletePending, Done
<1>4. \/ pending' = Without(id) /\ spared' = spared
      \/ pending' = pending /\ spared' = [spared EXCEPT ![id] = spared[id] + 1]
  BY <1>2 DEF DeletePending
<1>5. id \in 1..MaxIds /\ rowsMade \in Nat /\ spared \in [1..MaxIds -> Nat]
  BY DEF SignInv, SignTypeOK, TalliesOK
<1>6. /\ \A i \in 1..MaxIds \ {id} : SlipsStay(i)
      /\ \A i \in 1..MaxIds : /\ lost'[i] \in Nat /\ lost[i] <= lost'[i]
                              /\ spared'[i] \in Nat /\ spared[i] <= spared'[i]
  BY <1>3, <1>4, <1>5, SlipsAreNumbers DEF SlipsStay
<1>7. ASSUME NEW i \in 1..MaxIds, i # id, NEW n \in Names PROVE RowOK(i, n)'
  <2>1. Wrong(i) \subseteq Wrong(i)' /\ Deleting(i) \subseteq Deleting(i)'
    BY <1>1, <1>2, <1>3, <1>7, GoKeeps DEF Wrong, Deleting, At
  <2>2. Lives(i, n)' => Lives(i, n) /\ pending'[n].attempts = pending[n].attempts
    BY <1>4, WithoutRows DEF Lives
  <2> QED BY <1>3, <1>6, <1>7, <2>1, <2>2, RowKeeps
<1>8. ASSUME NEW n \in Names PROVE RowOK(id, n)'
  <2>1. CASE pending' = Without(id) BY <2>1, WithoutRows DEF RowOK, Lives
  <2>2. CASE pending' = pending /\ spared' = [spared EXCEPT ![id] = spared[id] + 1]
    <3> SUFFICES ASSUME Lives(id, n) PROVE RowOK(id, n)' BY <2>2, PendingSame DEF RowOK
    <3>1. PICK k \in Nat : k = pending[n].attempts
      BY DEF SignInv, SignTypeOK, Lives, PendingRow
    <3>2. /\ judged[id] <= k + Cardinality(Wrong(id)) + lost[id]
          /\ k <= maxConfirmAttempts - 1 + Cardinality(Deleting(id)) + spared[id]
      BY <1>5, <3>1 DEF SignInv, Counted, RowOK
    <3>3. Wrong(id)' = Wrong(id) /\ Deleting(id)' = Deleting(id) \ {c} /\ c \in Deleting(id)
      BY <1>1, <1>2, <1>3, GoKeeps DEF Wrong, Deleting, At
    <3>4. /\ Cardinality(Deleting(id)) = Cardinality(Deleting(id)') + 1
          /\ Cardinality(Deleting(id)') \in Nat
      <4>1. IsFiniteSet(Deleting(id) \ {c}) BY CrowdsOf, FS_Subset
      <4>2. (Deleting(id) \ {c}) \cup {c} = Deleting(id) BY <3>3
      <4> QED BY <3>3, <4>1, <4>2, OneMore
    <3>5. spared'[id] = spared[id] + 1 /\ spared[id] \in Nat BY <1>5, <2>2
    <3>6. k <= maxConfirmAttempts - 1 + Cardinality(Deleting(id)') + spared'[id]
      BY <3>2, <3>4, <3>5
    <3> QED BY <1>3, <2>2, <3>1, <3>2, <3>3, <3>6 DEF RowOK
  <2> QED BY <1>4, <2>1, <2>2
<1> QED BY <1>3, <1>5, <1>6, <1>7, <1>8, CountedKeeps

LEMMA CountedStep == ASSUME SignInv, [SignNext]_signVars PROVE Counted'
<1>1. CASE UNCHANGED signVars BY <1>1, NobodyMoves, RowsStay DEF signVars
<1>2. CASE Tick BY <1>2, NobodyMoves, RowsStay DEF Tick
<1>3. ASSUME NEW n \in Names, Expire(n) PROVE Counted'
  <2>1. \A m \in Names : pending'[m] = pending[m] \/ pending'[m] = NoRow
    BY <1>3 DEF Expire, SignInv, SignTypeOK
  <2> QED BY <1>3, <2>1, NobodyMoves, RowsStay DEF Expire
<1>4. ASSUME NEW c \in Clients, NEW r, Go(c, r), UNCHANGED <<judged, rowsMade, lost, spared>>,
             req[c] = NoRequest \/ req[c].step \notin {"wrong", "delete"},
             \A m \in Names : pending'[m] = pending[m] \/ pending'[m] = NoRow
      PROVE  Counted'
  BY <1>4, OthersWait, RowsStay
<1>5. ASSUME NEW c \in Clients, NEW n \in Names, ReadClock(c, n) PROVE Counted'
  <2>1. Go(c, [step |-> "limit", name |-> n, now |-> clock]) BY <1>5 DEF ReadClock, Go
  <2> QED BY <1>4, <1>5, <2>1 DEF ReadClock
<1>6. ASSUME NEW c \in Clients, Allow(c) PROVE Counted'
  <2>1. Go(c, NoRequest) \/ Go(c, [step |-> "check", name |-> req[c].name])
    BY <1>6 DEF Allow, Go
  <2> QED BY <1>4, <1>6, <2>1 DEF Allow
<1>7. ASSUME NEW c \in Clients, CheckTaken(c) PROVE Counted'
  <2>1. Go(c, NoRequest) \/ Go(c, [step |-> "replace", name |-> req[c].name])
    BY <1>7 DEF CheckTaken, Done
  <2> QED BY <1>4, <1>7, <2>1 DEF CheckTaken, At
<1>8. ASSUME NEW c \in Clients, DeletePrior(c) PROVE Counted'
  <2>1. \A m \in Names : pending'[m] = pending[m] \/ pending'[m] = NoRow
    BY <1>8 DEF DeletePrior, SignInv, SignTypeOK
  <2> QED BY <1>4, <1>8, <2>1 DEF DeletePrior, At
<1>9. ASSUME NEW c \in Clients, SendConfirmation(c) PROVE Counted'
  <2>1. Go(c, NoRequest) \/ Go(c, [step |-> "undo", name |-> req[c].name])
    BY <1>9 DEF SendConfirmation, Done
  <2> QED BY <1>4, <1>9, <2>1 DEF SendConfirmation, At
<1>10. ASSUME NEW c \in Clients, FindOrphan(c) PROVE Counted'
  <2>1. PICK id : id = pending[req[c].name].id OBVIOUS
  <2>2. Go(c, NoRequest) \/ Go(c, [step |-> "delete", name |-> req[c].name, id |-> id])
    BY <1>10, <2>1 DEF FindOrphan, Done
  <2> QED BY <1>4, <1>10, <2>2 DEF FindOrphan, At
<1>11. ASSUME NEW c \in Clients, ConfirmPending(c) PROVE Counted'
  <2>1. Go(c, NoRequest) BY <1>11 DEF ConfirmPending, Done
  <2>2. \A m \in Names : pending'[m] = pending[m] \/ pending'[m] = NoRow
    BY <1>11, WithoutRows DEF ConfirmPending
  <2> QED BY <1>4, <1>11, <2>1, <2>2 DEF ConfirmPending, At
<1>12. ASSUME NEW c \in Clients, StatementFails(c) PROVE Counted'
  <2>1. Go(c, NoRequest) BY <1>12 DEF StatementFails, Done
  <2> QED BY <1>4, <1>12, <2>1 DEF StatementFails
<1> QED BY <1>1, <1>2, <1>3, <1>5, <1>6, <1>7, <1>8, <1>9, <1>10, <1>11, <1>12, InsertCounts, ReadCounts,
           AttemptCounts, DeleteCounts
        DEF SignNext

-----------------------------------------------------------------------------

LEMMA SignInitInv == SignInit => SignInv
<1> SUFFICES ASSUME SignInit PROVE SignInv OBVIOUS
<1>1. /\ clock = 0 /\ rowsMade = 0 /\ pending = [n \in Names |-> NoRow] /\ req = [c \in Clients |-> NoRequest]
      /\ judged = [i \in 1..MaxIds |-> 0] /\ events = [ip \in Ips |-> {}] /\ granted = [ip \in Ips |-> <<>>]
      /\ lost = [i \in 1..MaxIds |-> 0] /\ spared = [i \in 1..MaxIds |-> 0]
  BY DEF SignInit
<1>2. SignTypeOK BY <1>1 DEF SignTypeOK, TalliesOK, ReqOK, Lives
<1>3. ASSUME NEW ip \in Ips PROVE LimiterOK(ip)
  <2>1. events[ip] = {} /\ granted[ip] = <<>> BY <1>1
  <2>2. IsFiniteSet({}) BY FS_EmptySet
  <2>3. LogOK({}, <<>>, 0) BY <2>2 DEF LogOK
  <2> QED BY <1>1, <2>1, <2>3 DEF LimiterOK
<1>4. LimitersOK BY <1>1, <1>3 DEF LimitersOK
<1>5. Cardinality(Clients) \in Nat BY FS_CardinalityType
<1>6. Counted BY <1>1, <1>5 DEF Counted, RowOK, Lives
<1> QED BY <1>2, <1>4, <1>6 DEF SignInv

\* A pending signup is compared with no more wrong codes than the constant
\* allows, the other requests may have under way, and statements about it have
\* failed whose error the code drops; and no address is granted
\* more signups in a window, less the longest wait, than the limiter's number.
THEOREM SignupAlwaysBounded == SignSpec => []SignupIsBounded
<1>1. SignInv /\ [SignNext]_signVars => SignInv'
  BY SignTypeStep, LimiterStep, CountedStep DEF SignInv
<1>2. SignInv => SignupIsBounded
  BY DEF SignInv, Counted, LimitersOK, LimiterOK, LogOK, SignupIsBounded, GuessesAreBounded, GrantsAreSpaced
<1> QED BY SignInitInv, <1>1, <1>2, PTL DEF SignSpec

HIDE SignAssumption

-----------------------------------------------------------------------------
\* The screen of a talk

Users == {Me} \cup {PeerName[p] : p \in Peers}
Cursor == [row : Nat, col : Nat, height : Nat]
Pane == [owner : Peers \cup {ByName(u) : u \in Users}, label : Users, left : BOOLEAN,
         row : Nat, col : Nat, height : Nat]

\* A cursor on the lines of a pane of per rows, header included.
Fits(p, per) == p.height = per - 1 /\ p.row \in 0..(per - 2) /\ p.col \in 0..cols

ScreenInv ==
    /\ self \in Cursor /\ panes \in Seq(Pane)
    /\ screen => LET per == PerPane(1 + Len(panes))
                 IN Fits(self, per) /\ \A i \in 1..Len(panes) : Fits(panes[i], per)

\* Lines go round, and a run of text that has wrapped ends within the margin.
LEMMA RowsGoRound ==
    ASSUME NEW row \in Nat, NEW k \in Nat, NEW h \in Nat \ {0}
    PROVE  (row + k) % h \in Nat /\ (row + k) % h \in 0..(h - 1)
OBVIOUS

LEMMA TextWraps ==
    ASSUME NEW width \in Nat \ {0}, NEW col \in 0..width, NEW n \in Nat \ {0}, NEW k \in Int,
           k = (col + n - 1) \div width
    PROVE  k \in Nat /\ col + n - k * width \in 0..width
OBVIOUS

LEMMA OneMoreFits ==
    ASSUME NEW S, NEW s \in Seq(S), NEW e \in S
    PROVE  Append(s, e) \in Seq(S) /\ Len(Append(s, e)) = Len(s) + 1 /\ Append(s, e)[Len(s) + 1] = e
           /\ \A i \in 1..Len(s) : Append(s, e)[i] = s[i]
OBVIOUS

LEMMA SeqOfRange ==
    ASSUME NEW S, NEW s \in Seq(S), NEW S2, \A i \in 1..Len(s) : s[i] \in S2
    PROVE  s \in Seq(S2)
OBVIOUS

LEMMA NextTop == ASSUME NEW i \in Nat, NEW per \in Nat PROVE ((i + 1) - 1) * per = (i - 1) * per + per
OBVIOUS

LEMMA AboveNext ==
    ASSUME NEW per \in Nat, NEW top \in Int, NEW k \in 0..(per - 2)
    PROVE  3 + top + k \in Int /\ 3 + top + k \in (3 + top)..(3 + (top + per) - 2)
OBVIOUS

LEMMA TopsRise ==
    ASSUME NEW i \in Nat, NEW j \in Nat, NEW per \in Nat, i <= j
    PROVE  i * per \in Nat /\ j * per \in Nat /\ i * per <= j * per
<1>1. PICK k \in Nat : j = i + k BY j - i \in Nat, j = i + (j - i)
<1>2. j * per = i * per + k * per BY <1>1
<1>3. i * per \in Nat /\ k * per \in Nat OBVIOUS
<1> QED BY <1>2, <1>3

\* A set of numbers that is not empty has a least one.
LEMMA LeastOfNats ==
    ASSUME NEW S \in SUBSET Nat, S # {}
    PROVE  \E k \in S : \A m \in S : k <= m
<1>1. PICK k \in S : \A m \in S : ~(<<m, k>> \in OpToRel(<, Nat))
  BY WFMin, NatLessThanWellFounded, Zenon
<1>2. ASSUME NEW m \in S PROVE k <= m
  <2> DEFINE pair == <<m, k>>
  <2>1. pair \in Nat \X Nat /\ pair[1] = m /\ pair[2] = k OBVIOUS
  <2> HIDE DEF pair
  <2>2. m < k => pair[1] < pair[2] BY <2>1
  <2>3. pair[1] < pair[2] => pair \in OpToRel(<, Nat) BY <2>1, Zenon DEF OpToRel
  <2>4. pair \notin OpToRel(<, Nat) BY <1>1, Zenon DEF pair
  <2>5. ~(m < k) BY <2>2, <2>3, <2>4
  <2> QED BY <2>5
<1> QED BY <1>2

USE ScreenAssumption

-----------------------------------------------------------------------------

LEMMA PerPaneIsTwo == ASSUME NEW n \in Nat \ {0} PROVE PerPane(n) \in Nat /\ PerPane(n) >= 2
<1>1. (rows - 1) \div n \in Int OBVIOUS
<1> QED BY <1>1 DEF PerPane

\* A cursor that has its chunk written stays in its pane, whatever the chunk.
LEMMA DataFits ==
    ASSUME NEW per \in Nat, per >= 2, NEW K, K = Cursor \/ K = Pane, NEW p \in K, Fits(p, per),
           NEW chunk \in Chunks
    PROVE  paneData(p, chunk) \in K /\ Fits(paneData(p, chunk), per)
<1>1. p.row \in Nat /\ p.col \in Nat /\ p.height \in Nat \ {0} /\ p.col \in 0..cols
      /\ p.height = per - 1
  BY DEF Cursor, Pane, Fits
<1>2. ASSUME NEW r \in 0..(per - 2), NEW c \in 0..cols
      PROVE  LET q == [p EXCEPT !.row = r, !.col = c] IN q \in K /\ Fits(q, per)
  <2>0. r \in Nat /\ c \in Nat BY <1>1
  <2>1. CASE K = Cursor BY <1>1, <2>0, <2>1 DEF Cursor, Fits
  <2>2. CASE K = Pane BY <1>1, <2>0, <2>2 DEF Pane, Fits
  <2> QED BY <2>1, <2>2
<1>3. ASSUME NEW n \in Lengths, chunk = Text(n)
      PROVE  paneData(p, chunk) \in K /\ Fits(paneData(p, chunk), per)
  <2>0. n \in Nat OBVIOUS
  <2>1. PICK k \in Nat : k = Wraps(p, n) /\ p.col + n - k * cols \in 0..cols /\ (n = 0 => k = 0)
    <3>1. CASE n = 0 BY <1>1, <3>1 DEF Wraps
    <3>2. CASE n # 0
      <4>1. PICK k \in Int : k = (p.col + n - 1) \div cols BY <1>1, <2>0
      <4>2. k \in Nat /\ p.col + n - k * cols \in 0..cols BY <1>1, <2>0, <3>2, <4>1, TextWraps
      <4> QED BY <3>2, <4>1, <4>2 DEF Wraps
    <3> QED BY <3>1, <3>2
  <2>2. PICK r \in 0..(per - 2) : r = (p.row + k) % p.height
    <3>1. (p.row + k) % p.height \in 0..(p.height - 1) BY <1>1, <2>1, RowsGoRound
    <3> QED BY <1>1, <3>1
  <2>3. PICK c \in 0..cols : c = p.col + n - k * cols BY <2>1
  <2>4. paneData(p, chunk) = [NextLines(p, k) EXCEPT !.col = c] BY <1>3, <2>1, <2>3 DEF paneData, Text
  <2>5. paneData(p, chunk) = [p EXCEPT !.row = r, !.col = c]
    BY <2>2, <2>4 DEF NextLines, Cursor, Pane
  <2> QED BY <1>2, <2>5
<1>4. ASSUME chunk = <<"enter">> PROVE paneData(p, chunk) \in K /\ Fits(paneData(p, chunk), per)
  <2>1. PICK r \in 0..(per - 2) : r = (p.row + 1) % p.height
    <3>1. (p.row + 1) % p.height \in 0..(p.height - 1) BY <1>1, RowsGoRound
    <3> QED BY <1>1, <3>1
  <2>2. paneData(p, chunk) = [p EXCEPT !.row = r, !.col = 0] BY <1>4, <2>1 DEF paneData, NextLines
  <2>3. 0 \in 0..cols OBVIOUS
  <2> QED BY <1>2, <2>2, <2>3
<1>5. ASSUME chunk = <<"erase">> PROVE paneData(p, chunk) \in K /\ Fits(paneData(p, chunk), per)
  <2>1. PICK c \in 0..cols : c = IF p.col > 0 THEN p.col - 1 ELSE 0 BY <1>1
  <2>2. paneData(p, chunk) = [p EXCEPT !.col = c] BY <1>5, <2>1 DEF paneData
  <2>3. [p EXCEPT !.col = c] = [p EXCEPT !.row = p.row, !.col = c] BY DEF Cursor, Pane
  <2> QED BY <1>2, <2>2, <2>3 DEF Fits
<1> QED BY <1>3, <1>4, <1>5 DEF Chunks

LEMMA ClearedFits ==
    ASSUME NEW per \in Nat, per >= 2, NEW K, K = Cursor \/ K = Pane, NEW p \in K
    PROVE  Cleared(p, per) \in K /\ Fits(Cleared(p, per), per)
<1>1. PICK h \in Nat : h = per - 1 OBVIOUS
<1>2. PICK q : q = [p EXCEPT !.row = 0, !.col = 0, !.height = h] OBVIOUS
<1>3. Cleared(p, per) = q BY <1>1, <1>2 DEF Cleared
<1>4. q \in K /\ q.row = 0 /\ q.col = 0 /\ q.height = h
  <2>1. CASE K = Cursor BY <1>2, <2>1 DEF Cursor
  <2>2. CASE K = Pane BY <1>2, <2>2 DEF Pane
  <2> QED BY <2>1, <2>2
<1>5. Fits(q, per) BY <1>1, <1>4 DEF Fits
<1> QED BY <1>3, <1>4, <1>5

LEMMA NewPaneIsOne ==
    ASSUME NEW u \in Users, NEW o \in Peers \cup {ByName(v) : v \in Users} PROVE NewPane(o, u) \in Pane
BY DEF NewPane, Pane

\* Drawing the screen anew puts every cursor on the first line of its pane.
LEMMA RedrawFits ==
    ASSUME self \in Cursor, NEW ps \in Seq(Pane), Redraw(ps)
    PROVE  ScreenInv'
<1>1. PICK n \in Nat : n = Len(ps) OBVIOUS
<1>2. PICK per \in Nat : per = PerPane(1 + n) /\ per >= 2 BY PerPaneIsTwo
<1>3. self' = Cleared(self, per) /\ panes' = [i \in 1..n |-> Cleared(ps[i], per)]
  BY <1>1, <1>2 DEF Redraw
<1>4. self' \in Cursor /\ Fits(self', per) BY <1>2, <1>3, ClearedFits
<1>5. \A i \in 1..n : ps[i] \in Pane BY <1>1
<1>6. \A i \in 1..n : Cleared(ps[i], per) \in Pane /\ Fits(Cleared(ps[i], per), per)
  BY <1>2, <1>5, ClearedFits
<1>7. panes' \in [1..n -> Pane] BY <1>3, <1>6
<1>8. panes' \in Seq(Pane) /\ Len(panes') = n BY <1>7
<1> QED BY <1>2, <1>3, <1>4, <1>6, <1>8 DEF ScreenInv, Fits

\* Of the panes that something holds of, there is a first.
LEMMA ThereIsAFirst ==
    ASSUME panes \in Seq(Pane), NEW T, T \subseteq DOMAIN panes, T # {}
    PROVE  \E i \in DOMAIN panes : i \in T /\ \A j \in 1..(i - 1) : j \notin T
<1>1. PICK n \in Nat : n = Len(panes) /\ DOMAIN panes = 1..n OBVIOUS
<1>2. T \in SUBSET Nat BY <1>1
<1>3. PICK i \in T : \A j \in T : i <= j BY <1>2, LeastOfNats
<1> QED BY <1>1, <1>2, <1>3

LEMMA ScreenStep == ASSUME ScreenInv, [ScreenNext]_screenVars PROVE ScreenInv'
<1>0. self \in Cursor /\ panes \in Seq(Pane) /\ Len(panes) \in Nat BY DEF ScreenInv
<1>1. CASE UNCHANGED screenVars BY <1>1 DEF screenVars, ScreenInv, Fits
<1>2. CASE StartTalk
  <2>1. ASSUME NEW there \in SUBSET Peers, NEW inOrder \in SetToSeqs(there),
               Redraw([i \in 1..Cardinality(there) |->
                         LET u == PeerName[inOrder[i]] IN NewPane(ByName(u), u)])
        PROVE  ScreenInv'
    <3>1. PICK n \in Nat : n = Cardinality(there)
      <4>1. IsFiniteSet(there) BY FS_Subset
      <4> QED BY <4>1, FS_CardinalityType
    <3>2. \A i \in 1..n : inOrder[i] \in Peers BY <3>1 DEF SetToSeqs
    <3>3. \A i \in 1..n : NewPane(ByName(PeerName[inOrder[i]]), PeerName[inOrder[i]]) \in Pane
      BY <3>2, NewPaneIsOne DEF Users
    <3>4. PICK ps : ps = [i \in 1..n |-> NewPane(ByName(PeerName[inOrder[i]]), PeerName[inOrder[i]])]
      OBVIOUS
    <3>5. ps \in [1..n -> Pane] BY <3>3, <3>4
    <3>6. ps \in Seq(Pane) BY <3>5
    <3>7. Redraw(ps) BY <2>1, <3>1, <3>4
    <3> QED BY <1>0, <3>6, <3>7, RedrawFits
  <2>2. ASSUME Redraw(<<NewPane(ByName(Me), Me)>>) PROVE ScreenInv'
    <3>1. NewPane(ByName(Me), Me) \in Pane BY NewPaneIsOne DEF Users
    <3>2. <<NewPane(ByName(Me), Me)>> \in Seq(Pane) BY <3>1
    <3> QED BY <1>0, <2>2, <3>2, RedrawFits
  <2> QED BY <1>2, <2>1, <2>2 DEF StartTalk
<1>3. CASE EndTalk
  <2>1. ~screen' /\ panes' = <<>> /\ self' = [row |-> 0, col |-> 0, height |-> 0] BY <1>3 DEF EndTalk
  <2> QED BY <2>1 DEF ScreenInv, Cursor
<1>4. ASSUME NEW p \in Peers, NEW i \in 1..Len(panes)
      PROVE  /\ Claimed(i, p) \in Seq(Pane) /\ Len(Claimed(i, p)) = Len(panes)
             /\ Claimed(i, p)[i] \in Pane /\ \A per : Fits(panes[i], per) => Fits(Claimed(i, p)[i], per)
             /\ \A j \in 1..Len(panes) : j # i => Claimed(i, p)[j] = panes[j]
  <2>1. PICK pane \in Pane : pane = panes[i] BY <1>0
  <2>2. PICK mine \in Pane : mine = [pane EXCEPT !.owner = p] BY DEF Pane
  <2>3. mine.row = pane.row /\ mine.col = pane.col /\ mine.height = pane.height BY <2>2 DEF Pane
  <2>4. Claimed(i, p) = [panes EXCEPT ![i] = mine] BY <2>1, <2>2 DEF Claimed
  <2>5. panes \in [1..Len(panes) -> Pane] BY <1>0
  <2>6. Claimed(i, p) \in [1..Len(panes) -> Pane] BY <2>4, <2>5
  <2> QED BY <1>0, <2>1, <2>3, <2>4, <2>5, <2>6 DEF Fits
<1>5. ASSUME NEW p \in Peers, AddPeer(p), screen' = screen PROVE ScreenInv'
  <2>1. CASE UNCHANGED <<self, panes>> BY <1>5, <2>1 DEF ScreenInv, Fits
  <2>2. CASE Redraw(Append(panes, NewPane(p, PeerName[p])))
    <3>1. NewPane(p, PeerName[p]) \in Pane BY NewPaneIsOne DEF Users
    <3>2. Append(panes, NewPane(p, PeerName[p])) \in Seq(Pane) BY <1>0, <3>1, OneMoreFits
    <3> QED BY <1>0, <2>2, <3>2, RedrawFits
  <2>3. ASSUME NEW i \in 1..Len(panes), Redraw(Claimed(i, p)) PROVE ScreenInv'
    BY <1>0, <1>4, <2>3, RedrawFits
  <2> DEFINE known(i) == Mine(i, p) \/ Reserved(i, p)
  <2>4. ASSUME \E i \in DOMAIN panes : known(i) PROVE First(known) \in 1..Len(panes)
    <3>1. PICK T : T = {i \in DOMAIN panes : known(i)} OBVIOUS
    <3>2. PICK i \in DOMAIN panes : i \in T /\ \A j \in 1..(i - 1) : j \notin T
      BY <1>0, <2>4, <3>1, ThereIsAFirst
    <3>3. \A j \in 1..(i - 1) : j \in DOMAIN panes BY <1>0, <3>2
    <3>4. known(i) /\ \A j \in 1..(i - 1) : ~known(j) BY <3>1, <3>2, <3>3
    <3> HIDE DEF known
    <3>5. First(known) \in DOMAIN panes BY <3>4 DEF First
    <3> QED BY <1>0, <3>5
  <2> QED BY <1>5, <2>1, <2>2, <2>3, <2>4 DEF AddPeer
<1>6. ASSUME NEW p \in Peers, PeerJoins(p) PROVE ScreenInv' BY <1>5, <1>6 DEF PeerJoins
<1>7. ASSUME NEW ps \in Seq(Pane), Len(ps) = Len(panes), NEW i \in 1..Len(panes),
             Fits(ps[i], PerPane(1 + Len(panes))), \A j \in 1..Len(panes) : j # i => ps[j] = panes[j],
             NEW chunk \in Chunks, screen, screen' = screen, self' = self,
             panes' = [ps EXCEPT ![i] = paneData(ps[i], chunk)]
      PROVE  ScreenInv'
  <2>1. PICK n \in Nat : n = Len(panes) BY <1>0
  <2>a. 1 + n \in Nat \ {0} OBVIOUS
  <2>2. PICK per \in Nat : per = PerPane(1 + n) /\ per >= 2 BY <2>a, PerPaneIsTwo
  <2>3. PICK pane \in Pane : pane = ps[i] BY <1>7
  <2>4. paneData(pane, chunk) \in Pane /\ Fits(paneData(pane, chunk), per)
    BY <1>7, <2>1, <2>2, <2>3, DataFits
  <2>5. PICK next \in Pane : next = paneData(pane, chunk) BY <2>4
  <2>6. ps \in [1..n -> Pane] BY <1>7, <2>1
  <2>7. panes' = [ps EXCEPT ![i] = next] BY <1>7, <2>3, <2>5
  <2>8. panes' \in [1..n -> Pane] BY <2>6, <2>7
  <2>9. panes' \in Seq(Pane) /\ Len(panes') = n BY <2>8
  <2>10. \A j \in 1..n : Fits(panes'[j], per)
    BY <1>7, <2>1, <2>2, <2>4, <2>5, <2>6, <2>7 DEF ScreenInv
  <2>11. Fits(self', per) BY <1>7, <2>1, <2>2 DEF ScreenInv
  <2> QED BY <1>0, <1>7, <2>1, <2>2, <2>9, <2>10, <2>11 DEF ScreenInv, Fits
<1>8. ASSUME NEW p \in Peers, NEW chunk \in Chunks, PeerTypes(p, chunk) PROVE ScreenInv'
  <2> DEFINE mine(i) == Mine(i, p)
             reserved(i) == Reserved(i, p)
             write(ps, i) == panes' = [ps EXCEPT ![i] = paneData(ps[i], chunk)] /\ UNCHANGED self
  <2>0. screen /\ screen' = screen BY <1>8 DEF PeerTypes
  <2>1. CASE (\E i \in DOMAIN panes : mine(i)) /\ write(panes, First(mine))
    <3>1. PICK i \in 1..Len(panes) : i = First(mine)
      <4>1. PICK T : T = {i \in DOMAIN panes : mine(i)} OBVIOUS
      <4>2. PICK i \in DOMAIN panes : i \in T /\ \A j \in 1..(i - 1) : j \notin T
        BY <1>0, <2>1, <4>1, ThereIsAFirst
      <4>3. \A j \in 1..(i - 1) : j \in DOMAIN panes BY <1>0, <4>2
      <4>4. mine(i) /\ \A j \in 1..(i - 1) : ~mine(j) BY <4>1, <4>2, <4>3
      <4> HIDE DEF mine
      <4>5. First(mine) \in DOMAIN panes BY <4>4 DEF First
      <4> QED BY <1>0, <4>5
    <3>2. panes' = [panes EXCEPT ![i] = paneData(panes[i], chunk)] /\ self' = self BY <2>1, <3>1
    <3>3. Fits(panes[i], PerPane(1 + Len(panes))) BY <2>0 DEF ScreenInv
    <3> QED BY <1>0, <1>7, <2>0, <3>2, <3>3
  <2>2. CASE /\ ~\E i \in DOMAIN panes : mine(i)
             /\ \E i \in DOMAIN panes : reserved(i)
             /\ write(Claimed(First(reserved), p), First(reserved))
    <3>1. PICK i \in 1..Len(panes) : i = First(reserved)
      <4>1. PICK T : T = {i \in DOMAIN panes : reserved(i)} OBVIOUS
      <4>2. PICK i \in DOMAIN panes : i \in T /\ \A j \in 1..(i - 1) : j \notin T
        BY <1>0, <2>2, <4>1, ThereIsAFirst
      <4>3. \A j \in 1..(i - 1) : j \in DOMAIN panes BY <1>0, <4>2
      <4>4. reserved(i) /\ \A j \in 1..(i - 1) : ~reserved(j) BY <4>1, <4>2, <4>3
      <4> HIDE DEF reserved
      <4>5. First(reserved) \in DOMAIN panes BY <4>4 DEF First
      <4> QED BY <1>0, <4>5
    <3>2. PICK ps : ps = Claimed(i, p) OBVIOUS
    <3>3. panes' = [ps EXCEPT ![i] = paneData(ps[i], chunk)] /\ self' = self BY <2>2, <3>1, <3>2
    <3>4. Fits(panes[i], PerPane(1 + Len(panes))) BY <2>0 DEF ScreenInv
    <3>5. /\ ps \in Seq(Pane) /\ Len(ps) = Len(panes) /\ Fits(ps[i], PerPane(1 + Len(panes)))
          /\ \A j \in 1..Len(panes) : j # i => ps[j] = panes[j]
      BY <1>4, <3>2, <3>4
    <3> QED BY <1>7, <2>0, <3>3, <3>5
  <2>3. CASE LET per == PerPane(2 + Len(panes))
             IN /\ self' = Cleared(self, per)
                /\ panes' = Append([i \in DOMAIN panes |-> Cleared(panes[i], per)],
                                   paneData(Cleared(NewPane(p, PeerName[p]), per), chunk))
    <3>1. PICK n \in Nat : n = Len(panes) BY <1>0
    <3>a. 2 + n \in Nat \ {0} /\ 1 + (n + 1) = 2 + n OBVIOUS
    <3>2. PICK per \in Nat : per = PerPane(2 + n) /\ per >= 2 BY <3>a, PerPaneIsTwo
    <3>3. PICK old : old = [i \in 1..n |-> Cleared(panes[i], per)] OBVIOUS
    <3>4. \A i \in 1..n : Cleared(panes[i], per) \in Pane /\ Fits(Cleared(panes[i], per), per)
      BY <1>0, <3>1, <3>2, ClearedFits
    <3>5. old \in [1..n -> Pane] /\ \A i \in 1..n : Fits(old[i], per) BY <3>3, <3>4
    <3>6. old \in Seq(Pane) /\ Len(old) = n BY <3>5
    <3>7. NewPane(p, PeerName[p]) \in Pane BY NewPaneIsOne DEF Users
    <3>8. PICK fresh \in Pane : fresh = Cleared(NewPane(p, PeerName[p]), per) /\ Fits(fresh, per)
      BY <3>2, <3>7, ClearedFits
    <3>9. PICK last \in Pane : last = paneData(fresh, chunk) /\ Fits(last, per)
      BY <3>2, <3>8, DataFits
    <3>10. DOMAIN panes = 1..n BY <1>0, <3>1
    <3>11. panes' = Append(old, last) /\ self' = Cleared(self, per)
      BY <2>3, <3>1, <3>2, <3>3, <3>8, <3>9, <3>10
    <3>12. /\ panes' \in Seq(Pane) /\ Len(panes') = n + 1 /\ panes'[n + 1] = last
           /\ \A i \in 1..n : panes'[i] = old[i]
      BY <3>6, <3>11, OneMoreFits
    <3>13. \A i \in 1..(n + 1) : Fits(panes'[i], per) BY <3>5, <3>9, <3>12
    <3>14. self' \in Cursor /\ Fits(self', per) BY <1>0, <3>2, <3>11, ClearedFits
    <3> QED BY <3>a, <3>2, <3>12, <3>13, <3>14 DEF ScreenInv, Fits
  <2> QED BY <1>8, <2>1, <2>2, <2>3 DEF PeerTypes
<1>9. ASSUME NEW p \in Peers, PeerLeaves(p) PROVE ScreenInv'
  <2>1. PICK n \in Nat : n = Len(panes) BY <1>0
  <2>2. PICK ps : ps = [i \in 1..n |-> [panes[i] EXCEPT !.left = panes[i].left \/ Mine(i, p)]] OBVIOUS
  <2>3. ASSUME NEW i \in 1..n PROVE ps[i] \in Pane
    <3>1. PICK pane \in Pane : pane = panes[i] BY <1>0, <2>1
    <3>2. pane.left \in BOOLEAN BY DEF Pane
    <3>3. PICK left \in BOOLEAN : left = (pane.left \/ Mine(i, p)) OBVIOUS
    <3>4. [pane EXCEPT !.left = left] \in Pane BY DEF Pane
    <3> QED BY <2>2, <3>1, <3>3, <3>4
  <2>4. ps \in [1..n -> Pane] BY <2>2, <2>3
  <2>5. ps \in Seq(Pane) BY <2>4
  <2>6. DOMAIN panes = 1..n BY <1>0, <2>1
  <2>7. Redraw(ps) BY <1>9, <2>2, <2>6 DEF PeerLeaves
  <2> QED BY <1>0, <2>5, <2>7, RedrawFits
<1>10. ASSUME NEW chunk \in Chunks, TypeOwn(chunk) PROVE ScreenInv'
  <2>1. PICK n \in Nat : n = Len(panes) BY <1>0
  <2>a. 1 + n \in Nat \ {0} OBVIOUS
  <2>2. PICK per \in Nat : per = PerPane(1 + n) /\ per >= 2 BY <2>a, PerPaneIsTwo
  <2>3. UNCHANGED <<screen, panes>> /\ screen /\ self' = paneData(self, chunk) BY <1>10 DEF TypeOwn
  <2>4. Fits(self, per) BY <2>1, <2>2, <2>3 DEF ScreenInv
  <2>5. self' \in Cursor /\ Fits(self', per) BY <1>0, <2>2, <2>3, <2>4, DataFits
  <2>6. \A i \in 1..n : Fits(panes[i], per) BY <2>1, <2>2, <2>3 DEF ScreenInv
  <2> QED BY <1>0, <2>1, <2>2, <2>3, <2>5, <2>6 DEF ScreenInv, Fits
<1> QED BY <1>1, <1>2, <1>3, <1>6, <1>8, <1>9, <1>10 DEF ScreenNext

\* For every terminal, every number of peers and all they may type, the next
\* byte of a pane goes to a row of its own, above the next header, and within
\* the margin; or to the last row, when the panes do not fit.
THEOREM InkAlwaysStaysInPane == ScreenSpec => []InkStaysInPane
<1>1. ScreenInit => ScreenInv BY DEF ScreenInit, ScreenInv, Cursor
<1>2. ScreenInv /\ [ScreenNext]_screenVars => ScreenInv' BY ScreenStep
<1>3. ScreenInv => InkStaysInPane
  <2> SUFFICES ASSUME ScreenInv, screen, NEW i \in 1..(Len(panes) + 1)
               PROVE  LET p == IF i = 1 THEN [row |-> self.row, col |-> self.col] ELSE panes[i - 1]
                          line == Shown(Top(i) + p.row)
                          allFit == Top(Len(panes) + 2) - 2 <= rows
                      IN /\ line < rows \/ allFit => line \in Top(i)..(Top(i + 1) - 2)
                         /\ p.col \in 0..cols
    BY DEF InkStaysInPane
  <2>1. PICK n \in Nat : n = Len(panes) BY DEF ScreenInv
  <2>2. 1 + n \in Nat \ {0} OBVIOUS
  <2>3. PICK per \in Nat : per = PerPane(1 + n) /\ per >= 2 BY <2>2, PerPaneIsTwo
  <2>4. PICK r \in Int : r = (i - 1) * per BY <2>1
  <2>5. Top(i) = 3 + r BY <2>1, <2>3, <2>4 DEF Top
  <2>6. Top(i + 1) = 3 + (r + per) BY <2>1, <2>3, <2>4, NextTop DEF Top
  <2>7. Fits(self, per) /\ \A j \in 1..n : Fits(panes[j], per) BY <2>1, <2>3 DEF ScreenInv
  <2>8. PICK p : p = IF i = 1 THEN [row |-> self.row, col |-> self.col] ELSE panes[i - 1] OBVIOUS
  <2>9. p.row \in 0..(per - 2) /\ p.col \in 0..cols
    <3>1. CASE i = 1
      <4>1. p = [row |-> self.row, col |-> self.col] BY <2>8, <3>1
      <4>2. p.row = self.row /\ p.col = self.col BY <4>1
      <4> QED BY <2>7, <4>2 DEF Fits
    <3>2. CASE i # 1
      <4>1. i - 1 \in 1..n BY <2>1, <3>2
      <4> QED BY <2>7, <2>8, <3>2, <4>1 DEF Fits
    <3> QED BY <3>1, <3>2
  <2>10. PICK line \in Int : line = Top(i) + p.row /\ line \in Top(i)..(Top(i + 1) - 2)
    <3>1. PICK k \in 0..(per - 2) : k = p.row BY <2>9
    <3>2. 3 + r + k \in Int /\ 3 + r + k \in (3 + r)..(3 + (r + per) - 2) BY <2>3, <2>4, AboveNext
    <3>3. Top(i) + p.row = 3 + r + k BY <2>5, <3>1
    <3>4. 3 + r + k \in Top(i)..(Top(i + 1) - 2) BY <2>5, <2>6, <3>2
    <3> QED BY <3>2, <3>3, <3>4, Zenon
  <2>11. Top(i + 1) <= Top(n + 2) /\ Top(i) \in Int /\ Top(i + 1) \in Int /\ Top(n + 2) \in Int
    <3>1. PICK j \in Nat, m \in Nat : j = i /\ m = n + 1 /\ j <= m BY <2>1
    <3>2. j * per \in Nat /\ m * per \in Nat /\ j * per <= m * per BY <3>1, TopsRise
    <3>3. (i + 1) - 1 = j /\ (n + 2) - 1 = m BY <2>1, <3>1
    <3>4. Top(i + 1) = 3 + j * per /\ Top(n + 2) = 3 + m * per BY <2>1, <2>3, <3>3 DEF Top
    <3> QED BY <2>4, <2>5, <3>2, <3>4
  <2>12. Shown(line) < rows \/ Top(n + 2) - 2 <= rows => Shown(line) = line
    BY <2>10, <2>11 DEF Shown
  <2>13. Shown(Top(i) + p.row) < rows \/ Top(Len(panes) + 2) - 2 <= rows
            => Shown(Top(i) + p.row) \in Top(i)..(Top(i + 1) - 2)
    BY <2>1, <2>10, <2>12
  <2> QED BY <2>8, <2>9, <2>13
<1> QED BY <1>1, <1>2, <1>3, PTL DEF ScreenSpec

HIDE ScreenAssumption

-----------------------------------------------------------------------------
\* A talk between two nodes

Talkers == Terminals \cup StandIns
Dialled(s) == desk[s] \in {"joined", "bridging", "ended"}

\* What has begun on behalf of a dial, and where.
DialsOK ==
    /\ DOMAIN at = Terminals /\ DOMAIN desk = Terminals
    /\ DOMAIN relay = StandIns /\ DOMAIN reader = StandIns /\ DOMAIN room = Talkers
    /\ \A s \in Terminals : /\ at[s] = "prompt" => desk[s] = "idle"
                            /\ at[s] = "bridging" => Dialled(s)
    /\ \A h \in StandIns : relay[h] # "off" \/ reader[h] # "off" \/ room[h] # Nowhere => Dialled(h[2])
    /\ \A h \in Talkers : room[h] # Nowhere => room[h][1] = Place(h)

\* A stand-in only hears what is typed at its own node, and sends it across.
Sayings(h) == IF h \in Terminals THEN Terminals \ {h} ELSE {t \in Terminals : NodeOf[t] = Place(h)}
Heard(h) == {e \in R!Events : e.kind = "data" => e.data \in Sayings(h)}
Frames == [kind : {"data", "close"}, data : Terminals \cup {NoData}]
Carried(s, d) ==
    {f \in Frames : f.kind = "data" => f.data \in Terminals /\ NodeOf[f.data] # Place(<<d, s>>)}

EarsOK == DOMAIN recv = Talkers /\ \A h \in Talkers : recv[h] \in Seq(Heard(h))
LinesOK ==
    /\ DOMAIN conn = Terminals
    /\ \A s \in Terminals : /\ conn[s] \in [to : [Sides -> Seq(Frames)], shut : SUBSET Sides]
                            /\ \A d \in Sides : conn[s].to[d] \in Seq(Carried(s, d))

TalkInv == DialsOK /\ (Crossed \/ (EarsOK /\ LinesOK))

LEMMA SeqSteps ==
    ASSUME NEW S, NEW q \in Seq(S)
    PROVE  /\ \A e \in S : Append(q, e) \in Seq(S)
           /\ q # <<>> => Head(q) \in S /\ Tail(q) \in Seq(S)
           /\ <<>> \in Seq(S) /\ Len(q) \in Nat
           /\ \A k \in DOMAIN q : q[k] \in S
OBVIOUS

LEMMA LargerSeq == ASSUME NEW S, NEW T, S \subseteq T, NEW q \in Seq(S) PROVE q \in Seq(T)
OBVIOUS

LEMMA LineRecord ==
    ASSUME NEW X, NEW Y, NEW c \in [to : X, shut : Y], NEW a
    PROVE  [c EXCEPT !.to = a] = [to |-> a, shut |-> c.shut]
OBVIOUS

LEMMA FrameIs ==
    ASSUME NEW k \in {"data", "close"}, NEW x \in Terminals \cup {NoData}
    PROVE  Frame(k, x) \in Frames /\ Frame(k, x).kind = k /\ Frame(k, x).data = x
BY DEF Frame, Frames

USE TalkAssumption

-----------------------------------------------------------------------------
\* Places

LEMMA TwoNodes == ASSUME NEW n \in Nodes PROVE Across(n) \in Nodes /\ Across(n) # n /\ \A m \in Nodes : m = n \/ m = Across(n)
BY DEF Across

LEMMA StandInsApart ==
    ASSUME NEW h \in StandIns
    PROVE  h \notin Terminals /\ h[1] \in Sides /\ h[2] \in Terminals /\ h = <<h[1], h[2]>>
           /\ <<OtherSide(h[1]), h[2]>> \in StandIns /\ OtherSide(h[1]) \in Sides /\ OtherSide(h[1]) # h[1]
BY DEF StandIns, Sides, OtherSide

LEMMA Places ==
    /\ \A s \in Terminals : Place(s) = NodeOf[s] /\ NodeOf[s] \in Nodes
    /\ \A s \in Terminals : Place(<<"near", s>>) = NodeOf[s] /\ Place(<<"far", s>>) = Across(NodeOf[s])
    /\ \A h \in Talkers : Place(h) \in Nodes
    /\ \A h \in StandIns : Place(<<OtherSide(h[1]), h[2]>>) # Place(h)
<1>1. \A s \in Terminals : Place(s) = NodeOf[s] /\ NodeOf[s] \in Nodes BY DEF Place
<1>2. ASSUME NEW s \in Terminals
      PROVE  Place(<<"near", s>>) = NodeOf[s] /\ Place(<<"far", s>>) = Across(NodeOf[s])
  <2>1. <<"near", s>> \in StandIns /\ <<"far", s>> \in StandIns BY DEF StandIns, Sides
  <2> QED BY <2>1, StandInsApart DEF Place
<1>3. ASSUME NEW h \in StandIns
      PROVE  Place(h) \in Nodes /\ Place(<<OtherSide(h[1]), h[2]>>) # Place(h)
  <2>1. PICK d \in Sides, s \in Terminals : h = <<d, s>> /\ h[1] = d /\ h[2] = s BY StandInsApart
  <2>2. CASE d = "near" BY <1>1, <1>2, <2>1, <2>2, TwoNodes DEF OtherSide
  <2>3. CASE d = "far" BY <1>1, <1>2, <2>1, <2>3, TwoNodes DEF OtherSide
  <2> QED BY <2>2, <2>3 DEF Sides
<1> QED BY <1>1, <1>2, <1>3 DEF Talkers

LEMMA BothSides ==
    ASSUME NEW s \in Terminals, NEW d \in Sides
    PROVE  \E h \in StandIns : h = <<d, s>> /\ h[1] = d /\ h[2] = s
<1>1. <<d, s>> \in StandIns BY DEF StandIns
<1> QED BY <1>1

\* Of dials that have not crossed, the stand-ins of a node share a session id.
LEMMA OneVoice ==
    ASSUME ~Crossed, NEW g \in StandIns, NEW h \in StandIns, Dialled(g[2]), Dialled(h[2]), Place(g) = Place(h)
    PROVE  Sid(g) = Sid(h)
<1>1. PICK d \in Sides, s \in Terminals : g = <<d, s>> /\ g[1] = d /\ g[2] = s BY StandInsApart
<1>2. PICK e \in Sides, t \in Terminals : h = <<e, t>> /\ h[1] = e /\ h[2] = t BY StandInsApart
<1>3. NodeOf[s] = NodeOf[t] BY <1>1, <1>2 DEF Crossed, Accepted, Dialled
<1>4. d = e
  <2>1. Place(<<"near", s>>) = NodeOf[s] /\ Place(<<"far", s>>) # NodeOf[s] BY Places, TwoNodes
  <2>2. Place(<<"near", t>>) = NodeOf[t] /\ Place(<<"far", t>>) # NodeOf[t] BY Places, TwoNodes
  <2> QED BY <1>1, <1>2, <1>3, <2>1, <2>2 DEF Sides
<1> QED BY <1>1, <1>2, <1>3, <1>4, StandInsApart DEF Sid

-----------------------------------------------------------------------------
\* Dials

\* What a member has joined is at its place.
LEMMA JoinIsAt ==
    ASSUME DialsOK, NEW h \in Talkers, R!Join(h, Place(h))
    PROVE  DOMAIN room' = Talkers /\ room'[h][1] = Place(h) /\ \A m \in Talkers \ {h} : room'[m] = room[m]
BY DEF R!Join, R!Target, DialsOK

LEMMA DialsStep ==
    ASSUME TalkInv, [TalkNext]_talkVars
    PROVE  DialsOK' /\ \A s \in Terminals : Dialled(s) => Dialled(s)'
<1>0. DialsOK BY DEF TalkInv
<1>1. ASSUME UNCHANGED <<at, desk, relay, reader, room>>
      PROVE  DialsOK' /\ \A s \in Terminals : Dialled(s) => Dialled(s)'
  BY <1>0, <1>1 DEF DialsOK, Dialled
<1>2. CASE UNCHANGED talkVars BY <1>1, <1>2 DEF talkVars, talkRooms
<1>3. ASSUME NEW s \in Terminals, Show(s) \/ Cut(s) \/ Type(s)
      PROVE  DialsOK' /\ \A t \in Terminals : Dialled(t) => Dialled(t)'
  BY <1>1, <1>3 DEF Show, Cut, Type, R!Receive, R!Send, Unbridged, talkRooms
<1>4. ASSUME NEW h \in StandIns, Inject(h)
      PROVE  DialsOK' /\ \A t \in Terminals : Dialled(t) => Dialled(t)'
  BY <1>1, <1>4 DEF Inject, R!Send
<1>5. ASSUME NEW s \in Terminals, SeeInvitation(s) \/ TakeInvitation(s) \/ GiveUp(s) \/ Quit(s)
      PROVE  DialsOK' /\ \A t \in Terminals : Dialled(t) => Dialled(t)'
  <2>1. UNCHANGED <<desk, relay, reader, room>>
    BY <1>5 DEF SeeInvitation, TakeInvitation, GiveUp, Quit, Unbridged, talkRooms, R!Leave
  <2>2. \/ at' = [at EXCEPT ![s] = "answering"] \/ at' = [at EXCEPT ![s] = "joining"]
        \/ at' = [at EXCEPT ![s] = "done"]
    BY <1>5 DEF SeeInvitation, TakeInvitation, GiveUp, Quit
  <2> QED BY <1>0, <2>1, <2>2 DEF DialsOK, Dialled
<1>6. ASSUME NEW s \in Terminals, InitiateTalk(s)
      PROVE  DialsOK' /\ \A t \in Terminals : Dialled(t) => Dialled(t)'
  <2>1. /\ at[s] = "prompt" /\ at' = [at EXCEPT ![s] = "ringing"] /\ desk' = [desk EXCEPT ![s] = "asked"]
        /\ UNCHANGED <<relay, reader, room>>
    BY <1>6 DEF InitiateTalk, talkRooms
  <2>2. desk[s] = "idle" BY <1>0, <2>1 DEF DialsOK
  <2>3. \A t \in Terminals : Dialled(t) => Dialled(t)' BY <1>0, <2>1, <2>2 DEF DialsOK, Dialled
  <2> QED BY <1>0, <2>1, <2>3, StandInsApart DEF DialsOK
<1>7. ASSUME NEW s \in Terminals, JoinBridged(s) \/ JoinOwnRoom(s)
      PROVE  DialsOK' /\ \A t \in Terminals : Dialled(t) => Dialled(t)'
  <2>a. R!Join(s, NodeOf[s])
    <3>1. CASE JoinBridged(s) BY <3>1 DEF JoinBridged
    <3>2. CASE JoinOwnRoom(s) BY <3>2 DEF JoinOwnRoom
    <3> QED BY <1>7, <3>1, <3>2
  <2>b. UNCHANGED <<desk, relay, reader>> BY <1>7 DEF JoinBridged, JoinOwnRoom, Unbridged
  <2>1. at' = [at EXCEPT ![s] = "talking"] \/ (at' = [at EXCEPT ![s] = "bridging"] /\ Dialled(s))
    <3>1. CASE JoinBridged(s) BY <3>1 DEF JoinBridged
    <3>2. CASE JoinOwnRoom(s)
      <4>1. at' = [at EXCEPT ![s] = "bridging"] /\ desk[s] \in {"bridging", "ended"} BY <3>2 DEF JoinOwnRoom
      <4> QED BY <4>1 DEF Dialled
    <3> QED BY <1>7, <3>1, <3>2
  <2>2. s \in Talkers /\ Place(s) = NodeOf[s] BY Places DEF Talkers
  <2>3. /\ DOMAIN room' = Talkers /\ room'[s][1] = Place(s)
        /\ \A m \in Talkers \ {s} : room'[m] = room[m]
    BY <1>0, <2>a, <2>2, JoinIsAt
  <2>4. \A h \in StandIns : h \in Talkers \ {s} BY StandInsApart DEF Talkers
  <2>5. \A t \in Terminals : /\ at'[t] = "prompt" => desk[t] = "idle"
                             /\ at'[t] = "bridging" => Dialled(t)
    BY <1>0, <2>1 DEF DialsOK
  <2>6. DOMAIN at' = Terminals BY <1>0, <2>1 DEF DialsOK
  <2> QED BY <1>0, <2>b, <2>3, <2>4, <2>5, <2>6 DEF DialsOK, Dialled
<1>8. ASSUME NEW s \in Terminals, NEW h \in StandIns, h[2] = s, 
             (StartBridge(s) /\ h[1] = "near") \/ (JoinStandIn(s) /\ h[1] = "far")
      PROVE  DialsOK' /\ \A t \in Terminals : Dialled(t) => Dialled(t)'
  <2>1. h = <<h[1], s>> /\ h \in Talkers BY <1>8, StandInsApart DEF Talkers
  <2>2. R!Join(h, Place(h))
    <3>1. CASE StartBridge(s) /\ h[1] = "near"
      <4>1. R!Join(<<"near", s>>, NodeOf[s]) BY <3>1 DEF StartBridge
      <4>2. h = <<"near", s>> /\ Place(h) = NodeOf[s] BY <2>1, <3>1, Places
      <4> QED BY <4>1, <4>2
    <3>2. CASE JoinStandIn(s) /\ h[1] = "far"
      <4>1. R!Join(<<"far", s>>, Across(NodeOf[s])) BY <3>2 DEF JoinStandIn
      <4>2. h = <<"far", s>> /\ Place(h) = Across(NodeOf[s]) BY <2>1, <3>2, Places
      <4> QED BY <4>1, <4>2
    <3> QED BY <1>8, <3>1, <3>2
  <2>3. /\ DOMAIN room' = Talkers /\ room'[h][1] = Place(h)
        /\ \A m \in Talkers \ {h} : room'[m] = room[m]
    BY <1>0, <2>1, <2>2, JoinIsAt
  <2>4. \A t \in Terminals : Dialled(t) => Dialled(t)'
    BY <1>0, <1>8 DEF StartBridge, JoinStandIn, DialsOK, Dialled
  <2>5. Dialled(s)' BY <1>0, <1>8 DEF StartBridge, JoinStandIn, DialsOK, Dialled, Bridge
  <2>6. /\ DOMAIN at' = Terminals /\ DOMAIN desk' = Terminals /\ DOMAIN relay' = StandIns /\ DOMAIN reader' = StandIns
        /\ \A g \in StandIns \ {h} : relay'[g] = relay[g] /\ reader'[g] = reader[g]
    BY <1>0, <1>8, <2>1 DEF StartBridge, JoinStandIn, DialsOK, Bridge
  <2>7. \A t \in Terminals : /\ at'[t] = "prompt" => desk'[t] = "idle"
                             /\ at'[t] = "bridging" => Dialled(t)'
    BY <1>0, <1>8 DEF StartBridge, JoinStandIn, DialsOK, Bridge, Dialled
  <2> QED BY <1>0, <1>8, <2>1, <2>3, <2>4, <2>5, <2>6, <2>7, StandInsApart DEF DialsOK, Talkers
<1>9. ASSUME NEW s \in Terminals, Refuse(s)
      PROVE  DialsOK' /\ \A t \in Terminals : Dialled(t) => Dialled(t)'
  <2>1. desk[s] = "asked" /\ desk' = [desk EXCEPT ![s] = "refused"] /\ UNCHANGED <<at, relay, reader, room>>
    BY <1>9 DEF Refuse, talkRooms
  <2>2. \A t \in Terminals : Dialled(t) => Dialled(t)' BY <1>0, <2>1 DEF DialsOK, Dialled
  <2> QED BY <1>0, <2>1, <2>2, StandInsApart DEF DialsOK
<1>10. ASSUME NEW s \in Terminals, Invite(s)
       PROVE  DialsOK' /\ \A t \in Terminals : Dialled(t) => Dialled(t)'
  <2>1. PICK h \in StandIns : h = <<"far", s>> /\ h[2] = s BY BothSides DEF Sides
  <2>2. /\ desk[s] = "joined" /\ desk' = [desk EXCEPT ![s] = "bridging"] /\ UNCHANGED <<at, room>>
        /\ relay' = [relay EXCEPT ![h] = "running"] /\ reader' = [reader EXCEPT ![h] = "reading"]
    BY <1>10, <2>1 DEF Invite, Bridge, talkRooms
  <2>3. \A t \in Terminals : Dialled(t) => Dialled(t)' BY <1>0, <2>2 DEF DialsOK, Dialled
  <2>4. Dialled(s)' BY <1>0, <2>2 DEF DialsOK, Dialled
  <2>5. /\ DOMAIN desk' = Terminals /\ DOMAIN relay' = StandIns /\ DOMAIN reader' = StandIns
        /\ \A g \in StandIns \ {h} : relay'[g] = relay[g] /\ reader'[g] = reader[g]
        /\ \A t \in Terminals \ {s} : desk'[t] = desk[t]
    BY <1>0, <2>2 DEF DialsOK
  <2>6. at[s] # "prompt" BY <1>0, <2>2 DEF DialsOK
  <2>7. \A t \in Terminals : /\ at[t] = "prompt" => desk'[t] = "idle"
                             /\ at[t] = "bridging" => Dialled(t)'
    BY <1>0, <2>3, <2>5, <2>6 DEF DialsOK
  <2>8. \A g \in StandIns : relay'[g] # "off" \/ reader'[g] # "off" \/ room[g] # Nowhere => Dialled(g[2])'
    <3>1. ASSUME NEW g \in StandIns, g # h, relay'[g] # "off" \/ reader'[g] # "off" \/ room[g] # Nowhere
          PROVE  Dialled(g[2])'
      BY <1>0, <2>3, <2>5, <3>1, StandInsApart DEF DialsOK
    <3> QED BY <2>1, <2>4, <3>1
  <2> QED BY <1>0, <2>2, <2>3, <2>5, <2>7, <2>8 DEF DialsOK
<1>11. ASSUME NEW h \in StandIns, Forward(h) \/ SeeReaderDone(h) \/ LeaveRoom(h) \/ CloseRelay(h) \/ ReaderEnds(h)
       PROVE  DialsOK' /\ \A t \in Terminals : Dialled(t) => Dialled(t)'
  <2>1. UNCHANGED <<at, desk, room>> /\ (relay[h] # "off" \/ reader[h] # "off")
    BY <1>11 DEF Forward, SeeReaderDone, LeaveRoom, CloseRelay, ReaderEnds, talkRooms, R!Receive, R!Leave
  <2>2. /\ DOMAIN relay' = StandIns /\ DOMAIN reader' = StandIns
        /\ \A g \in StandIns \ {h} : relay'[g] = relay[g] /\ reader'[g] = reader[g]
    BY <1>0, <1>11 DEF Forward, SeeReaderDone, LeaveRoom, CloseRelay, ReaderEnds, DialsOK
  <2> QED BY <1>0, <2>1, <2>2 DEF DialsOK, Dialled
<1>12. ASSUME NEW h \in StandIns, RemoveInvitation(h)
       PROVE  DialsOK' /\ \A t \in Terminals : Dialled(t) => Dialled(t)'
  <2>1. /\ relay[h] = "closed" /\ relay' = [relay EXCEPT ![h] = "ended"]
        /\ desk' = [desk EXCEPT ![h[2]] = "ended"] /\ UNCHANGED <<at, reader, room>>
    BY <1>12 DEF RemoveInvitation, talkRooms
  <2>2. h[2] \in Terminals /\ Dialled(h[2]) BY <1>0, <2>1, StandInsApart DEF DialsOK
  <2>3. \A t \in Terminals : Dialled(t) => Dialled(t)' BY <1>0, <2>1, <2>2 DEF DialsOK, Dialled
  <2>4. /\ DOMAIN desk' = Terminals /\ DOMAIN relay' = StandIns
        /\ \A g \in StandIns \ {h} : relay'[g] = relay[g]
        /\ \A t \in Terminals \ {h[2]} : desk'[t] = desk[t]
    BY <1>0, <2>1 DEF DialsOK
  <2>5. at[h[2]] # "prompt" BY <1>0, <2>2 DEF DialsOK, Dialled
  <2>6. \A t \in Terminals : /\ at[t] = "prompt" => desk'[t] = "idle"
                             /\ at[t] = "bridging" => Dialled(t)'
    BY <1>0, <2>3, <2>4, <2>5 DEF DialsOK
  <2>7. \A g \in StandIns : relay'[g] # "off" \/ reader[g] # "off" \/ room[g] # Nowhere => Dialled(g[2])'
    BY <1>0, <2>1, <2>3, <2>4, StandInsApart DEF DialsOK
  <2> QED BY <1>0, <2>1, <2>3, <2>4, <2>6, <2>7 DEF DialsOK
<1>13. ASSUME NEW s \in Terminals, StartBridge(s)
       PROVE  DialsOK' /\ \A t \in Terminals : Dialled(t) => Dialled(t)'
  <2>1. PICK h \in StandIns : h[1] = "near" /\ h[2] = s BY BothSides DEF Sides
  <2> QED BY <1>8, <1>13, <2>1
<1>14. ASSUME NEW s \in Terminals, JoinStandIn(s)
       PROVE  DialsOK' /\ \A t \in Terminals : Dialled(t) => Dialled(t)'
  <2>1. PICK h \in StandIns : h[1] = "far" /\ h[2] = s BY BothSides DEF Sides
  <2> QED BY <1>8, <1>14, <2>1
<1> QED BY <1>2, <1>3, <1>4, <1>5, <1>6, <1>7, <1>9, <1>10, <1>11, <1>12, <1>13, <1>14 DEF TalkNext, Behind

-----------------------------------------------------------------------------
\* What is heard

LEMMA EventIs ==
    ASSUME NEW h \in Talkers, NEW k \in {"data", "join", "leave"}, NEW d \in Terminals \cup {NoData}
    PROVE  R!Event(h, k, d) \in R!Events /\ R!Event(h, k, d).kind = k /\ R!Event(h, k, d).data = d
BY DEF R!Event, R!Events, Talkers

LEMMA NotifyKeeps ==
    ASSUME EarsOK, NEW to, NEW e, R!Notify(to, e), \A m \in Talkers : m \in to => e \in Heard(m)
    PROVE  EarsOK'
<1>1. recv' = [m \in Talkers |-> IF m \in to THEN R!Offered(recv[m], e) ELSE recv[m]]
  BY DEF R!Notify, Talkers
<1>2. ASSUME NEW m \in Talkers PROVE recv'[m] \in Seq(Heard(m))
  <2>1. recv[m] \in Seq(Heard(m)) BY DEF EarsOK
  <2>2. CASE m \in to
    <3>1. Append(recv[m], e) \in Seq(Heard(m)) BY <2>1, <2>2, SeqSteps
    <3>2. recv'[m] = recv[m] \/ recv'[m] = Append(recv[m], e) BY <1>1, <2>2 DEF R!Offered
    <3> QED BY <2>1, <3>1, <3>2
  <2>3. CASE m \notin to BY <1>1, <2>1, <2>3
  <2> QED BY <2>2, <2>3
<1> QED BY <1>1, <1>2 DEF EarsOK

LEMMA JoinKeeps == ASSUME EarsOK, NEW h \in Talkers, NEW n, R!Join(h, n) PROVE EarsOK'
<1>1. PICK to, e : R!Notify(to, e) /\ e = R!Event(h, "join", NoData) BY DEF R!Join
<1>2. e \in R!Events /\ e.kind = "join" BY <1>1, EventIs
<1> QED BY <1>1, <1>2, NotifyKeeps DEF Heard

LEMMA LeaveKeeps == ASSUME EarsOK, NEW h \in Talkers, R!Leave(h) PROVE EarsOK'
<1>1. PICK to, e : R!Notify(to, e) /\ e = R!Event(h, "leave", NoData) BY DEF R!Leave
<1>2. e \in R!Events /\ e.kind = "leave" BY <1>1, EventIs
<1> QED BY <1>1, <1>2, NotifyKeeps DEF Heard

LEMMA ReceiveKeeps ==
    ASSUME EarsOK, NEW h \in Talkers, R!Receive(h)
    PROVE  EarsOK' /\ Head(recv[h]) \in Heard(h)
<1>1. recv[h] # <<>> /\ recv' = [recv EXCEPT ![h] = Tail(recv[h])] BY DEF R!Receive
<1>2. Tail(recv[h]) \in Seq(Heard(h)) /\ Head(recv[h]) \in Heard(h) BY <1>1, SeqSteps DEF EarsOK
<1> QED BY <1>1, <1>2 DEF EarsOK

LEMMA SendKeeps ==
    ASSUME EarsOK, NEW h \in Talkers, NEW d \in Terminals, R!Send(h, d),
           \A m \in Talkers : room[m] = room[h] /\ Sid(m) # Sid(h) => d \in Sayings(m)
    PROVE  EarsOK'
<1>1. PICK to, e : R!Notify(to, e) /\ to = R!Listeners(h) /\ e = R!Event(h, "data", d) BY DEF R!Send
<1>2. e \in R!Events /\ e.kind = "data" /\ e.data = d BY <1>1, EventIs
<1>3. \A m \in Talkers : m \in to => room[m] = room[h] /\ Sid(m) # Sid(h)
  BY <1>1 DEF R!Listeners, R!Members, Talkers
<1> QED BY <1>1, <1>2, <1>3, NotifyKeeps DEF Heard

-----------------------------------------------------------------------------
\* What is carried

LEMMA LineChanges ==
    ASSUME LinesOK, NEW s \in Terminals, NEW d \in Sides, NEW q \in Seq(Carried(s, d)), NEW z \in SUBSET Sides,
           conn' = [conn EXCEPT ![s] = [to |-> [conn[s].to EXCEPT ![d] = q], shut |-> z]]
    PROVE  LinesOK'
<1>1. PICK lines \in [Sides -> Seq(Frames)] : lines = conn[s].to BY DEF LinesOK
<1>2. q \in Seq(Frames) BY LargerSeq DEF Carried
<1>3. PICK next \in [Sides -> Seq(Frames)] : next = [lines EXCEPT ![d] = q] BY <1>2
<1>4. PICK c \in [to : [Sides -> Seq(Frames)], shut : SUBSET Sides] : c = [to |-> next, shut |-> z] OBVIOUS
<1>5. conn' = [conn EXCEPT ![s] = c] BY <1>1, <1>3, <1>4
<1>6. \A side \in Sides : next[side] \in Seq(Carried(s, side)) BY <1>1, <1>3 DEF LinesOK
<1>7. c.to = next BY <1>4
<1> QED BY <1>5, <1>6, <1>7 DEF LinesOK

LEMMA CloseKeeps == ASSUME LinesOK, NEW s \in Terminals, NEW d \in Sides, Close(s, d) PROVE LinesOK'
<1>1. conn[s] \in [to : [Sides -> Seq(Frames)], shut : SUBSET Sides] BY DEF LinesOK
<1>2. PICK z \in SUBSET Sides : z = conn[s].shut \cup {d} BY <1>1
<1>3. conn' = [conn EXCEPT ![s] = [to |-> [conn[s].to EXCEPT ![d] = <<>>], shut |-> z]]
  BY <1>2 DEF Close
<1>4. <<>> \in Seq(Carried(s, d)) OBVIOUS
<1> QED BY <1>2, <1>3, <1>4, LineChanges

LEMMA LineMoves ==
    ASSUME LinesOK, NEW s \in Terminals, NEW d \in Sides, NEW q \in Seq(Carried(s, d)),
           conn' = [conn EXCEPT ![s].to[d] = q]
    PROVE  LinesOK'
<1>1. conn[s] \in [to : [Sides -> Seq(Frames)], shut : SUBSET Sides] BY DEF LinesOK
<1>2. PICK z \in SUBSET Sides : z = conn[s].shut BY <1>1
<1>3. conn' = [conn EXCEPT ![s] = [to |-> [conn[s].to EXCEPT ![d] = q], shut |-> z]]
  <2>1. PICK c \in [to : [Sides -> Seq(Frames)], shut : SUBSET Sides] : c = conn[s] BY <1>1
  <2>2. PICK u : u = [c.to EXCEPT ![d] = q] OBVIOUS
  <2>3. [c EXCEPT !.to = u] = [to |-> u, shut |-> z]
    <3>1. z = c.shut BY <1>2, <2>1
    <3>2. [c EXCEPT !.to = u] = [to |-> u, shut |-> c.shut] BY LineRecord
    <3> QED BY <3>1, <3>2
  <2>4. conn' = [conn EXCEPT ![s] = [c EXCEPT !.to = u]] BY <2>1, <2>2
  <2> QED BY <2>1, <2>2, <2>3, <2>4
<1> QED BY <1>3, LineChanges

LEMMA WordsStep ==
    ASSUME TalkInv, TalkNext, ~Crossed'
    PROVE  EarsOK' /\ LinesOK'
<1>0. DialsOK /\ DialsOK' BY DialsStep DEF TalkInv
<1>1. ~Crossed BY DialsStep DEF Crossed, Accepted, Dialled
<1>2. EarsOK /\ LinesOK BY <1>1 DEF TalkInv
<1>3. Terminals \subseteq Talkers /\ StandIns \subseteq Talkers BY DEF Talkers
<1>4. UNCHANGED recv => EarsOK' BY <1>2 DEF EarsOK
<1>5. UNCHANGED conn => LinesOK' BY <1>2 DEF LinesOK
<1>6. ASSUME NEW s \in Terminals, Show(s) PROVE EarsOK' /\ LinesOK'
  BY <1>2, <1>3, <1>5, <1>6, ReceiveKeeps DEF Show, Unbridged
<1>7. ASSUME NEW s \in Terminals, SeeInvitation(s) \/ TakeInvitation(s) \/ InitiateTalk(s) \/ Invite(s)
      PROVE  EarsOK' /\ LinesOK'
  BY <1>4, <1>5, <1>7 DEF SeeInvitation, TakeInvitation, InitiateTalk, Invite, Unbridged, talkRooms
<1>8. ASSUME NEW s \in Terminals, JoinBridged(s) \/ JoinOwnRoom(s) PROVE EarsOK' /\ LinesOK'
  <2>1. R!Join(s, NodeOf[s])
    <3>1. CASE JoinBridged(s) BY <3>1 DEF JoinBridged
    <3>2. CASE JoinOwnRoom(s) BY <3>2 DEF JoinOwnRoom
    <3> QED BY <1>8, <3>1, <3>2
  <2>2. UNCHANGED conn BY <1>8 DEF JoinBridged, JoinOwnRoom, Unbridged
  <2> QED BY <1>2, <1>3, <1>5, <2>1, <2>2, JoinKeeps
<1>9. ASSUME NEW s \in Terminals, StartBridge(s) PROVE EarsOK' /\ LinesOK'
  <2>1. PICK h \in StandIns : h = <<"near", s>> BY BothSides DEF Sides
  <2>2. R!Join(h, NodeOf[s]) /\ UNCHANGED conn BY <1>9, <2>1 DEF StartBridge
  <2> QED BY <1>2, <1>3, <1>5, <2>2, JoinKeeps
<1>10. ASSUME NEW s \in Terminals, JoinStandIn(s) PROVE EarsOK' /\ LinesOK'
  <2>1. PICK h \in StandIns : h = <<"far", s>> BY BothSides DEF Sides
  <2>2. R!Join(h, Across(NodeOf[s])) /\ UNCHANGED conn BY <1>10, <2>1 DEF JoinStandIn
  <2> QED BY <1>2, <1>3, <1>5, <2>2, JoinKeeps
<1>11. ASSUME NEW s \in Terminals, GiveUp(s) \/ Refuse(s) PROVE EarsOK' /\ LinesOK'
  <2>1. UNCHANGED recv BY <1>11 DEF GiveUp, Refuse, talkRooms
  <2>2. PICK d \in Sides : Close(s, d) BY <1>11 DEF GiveUp, Refuse, Sides
  <2> QED BY <1>2, <1>4, <2>1, <2>2, CloseKeeps
<1>12. ASSUME NEW s \in Terminals, Type(s) PROVE EarsOK' /\ LinesOK'
  <2>1. R!Send(s, s) /\ room[s] # Nowhere /\ UNCHANGED conn BY <1>12 DEF Type, R!Send
  <2>2. ASSUME NEW m \in Talkers, room[m] = room[s], Sid(m) # Sid(s) PROVE s \in Sayings(m)
    <3>1. Place(m) = Place(s) /\ Place(s) = NodeOf[s] BY <1>0, <1>3, <2>1, <2>2, Places DEF DialsOK
    <3>2. m # s BY <2>2
    <3> QED BY <3>1, <3>2 DEF Sayings
  <2> QED BY <1>2, <1>3, <1>5, <2>1, <2>2, SendKeeps
<1>13. ASSUME NEW s \in Terminals, Quit(s) PROVE EarsOK' /\ LinesOK'
  <2>1. R!Leave(s) BY <1>13 DEF Quit
  <2>2. UNCHANGED conn BY <1>13 DEF Quit, Unbridged
  <2> QED BY <1>2, <1>3, <1>5, <2>1, <2>2, LeaveKeeps
<1>14. ASSUME NEW s \in Terminals, Cut(s) PROVE EarsOK' /\ LinesOK'
  <2>1. UNCHANGED recv /\ conn' = [conn EXCEPT ![s] = [to |-> [d \in Sides |-> <<>>], shut |-> Sides]]
    BY <1>14 DEF Cut, talkRooms
  <2>2. PICK c : c = [to |-> [d \in Sides |-> <<>>], shut |-> Sides] OBVIOUS
  <2>3. c \in [to : [Sides -> Seq(Frames)], shut : SUBSET Sides] /\ \A d \in Sides : c.to[d] = <<>> BY <2>2
  <2>4. \A d \in Sides : <<>> \in Seq(Carried(s, d)) OBVIOUS
  <2>5. conn' = [conn EXCEPT ![s] = c] BY <2>1, <2>2
  <2> QED BY <1>2, <1>4, <2>1, <2>3, <2>4, <2>5 DEF LinesOK
<1>15. ASSUME NEW h \in StandIns, Forward(h) PROVE EarsOK' /\ LinesOK'
  <2>1. PICK e : e = Head(recv[h]) OBVIOUS
  <2>2. R!Receive(h) BY <1>15 DEF Forward
  <2>3. EarsOK' /\ e \in Heard(h) BY <1>2, <1>3, <2>1, <2>2, ReceiveKeeps
  <2>4. PICK s \in Terminals, d \in Sides : s = h[2] /\ d = OtherSide(h[1]) BY StandInsApart
  <2>5. ASSUME NEW f \in Carried(s, d), Write(h, f) PROVE LinesOK'
    <3>1. conn[s].to[d] \in Seq(Carried(s, d)) BY <1>2 DEF LinesOK
    <3>2. PICK q \in Seq(Carried(s, d)) : q = IF d \in conn[s].shut THEN conn[s].to[d] ELSE Append(conn[s].to[d], f)
      BY <3>1, SeqSteps
    <3>3. conn' = [conn EXCEPT ![s].to[d] = IF d \in conn[s].shut THEN @ ELSE Append(@, f)]
      BY <2>4, <2>5 DEF Write
    <3>4. conn' = [conn EXCEPT ![s].to[d] = q] BY <3>2, <3>3
    <3> QED BY <1>2, <3>4, LineMoves
  <2>6. CASE e.kind = "data" /\ Write(h, Frame("data", e.data))
    <3>1. e.data \in Terminals /\ NodeOf[e.data] = Place(h) BY <2>3, <2>6, StandInsApart DEF Heard, Sayings
    <3>2. Place(<<d, s>>) # Place(h) BY <2>4, Places
    <3>3. PICK f \in Frames : f = Frame("data", e.data) BY <3>1, FrameIs
    <3>4. f.data = e.data BY <3>1, <3>3, FrameIs
    <3>5. f \in Carried(s, d) BY <3>1, <3>2, <3>4 DEF Carried
    <3> QED BY <2>3, <2>5, <2>6, <3>3, <3>5
  <2>7. CASE Write(h, Frame("close", NoData))
    <3>1. PICK f \in Frames : f = Frame("close", NoData) BY FrameIs
    <3>2. f.kind = "close" BY <3>1, FrameIs
    <3>3. f \in Carried(s, d) BY <3>2 DEF Carried
    <3> QED BY <2>3, <2>5, <2>7, <3>1, <3>3
  <2>8. CASE UNCHANGED conn BY <1>5, <2>3, <2>8
  <2> QED BY <1>15, <2>1, <2>3, <2>6, <2>7, <2>8 DEF Forward
<1>16. ASSUME NEW h \in StandIns, SeeReaderDone(h) \/ RemoveInvitation(h) \/ ReaderEnds(h) PROVE EarsOK' /\ LinesOK'
  BY <1>4, <1>5, <1>16 DEF SeeReaderDone, RemoveInvitation, ReaderEnds, talkRooms
<1>17. ASSUME NEW h \in StandIns, LeaveRoom(h) \/ CloseRelay(h) PROVE EarsOK' /\ LinesOK'
  <2>1. CASE LeaveRoom(h)
    <3>1. R!Leave(h) /\ UNCHANGED conn BY <2>1 DEF LeaveRoom
    <3> QED BY <1>2, <1>3, <1>5, <3>1, LeaveKeeps
  <2>2. CASE CloseRelay(h)
    <3>1. Close(h[2], h[1]) /\ UNCHANGED talkRooms BY <2>2 DEF CloseRelay
    <3> QED BY <1>2, <1>4, <3>1, CloseKeeps, StandInsApart DEF talkRooms
  <2> QED BY <1>17, <2>1, <2>2
<1>18. ASSUME NEW h \in StandIns, Inject(h) PROVE EarsOK' /\ LinesOK'
  <2>1. PICK s \in Terminals, d \in Sides : s = h[2] /\ d = h[1] /\ h = <<d, s>> BY StandInsApart, Zenon
  <2>2. PICK q \in Seq(Carried(s, d)) : q = conn[s].to[d] BY <1>2 DEF LinesOK
  <2>3. /\ reader[h] = "reading" /\ q # <<>> /\ Head(q).kind = "data" /\ R!Send(h, Head(q).data)
        /\ conn' = [conn EXCEPT ![s].to[d] = Tail(q)]
    BY <1>18, <2>1, <2>2, Zenon DEF Inject
  <2>4. Tail(q) \in Seq(Carried(s, d)) /\ Head(q) \in Carried(s, d) BY <2>3, SeqSteps
  <2>5. PICK t \in Terminals : t = Head(q).data /\ NodeOf[t] # Place(h) BY <2>1, <2>3, <2>4 DEF Carried
  <2>6. room[h] # Nowhere /\ R!Send(h, t) BY <2>3, <2>5 DEF R!Send
  <2>7. ASSUME NEW m \in Talkers, room[m] = room[h], Sid(m) # Sid(h) PROVE t \in Sayings(m)
    <3>1. Place(m) = Place(h) BY <1>0, <1>3, <2>6, <2>7 DEF DialsOK
    <3>2. CASE m \in Terminals BY <2>5, <3>1, <3>2, Places DEF Sayings
    <3>3. CASE m \in StandIns
      <4>1. Dialled(m[2]) /\ Dialled(h[2]) BY <1>0, <2>3, <2>6, <2>7, <3>3 DEF DialsOK
      <4> QED BY <1>1, <2>7, <3>1, <3>3, <4>1, OneVoice
    <3> QED BY <3>2, <3>3 DEF Talkers
  <2>8. EarsOK' BY <1>2, <1>3, <2>6, <2>7, SendKeeps
  <2> QED BY <1>2, <2>3, <2>4, <2>8, LineMoves
<1> QED BY <1>6, <1>7, <1>8, <1>9, <1>10, <1>11, <1>12, <1>13, <1>14, <1>15, <1>16, <1>17, <1>18 DEF TalkNext, Behind

LEMMA TalkInvariant == TalkSpec => []TalkInv
<1>1. TalkInit => TalkInv
  <2> SUFFICES ASSUME TalkInit PROVE TalkInv OBVIOUS
  <2>1. DialsOK BY DEF TalkInit, DialsOK, R!Init, Talkers
  <2>2. EarsOK
    <3>1. recv = [h \in Talkers |-> <<>>] BY DEF TalkInit, R!Init, Talkers
    <3>2. \A h \in Talkers : <<>> \in Seq(Heard(h)) OBVIOUS
    <3> QED BY <3>1, <3>2 DEF EarsOK
  <2>3. LinesOK
    <3>1. conn = [s \in Terminals |-> [to |-> [d \in Sides |-> <<>>], shut |-> {}]] BY DEF TalkInit
    <3>2. PICK c : c = [to |-> [d \in Sides |-> <<>>], shut |-> {}] OBVIOUS
    <3>3. c \in [to : [Sides -> Seq(Frames)], shut : SUBSET Sides] /\ \A d \in Sides : c.to[d] = <<>> BY <3>2
    <3>4. \A s \in Terminals : \A d \in Sides : <<>> \in Seq(Carried(s, d)) OBVIOUS
    <3>5. DOMAIN conn = Terminals /\ \A s \in Terminals : conn[s] = c BY <3>1, <3>2
    <3> QED BY <3>3, <3>4, <3>5 DEF LinesOK
  <2> QED BY <2>1, <2>2, <2>3 DEF TalkInv
<1>2. TalkInv /\ [TalkNext]_talkVars => TalkInv'
  <2> SUFFICES ASSUME TalkInv, [TalkNext]_talkVars PROVE TalkInv' OBVIOUS
  <2>1. DialsOK' BY DialsStep
  <2>2. CASE TalkNext BY <2>1, <2>2, WordsStep DEF TalkInv
  <2>3. CASE UNCHANGED talkVars
    <3>1. UNCHANGED <<desk, recv, conn>> BY <2>3 DEF talkVars, talkRooms
    <3>2. Crossed' <=> Crossed BY <3>1 DEF Crossed, Accepted
    <3>3. EarsOK => EarsOK' BY <3>1 DEF EarsOK
    <3>4. LinesOK => LinesOK' BY <3>1 DEF LinesOK
    <3> QED BY <2>1, <3>2, <3>3, <3>4 DEF TalkInv
  <2> QED BY <2>2, <2>3
<1> QED BY <1>1, <1>2, PTL DEF TalkSpec

\* Nothing that was typed comes back to the terminal it was typed at, for any
\* number of sessions and of dials by one of the two users.
THEOREM NeverAnEcho == TalkSpec => []NoEcho
<1>1. TalkInv => NoEcho
  <2> SUFFICES ASSUME TalkInv, ~Crossed, NEW s \in Terminals, NEW k \in DOMAIN recv[s], recv[s][k].kind = "data"
               PROVE  recv[s][k].data # s
    BY DEF NoEcho
  <2>1. recv[s] \in Seq(Heard(s)) BY DEF TalkInv, EarsOK, Talkers
  <2>2. recv[s][k] \in Heard(s) BY <2>1, SeqSteps
  <2> QED BY <2>2 DEF Heard, Sayings
<1> QED BY <1>1, TalkInvariant, PTL

-----------------------------------------------------------------------------
\* Who keeps a relay company

IsSeq(q) == q \in Seq({q[k] : k \in DOMAIN q})
HasLeave(q) == \E k \in DOMAIN q : q[k].kind = "leave"

\* Each node has one room that members are in, and its registry holds it.
SeatsOK ==
    /\ registry \in [Nodes -> Nat] /\ made \in [Nodes -> Nat]
    /\ DOMAIN room = Talkers /\ DOMAIN recv = Talkers
    /\ listed \subseteq Talkers /\ listed \cap closed = {}
    /\ \A h \in Talkers : room[h] # Nowhere <=> h \in listed \cup closed
    /\ \A h \in listed : room[h] = <<Place(h), registry[Place(h)]>> /\ registry[Place(h)] # 0
    /\ \A h \in Talkers : IsSeq(recv[h])

\* What a running relay has yet to wait for.  A near one has the dialler with
\* it; a far one the invitation, whoever is answering it, or who has come; and
\* either, when they go, the event that says so.
Company(h) == \E t \in Terminals : t \in listed /\ room[t] = room[h]
Awaited(h) ==
    \/ Place(h) \in invited
    \/ \E t \in Terminals : NodeOf[t] = Place(h) /\ at[t] \in {"answering", "joining"}
Attended(h) ==
    \/ HasLeave(recv[h])
    \/ h[1] = "near" /\ h[2] \in listed /\ room[h[2]] = room[h]
    \/ h[1] = "far" /\ (h \notin robbed => Company(h) \/ Awaited(h))

PostsOK ==
    /\ \A s \in Terminals : s \in listed <=> at[s] \in {"bridging", "talking"}
    /\ \A s \in Terminals : desk[s] = "joined" => <<"far", s>> \in listed /\ relay[<<"far", s>>] = "off"
    /\ \A h \in StandIns : relay[h] = "running" => h \in listed /\ Attended(h)
    /\ \A h \in StandIns : relay[h] = "closed" => h[1] = "far"

BridgeInv == TalkInv /\ SeatsOK /\ PostsOK

\* No channel that a running relay listens to is full: whatever is said in its
\* room reaches it.
Roomy == \A h \in StandIns : relay[h] = "running" => Len(recv[h]) < Cap

LEMMA QueueIs == ASSUME NEW S, NEW q \in Seq(S) PROVE IsSeq(q)
BY DEF IsSeq

LEMMA QueueSteps ==
    ASSUME NEW q, IsSeq(q)
    PROVE  /\ \A e : IsSeq(Append(q, e)) /\ (HasLeave(q) \/ e.kind = "leave" => HasLeave(Append(q, e)))
           /\ q # <<>> => IsSeq(Tail(q)) /\ (HasLeave(q) => Head(q).kind = "leave" \/ HasLeave(Tail(q)))
           /\ q = <<>> => ~HasLeave(q)
<1>1. PICK S : q \in Seq(S) BY DEF IsSeq
<1>2. ASSUME NEW e
      PROVE  IsSeq(Append(q, e)) /\ (HasLeave(q) \/ e.kind = "leave" => HasLeave(Append(q, e)))
  <2>1. PICK T : T = S \cup {e} OBVIOUS
  <2>2. q \in Seq(T) /\ e \in T BY <1>1, <2>1
  <2>3. Append(q, e) \in Seq(T) BY <2>2
  <2>4. /\ DOMAIN Append(q, e) = 1..(Len(q) + 1) /\ DOMAIN q = 1..Len(q) /\ Len(q) \in Nat
        /\ \A k \in 1..Len(q) : Append(q, e)[k] = q[k]
        /\ Append(q, e)[Len(q) + 1] = e
    BY <2>2
  <2>5. HasLeave(q) => HasLeave(Append(q, e)) BY <2>4 DEF HasLeave
  <2>6. e.kind = "leave" => HasLeave(Append(q, e)) BY <2>4 DEF HasLeave
  <2> QED BY <2>3, <2>5, <2>6, QueueIs
<1>3. ASSUME q # <<>>
      PROVE  IsSeq(Tail(q)) /\ (HasLeave(q) => Head(q).kind = "leave" \/ HasLeave(Tail(q)))
  <2>1. Tail(q) \in Seq(S) BY <1>1, <1>3
  <2>2. /\ Len(q) \in Nat \ {0} /\ DOMAIN q = 1..Len(q) /\ Head(q) = q[1]
        /\ DOMAIN Tail(q) = 1..(Len(q) - 1)
        /\ \A k \in 1..(Len(q) - 1) : Tail(q)[k] = q[k + 1]
    BY <1>1, <1>3
  <2>3. ASSUME NEW k \in DOMAIN q, q[k].kind = "leave", k # 1 PROVE HasLeave(Tail(q))
    <3>1. k - 1 \in 1..(Len(q) - 1) /\ (k - 1) + 1 = k BY <2>2, <2>3
    <3>2. Tail(q)[k - 1] = q[k] BY <2>2, <3>1
    <3> QED BY <2>2, <2>3, <3>1, <3>2 DEF HasLeave
  <2>4. HasLeave(q) => Head(q).kind = "leave" \/ HasLeave(Tail(q)) BY <2>2, <2>3 DEF HasLeave
  <2> QED BY <2>1, <2>4, QueueIs
<1>4. q = <<>> => ~HasLeave(q) BY DEF HasLeave
<1> QED BY <1>2, <1>3, <1>4

\* What is said in a room.
LEMMA Said ==
    ASSUME SeatsOK, NEW to, NEW e, R!Notify(to, e)
    PROVE  /\ DOMAIN recv' = Talkers
           /\ \A h \in Talkers : /\ IsSeq(recv'[h])
                                 /\ HasLeave(recv[h]) => HasLeave(recv'[h])
                                 /\ h \in to /\ e.kind = "leave" /\ Len(recv[h]) < Cap => HasLeave(recv'[h])
<1>1. recv' = [m \in Talkers |-> IF m \in to THEN R!Offered(recv[m], e) ELSE recv[m]]
  BY DEF R!Notify, Talkers
<1>2. ASSUME NEW h \in Talkers
      PROVE  /\ IsSeq(recv'[h])
             /\ HasLeave(recv[h]) => HasLeave(recv'[h])
             /\ h \in to /\ e.kind = "leave" /\ Len(recv[h]) < Cap => HasLeave(recv'[h])
  <2>1. IsSeq(recv[h]) BY DEF SeatsOK
  <2>2. recv'[h] = IF h \in to THEN IF Len(recv[h]) < Cap THEN Append(recv[h], e) ELSE recv[h] ELSE recv[h]
    BY <1>1 DEF R!Offered
  <2> QED BY <2>1, <2>2, QueueSteps
<1> QED BY <1>1, <1>2

\* What is taken from a channel.
LEMMA Heeded ==
    ASSUME SeatsOK, NEW h \in Talkers, R!Receive(h)
    PROVE  /\ SeatsOK' /\ UNCHANGED <<room, listed>>
           /\ \A g \in Talkers \ {h} : recv'[g] = recv[g]
           /\ HasLeave(recv[h]) => Head(recv[h]).kind = "leave" \/ HasLeave(recv'[h])
<1>1. recv[h] # <<>> /\ recv' = [recv EXCEPT ![h] = Tail(recv[h])] /\ UNCHANGED <<registry, made, room, listed, closed>>
  BY DEF R!Receive
<1>2. IsSeq(recv[h]) BY DEF SeatsOK
<1>3. recv'[h] = Tail(recv[h]) /\ DOMAIN recv' = Talkers /\ \A g \in Talkers \ {h} : recv'[g] = recv[g]
  BY <1>1 DEF SeatsOK
<1>4. IsSeq(recv'[h]) /\ (HasLeave(recv[h]) => Head(recv[h]).kind = "leave" \/ HasLeave(recv'[h]))
  BY <1>1, <1>2, <1>3, QueueSteps
<1>5. \A g \in Talkers : IsSeq(recv'[g]) BY <1>3, <1>4 DEF SeatsOK
<1> QED BY <1>1, <1>3, <1>4, <1>5 DEF SeatsOK

\* Whoever joins comes to those who are there.
LEMMA Seated ==
    ASSUME SeatsOK, NEW h \in Talkers, R!Join(h, Place(h))
    PROVE  /\ SeatsOK' /\ listed' = listed \cup {h} /\ h \notin listed
           /\ \A m \in Talkers \ {h} : room'[m] = room[m]
           /\ \A m \in listed : Place(m) = Place(h) => room'[h] = room[m]
           /\ \A m \in Talkers : HasLeave(recv[m]) => HasLeave(recv'[m])
<1> DEFINE n == Place(h)  to == R!Members(R!Target(n))
<1>1. n \in Nodes BY Places
<1>2. PICK k \in Nat \ {0} : R!Target(n) = <<n, k>> /\ (registry[n] # 0 => k = registry[n])
  <2>1. CASE registry[n] = 0
    <3>1. made[n] + 1 \in Nat \ {0} BY <1>1 DEF SeatsOK
    <3> QED BY <2>1, <3>1 DEF R!Target
  <2>2. CASE registry[n] # 0
    <3>1. registry[n] \in Nat \ {0} BY <1>1, <2>2 DEF SeatsOK
    <3> QED BY <2>2, <3>1 DEF R!Target
  <2> QED BY <2>1, <2>2
<1>3. /\ room[h] = Nowhere /\ registry' = [registry EXCEPT ![n] = k] /\ made' = [made EXCEPT ![n] = k]
      /\ room' = [room EXCEPT ![h] = <<n, k>>] /\ listed' = listed \cup {h} /\ closed' = closed
      /\ R!Notify(to, R!Event(h, "join", NoData))
  BY <1>2 DEF R!Join
<1> HIDE DEF to
<1>4. /\ DOMAIN recv' = Talkers
      /\ \A m \in Talkers : IsSeq(recv'[m]) /\ (HasLeave(recv[m]) => HasLeave(recv'[m]))
  BY <1>3, Said
<1>5. h \notin listed /\ h \notin closed BY <1>3 DEF SeatsOK
<1>6. /\ DOMAIN room' = Talkers /\ room'[h] = <<n, k>> /\ \A m \in Talkers \ {h} : room'[m] = room[m]
      /\ registry' \in [Nodes -> Nat] /\ made' \in [Nodes -> Nat]
      /\ registry'[n] = k /\ \A m \in Nodes \ {n} : registry'[m] = registry[m]
  BY <1>1, <1>3 DEF SeatsOK
<1>7. <<n, k>> # Nowhere
  <2>1. <<n, k>> \in Nodes \X Nat BY <1>1
  <2> QED BY <2>1
<1>8. \A m \in listed : Place(m) = n => registry[n] = k /\ room[m] = <<n, k>>
  BY <1>2 DEF SeatsOK
<1>9. \A m \in listed' : room'[m] = <<Place(m), registry'[Place(m)]>> /\ registry'[Place(m)] # 0
  <2>1. ASSUME NEW m \in listed, m # h
        PROVE  room'[m] = <<Place(m), registry'[Place(m)]>> /\ registry'[Place(m)] # 0
    <3>1. m \in Talkers /\ Place(m) \in Nodes BY Places DEF SeatsOK
    <3>2. room'[m] = room[m] /\ room[m] = <<Place(m), registry[Place(m)]>> /\ registry[Place(m)] # 0
      BY <1>6, <2>1, <3>1 DEF SeatsOK
    <3> QED BY <1>6, <1>8, <3>1, <3>2
  <2>2. room'[h] = <<n, registry'[n]>> /\ registry'[n] # 0 BY <1>6
  <2> QED BY <1>3, <2>1, <2>2
<1>10. \A m \in Talkers : room'[m] # Nowhere <=> m \in listed' \cup closed'
  BY <1>3, <1>6, <1>7 DEF SeatsOK
<1>11. listed' \subseteq Talkers /\ listed' \cap closed' = {} BY <1>3, <1>5 DEF SeatsOK
<1>12. SeatsOK' BY <1>4, <1>6, <1>9, <1>10, <1>11 DEF SeatsOK
<1>13. \A m \in listed : Place(m) = Place(h) => room'[h] = room[m] BY <1>6, <1>8
<1> QED BY <1>3, <1>4, <1>5, <1>6, <1>12, <1>13

\* Whoever leaves is missed by those with a place in their channel.
LEMMA Gone ==
    ASSUME SeatsOK, NEW h \in Talkers, R!Leave(h)
    PROVE  /\ SeatsOK' /\ h \in listed /\ listed' = listed \ {h} /\ room' = room
           /\ \A m \in Talkers : HasLeave(recv[m]) => HasLeave(recv'[m])
           /\ \A m \in listed \ {h} : room[m] = room[h] /\ Len(recv[m]) < Cap => HasLeave(recv'[m])
<1> DEFINE to == R!Members(room[h]) \ {h}  e == R!Event(h, "leave", NoData)
<1>1. /\ room[h] # Nowhere /\ h \notin closed /\ closed' = closed \cup {h} /\ listed' = listed \ {h}
      /\ R!Notify(to, e) /\ UNCHANGED <<made, room>>
      /\ registry' = IF to = {} THEN [registry EXCEPT ![room[h][1]] = 0] ELSE registry
  BY DEF R!Leave
<1>2. h \in listed BY <1>1 DEF SeatsOK
<1>3. room[h] = <<Place(h), registry[Place(h)]>> /\ room[h][1] = Place(h) BY <1>2 DEF SeatsOK
<1>4. e.kind = "leave" BY DEF R!Event
<1>5. \A m : m \in to <=> m \in listed /\ m # h /\ room[m] = room[h] BY DEF R!Members
<1> HIDE DEF to, e
<1>6. /\ DOMAIN recv' = Talkers
      /\ \A m \in Talkers : /\ IsSeq(recv'[m]) /\ (HasLeave(recv[m]) => HasLeave(recv'[m]))
                            /\ m \in to /\ e.kind = "leave" /\ Len(recv[m]) < Cap => HasLeave(recv'[m])
  BY <1>1, Said
<1>7. ASSUME NEW m \in listed \ {h}
      PROVE  room[m] = <<Place(m), registry'[Place(m)]>> /\ registry'[Place(m)] # 0
  <2>1. room[m] = <<Place(m), registry[Place(m)]>> /\ registry[Place(m)] # 0 /\ Place(m) \in Nodes
    BY <1>7, Places DEF SeatsOK
  <2>2. CASE Place(m) = Place(h)
    <3>1. room[m] = room[h] BY <1>3, <2>1, <2>2
    <3>2. to # {} BY <1>5, <1>7, <3>1
    <3> QED BY <1>1, <2>1, <3>2
  <2>3. CASE Place(m) # Place(h)
    <3>1. registry'[Place(m)] = registry[Place(m)] BY <1>1, <1>3, <2>1, <2>3 DEF SeatsOK
    <3> QED BY <2>1, <3>1
  <2> QED BY <2>2, <2>3
<1>8. registry' \in [Nodes -> Nat] /\ made' \in [Nodes -> Nat] BY <1>1 DEF SeatsOK
<1>9. \A m \in Talkers : room'[m] # Nowhere <=> m \in listed' \cup closed' BY <1>1, <1>2 DEF SeatsOK
<1>10. listed' \subseteq Talkers /\ listed' \cap closed' = {} /\ DOMAIN room' = Talkers BY <1>1 DEF SeatsOK
<1>11. \A m \in listed' : room'[m] = <<Place(m), registry'[Place(m)]>> /\ registry'[Place(m)] # 0
  BY <1>1, <1>7
<1>12. SeatsOK' BY <1>6, <1>8, <1>9, <1>10, <1>11 DEF SeatsOK
<1>13. ASSUME NEW m \in listed \ {h}, room[m] = room[h], Len(recv[m]) < Cap PROVE HasLeave(recv'[m])
  <2>1. m \in Talkers BY <1>13 DEF SeatsOK
  <2> QED BY <1>4, <1>5, <1>6, <1>13, <2>1
<1> QED BY <1>1, <1>2, <1>6, <1>12, <1>13

\* A step that lets nobody of its room go unheard leaves the relay attended.
Minded(h) ==
    /\ room'[h] = room[h] /\ (HasLeave(recv[h]) => HasLeave(recv'[h]))
    /\ \A t \in Terminals : t \in listed /\ room[t] = room[h] =>
           HasLeave(recv'[h]) \/ (t \in listed' /\ room'[t] = room[t])
    /\ h[1] = "far" /\ h \notin robbed' /\ Awaited(h) => Company(h)' \/ Awaited(h)'

LEMMA StillAttended ==
    ASSUME PostsOK, robbed \subseteq robbed',
           NEW h \in StandIns, relay[h] = "running", Minded(h)
    PROVE  Attended(h)'
<1>1. Attended(h) /\ h[2] \in Terminals /\ h[1] \in Sides BY StandInsApart DEF PostsOK
<1>2. CASE HasLeave(recv'[h]) BY <1>2 DEF Attended
<1>3. CASE ~HasLeave(recv'[h]) /\ h[1] = "near"
  <2>1. ~HasLeave(recv[h]) BY <1>3 DEF Minded
  <2>2. h[2] \in listed /\ room[h[2]] = room[h] BY <1>1, <1>3, <2>1 DEF Attended
  <2>3. h[2] \in listed' /\ room'[h[2]] = room'[h] BY <1>1, <1>3, <2>2 DEF Minded
  <2> QED BY <1>3, <2>3 DEF Attended
<1>4. CASE ~HasLeave(recv'[h]) /\ h[1] = "far"
  <2> SUFFICES ASSUME h \notin robbed' PROVE Company(h)' \/ Awaited(h)' BY <1>4 DEF Attended
  <2>1. h \notin robbed OBVIOUS
  <2>2. ~HasLeave(recv[h]) BY <1>4 DEF Minded
  <2>3. Company(h) \/ Awaited(h) BY <1>1, <1>4, <2>1, <2>2 DEF Attended
  <2>4. Company(h) => Company(h)' BY <1>4 DEF Company, Minded
  <2>5. Awaited(h) => Company(h)' \/ Awaited(h)' BY <1>4 DEF Minded
  <2> QED BY <2>3, <2>4, <2>5
<1> QED BY <1>1, <1>2, <1>3, <1>4 DEF Sides

\* Steps that leave who is in which room alone, and start no relay.
LEMMA StillPosted ==
    ASSUME DialsOK, PostsOK, robbed \subseteq robbed', UNCHANGED <<room, listed, invited>>,
           \A s \in Terminals : \/ at'[s] = at[s]
                                \/ at[s] = "prompt" /\ at'[s] \in {"answering", "ringing"}
                                \/ at[s] = "ringing" /\ at'[s] = "done",
           \A s \in Terminals : desk'[s] = "joined" => desk[s] = "joined",
           \A h \in StandIns : \/ relay'[h] = relay[h]
                               \/ /\ relay[h] # "off" /\ relay'[h] # "running"
                                  /\ relay'[h] = "closed" => h[1] = "far",
           \A h \in StandIns : relay'[h] = "running" /\ HasLeave(recv[h]) => HasLeave(recv'[h])
    PROVE  PostsOK'
<1>1. \A s \in Terminals : s \in listed' <=> at'[s] \in {"bridging", "talking"} BY DEF PostsOK
<1>2. ASSUME NEW s \in Terminals, desk'[s] = "joined"
      PROVE  <<"far", s>> \in listed' /\ relay'[<<"far", s>>] = "off"
  <2>1. <<"far", s>> \in listed /\ relay[<<"far", s>>] = "off" BY <1>2 DEF PostsOK
  <2>2. <<"far", s>> \in StandIns BY DEF StandIns, Sides
  <2> QED BY <2>1, <2>2
<1>3. ASSUME NEW h \in StandIns, relay'[h] = "running" PROVE h \in listed' /\ Attended(h)'
  <2>1. relay[h] = "running" /\ h \in listed BY <1>3 DEF PostsOK
  <2>2. Awaited(h) => Awaited(h)' BY DEF Awaited
  <2>3. HasLeave(recv[h]) => HasLeave(recv'[h]) BY <1>3
  <2>4. room'[h] = room[h] /\ \A t \in Terminals : t \in listed => t \in listed' /\ room'[t] = room[t] OBVIOUS
  <2>5. Minded(h) BY <2>2, <2>3, <2>4 DEF Minded
  <2>6. Attended(h)' BY <2>1, <2>5, StillAttended
  <2> QED BY <2>1, <2>6
<1>4. \A h \in StandIns : relay'[h] = "closed" => h[1] = "far" BY DEF PostsOK
<1> QED BY <1>1, <1>2, <1>3, <1>4 DEF PostsOK

LEMMA FarOf == ASSUME NEW s \in Terminals PROVE <<"far", s>> \in StandIns /\ <<"near", s>> \in StandIns
BY DEF StandIns, Sides

LEMMA RobbedStay == ASSUME TalkNext PROVE robbed \subseteq robbed'
<1>1. robbed' = robbed \/ \E h \in StandIns : RemoveInvitation(h)
  BY DEF TalkNext, SeeInvitation, TakeInvitation, JoinBridged, InitiateTalk, GiveUp, JoinOwnRoom, StartBridge,
         Type, Show, Quit, Refuse, JoinStandIn, Invite, Cut, Forward, SeeReaderDone, LeaveRoom, CloseRelay,
         Inject, ReaderEnds, Unbridged
<1> QED BY <1>1 DEF RemoveInvitation

\* Nothing but a full channel can leave a relay behind.
LEMMA PostsStep ==
    ASSUME BridgeInv, Roomy, TalkNext
    PROVE  SeatsOK' /\ PostsOK'
<1>0. /\ DialsOK /\ SeatsOK /\ PostsOK /\ robbed \subseteq robbed'
  BY RobbedStay DEF BridgeInv, TalkInv
<1> DEFINE Same == SeatsOK' /\ UNCHANGED <<room, listed>>
<1>1. ASSUME UNCHANGED talkRooms PROVE Same /\ recv' = recv BY <1>0, <1>1 DEF talkRooms, SeatsOK
<1>2. Terminals \subseteq Talkers /\ StandIns \subseteq Talkers /\ \A h \in StandIns : h \notin Terminals
  BY StandInsApart DEF Talkers
<1>3. DOMAIN at = Terminals /\ DOMAIN desk = Terminals /\ DOMAIN relay = StandIns BY <1>0 DEF DialsOK
<1>4. ASSUME NEW h \in Talkers, NEW d, R!Send(h, d)
      PROVE  Same /\ \A g \in Talkers : HasLeave(recv[g]) => HasLeave(recv'[g])
  <2>1. PICK to, e : R!Notify(to, e) BY <1>4 DEF R!Send
  <2>2. UNCHANGED <<registry, made, room, listed, closed>> BY <1>4 DEF R!Send
  <2> QED BY <1>0, <2>1, <2>2, Said DEF SeatsOK
<1> HIDE DEF Same
\* The steps that move nobody.
<1>5. ASSUME NEW s \in Terminals, SeeInvitation(s) \/ InitiateTalk(s) \/ GiveUp(s) \/ Refuse(s) \/ Cut(s)
      PROVE  SeatsOK' /\ PostsOK'
  <2>1. UNCHANGED talkRooms /\ UNCHANGED <<invited, relay>>
    BY <1>5 DEF SeeInvitation, InitiateTalk, GiveUp, Refuse, Cut, Unbridged
  <2>2. \/ at' = at
        \/ at[s] = "prompt" /\ at' = [at EXCEPT ![s] = "answering"]
        \/ at[s] = "prompt" /\ at' = [at EXCEPT ![s] = "ringing"]
        \/ at[s] = "ringing" /\ at' = [at EXCEPT ![s] = "done"]
    BY <1>5 DEF SeeInvitation, InitiateTalk, GiveUp, Refuse, Cut
  <2>3. desk' = desk \/ desk' = [desk EXCEPT ![s] = "asked"] \/ desk' = [desk EXCEPT ![s] = "refused"]
    BY <1>5 DEF SeeInvitation, InitiateTalk, GiveUp, Refuse, Cut, Unbridged
  <2>4. Same /\ recv' = recv BY <1>1, <2>1
  <2>5. \A t \in Terminals : \/ at'[t] = at[t]
                             \/ at[t] = "prompt" /\ at'[t] \in {"answering", "ringing"}
                             \/ at[t] = "ringing" /\ at'[t] = "done"
    BY <1>3, <2>2
  <2>6. \A t \in Terminals : desk'[t] = "joined" => desk[t] = "joined" BY <1>3, <2>3
  <2> QED BY <1>0, <2>1, <2>4, <2>5, <2>6, StillPosted DEF Same
<1>6. ASSUME NEW s \in Terminals, Type(s) PROVE SeatsOK' /\ PostsOK'
  <2>1. R!Send(s, s) /\ UNCHANGED <<invited, at, desk, relay>> BY <1>6 DEF Type
  <2>2. Same /\ \A g \in Talkers : HasLeave(recv[g]) => HasLeave(recv'[g]) BY <1>2, <1>4, <2>1
  <2> QED BY <1>0, <1>2, <2>1, <2>2, StillPosted DEF Same
<1>7. ASSUME NEW h \in StandIns, Inject(h) PROVE SeatsOK' /\ PostsOK'
  <2>1. PICK d : R!Send(h, d) BY <1>7 DEF Inject
  <2>2. UNCHANGED <<invited, at, desk, relay>> BY <1>7 DEF Inject
  <2>3. Same /\ \A g \in Talkers : HasLeave(recv[g]) => HasLeave(recv'[g]) BY <1>2, <1>4, <2>1
  <2> QED BY <1>0, <1>2, <2>2, <2>3, StillPosted DEF Same
<1>8. ASSUME NEW s \in Terminals, Show(s) PROVE SeatsOK' /\ PostsOK'
  <2>1. R!Receive(s) /\ UNCHANGED <<invited, at, desk, relay>> BY <1>8 DEF Show, Unbridged
  <2>2. SeatsOK' /\ UNCHANGED <<room, listed>> /\ \A g \in Talkers \ {s} : recv'[g] = recv[g]
    BY <1>0, <1>2, <2>1, Heeded
  <2>3. \A g \in StandIns : recv'[g] = recv[g] BY <1>2, <2>2
  <2> QED BY <1>0, <2>1, <2>2, <2>3, StillPosted
<1>9. ASSUME NEW h \in StandIns, SeeReaderDone(h) \/ CloseRelay(h) \/ ReaderEnds(h) PROVE SeatsOK' /\ PostsOK'
  <2>1. /\ UNCHANGED talkRooms /\ UNCHANGED <<invited, at, desk>>
        /\ \/ relay' = relay
           \/ relay[h] = "running" /\ relay' = [relay EXCEPT ![h] = "leaving"]
           \/ relay[h] = "left" /\ h[1] = "far" /\ relay' = [relay EXCEPT ![h] = "closed"]
           \/ relay[h] = "left" /\ relay' = [relay EXCEPT ![h] = "ended"]
    BY <1>9 DEF SeeReaderDone, CloseRelay, ReaderEnds
  <2>2. Same /\ recv' = recv BY <1>1, <2>1
  <2>3. \A g \in StandIns : \/ relay'[g] = relay[g]
                            \/ /\ relay[g] # "off" /\ relay'[g] # "running"
                               /\ relay'[g] = "closed" => g[1] = "far"
    BY <1>3, <2>1
  <2> QED BY <1>0, <2>1, <2>2, <2>3, StillPosted DEF Same
\* A relay that takes a leave event runs no longer.
<1>10. ASSUME NEW h \in StandIns, Forward(h) PROVE SeatsOK' /\ PostsOK'
  <2>1. /\ R!Receive(h) /\ UNCHANGED <<invited, at, desk>> /\ relay[h] = "running"
        /\ relay' = relay \/ relay' = [relay EXCEPT ![h] = "leaving"]
        /\ Head(recv[h]).kind = "leave" => relay' = [relay EXCEPT ![h] = "leaving"]
    BY <1>10 DEF Forward, EndsTheTalk
  <2>2. /\ SeatsOK' /\ UNCHANGED <<room, listed>> /\ \A g \in Talkers \ {h} : recv'[g] = recv[g]
        /\ HasLeave(recv[h]) => Head(recv[h]).kind = "leave" \/ HasLeave(recv'[h])
    BY <1>0, <1>2, <2>1, Heeded
  <2>3. \A g \in StandIns : relay'[g] = relay[g] \/ (relay[g] = "running" /\ relay'[g] = "leaving")
    BY <1>3, <2>1
  <2>4. ASSUME NEW g \in StandIns, relay'[g] = "running", HasLeave(recv[g]) PROVE HasLeave(recv'[g])
    <3>1. CASE g = h BY <1>3, <2>1, <2>2, <2>4, <3>1
    <3>2. CASE g # h BY <1>2, <2>2, <2>4, <3>2
    <3> QED BY <3>1, <3>2
  <2> QED BY <1>0, <2>1, <2>2, <2>3, <2>4, StillPosted
\* The invitation goes, and whoever took it is on the way.
<1>11. ASSUME NEW s \in Terminals, TakeInvitation(s) PROVE SeatsOK' /\ PostsOK'
  <2>1. /\ at[s] = "answering" /\ at' = [at EXCEPT ![s] = "joining"] /\ invited' = invited \ {NodeOf[s]}
        /\ UNCHANGED <<desk, relay>> /\ UNCHANGED talkRooms
    BY <1>11 DEF TakeInvitation
  <2>2. SeatsOK' /\ UNCHANGED <<room, listed, recv>> BY <1>1, <2>1 DEF Same
  <2>3. at'[s] = "joining" /\ \A t \in Terminals \ {s} : at'[t] = at[t] BY <1>3, <2>1
  <2>4. \A t \in Terminals : t \in listed' <=> at'[t] \in {"bridging", "talking"}
    BY <1>0, <2>1, <2>2, <2>3 DEF PostsOK
  <2>5. ASSUME NEW h \in StandIns, relay'[h] = "running" PROVE h \in listed' /\ Attended(h)'
    <3>1. relay[h] = "running" /\ h \in listed BY <1>0, <2>1, <2>5 DEF PostsOK
    <3>2. Awaited(h) => Awaited(h)'
      <4>1. CASE Place(h) = NodeOf[s] BY <2>3, <4>1 DEF Awaited
      <4>2. CASE Place(h) # NodeOf[s]
        <5>1. Place(h) \in invited => Place(h) \in invited' BY <2>1, <4>2
        <5>2. \A t \in Terminals : at[t] \in {"answering", "joining"} => at'[t] \in {"answering", "joining"}
          BY <2>3
        <5> QED BY <5>1, <5>2 DEF Awaited
      <4> QED BY <4>1, <4>2
    <3>3. Minded(h) BY <1>0, <2>2, <3>1, <3>2 DEF Minded
    <3>4. Attended(h)' BY <1>0, <3>1, <3>3, StillAttended
    <3> QED BY <2>2, <3>1, <3>4
  <2> QED BY <1>0, <2>1, <2>2, <2>4, <2>5 DEF PostsOK
\* Whoever answers comes to the room the relay is in.
<1>12. ASSUME NEW s \in Terminals, JoinBridged(s) \/ JoinOwnRoom(s) PROVE SeatsOK' /\ PostsOK'
  <2>1. /\ R!Join(s, NodeOf[s]) /\ UNCHANGED <<invited, desk, relay>>
        /\ \/ at[s] = "joining" /\ at' = [at EXCEPT ![s] = "talking"]
           \/ at[s] = "ringing" /\ at' = [at EXCEPT ![s] = "bridging"]
    BY <1>12 DEF JoinBridged, JoinOwnRoom, Unbridged
  <2>2. s \in Talkers /\ Place(s) = NodeOf[s] BY <1>2, Places
  <2>3. /\ SeatsOK' /\ listed' = listed \cup {s}
        /\ \A m \in Talkers \ {s} : room'[m] = room[m]
        /\ \A m \in listed : Place(m) = NodeOf[s] => room'[s] = room[m]
        /\ \A m \in Talkers : HasLeave(recv[m]) => HasLeave(recv'[m])
        /\ s \notin listed
    BY <1>0, <2>1, <2>2, Seated
  <2>4. at'[s] \in {"talking", "bridging"} /\ \A t \in Terminals \ {s} : at'[t] = at[t] BY <1>3, <2>1
  <2>5. \A t \in Terminals : t \in listed' <=> at'[t] \in {"bridging", "talking"}
    BY <1>0, <2>3, <2>4 DEF PostsOK
  <2>6. ASSUME NEW h \in StandIns, relay'[h] = "running" PROVE h \in listed' /\ Attended(h)'
    <3>1. relay[h] = "running" /\ h \in listed /\ h # s /\ h \in Talkers
      BY <1>0, <1>2, <2>1, <2>6 DEF PostsOK
    <3>2. room'[h] = room[h] BY <2>3, <3>1
    <3>3. Awaited(h) => Company(h)' \/ Awaited(h)'
      <4>1. CASE Place(h) = NodeOf[s]
        <5>1. room'[s] = room'[h] /\ s \in listed' BY <2>3, <3>1, <3>2, <4>1
        <5> QED BY <5>1 DEF Company
      <4>2. CASE Place(h) # NodeOf[s] BY <2>1, <2>4, <4>2 DEF Awaited
      <4> QED BY <4>1, <4>2
    <3>4. \A t \in Terminals : t \in listed => t \in listed' /\ room'[t] = room[t]
      <4>1. \A t \in Terminals : t \in listed => t \in Talkers \ {s} BY <1>2, <2>3
      <4> QED BY <2>3, <4>1
    <3>5. Minded(h) BY <1>0, <2>3, <3>1, <3>2, <3>3, <3>4 DEF Minded
    <3>6. Attended(h)' BY <1>0, <3>1, <3>5, StillAttended
    <3> QED BY <2>3, <3>1, <3>6
  <2>7. \A t \in Terminals : desk'[t] = "joined" => <<"far", t>> \in listed' /\ relay'[<<"far", t>>] = "off"
    BY <1>0, <2>1, <2>3 DEF PostsOK
  <2> QED BY <1>0, <2>1, <2>3, <2>5, <2>6, <2>7 DEF PostsOK
\* A stand-in comes; the dialler's is where the dialler is.
<1>13. ASSUME NEW s \in Terminals, NEW g \in StandIns, NEW d \in Sides, g = <<d, s>>, R!Join(g, Place(g))
       PROVE  /\ SeatsOK' /\ listed' = listed \cup {g}
              /\ \A t \in Terminals : (t \in listed' <=> t \in listed) /\ room'[t] = room[t]
              /\ \A t \in Terminals : t \in listed /\ NodeOf[t] = Place(g) => room'[g] = room[t]
              /\ \A h \in StandIns : relay[h] = "running" /\ invited \subseteq invited'
                    /\ (\A t \in Terminals : at[t] \in {"answering", "joining"} => at'[t] = at[t])
                    => h \in listed' /\ Attended(h)'
              /\ \A h \in StandIns : relay[h] = "running" => room'[h] = room[h]
  <2>1. /\ SeatsOK' /\ listed' = listed \cup {g} /\ g \notin listed
        /\ \A m \in Talkers \ {g} : room'[m] = room[m]
        /\ \A m \in listed : Place(m) = Place(g) => room'[g] = room[m]
        /\ \A m \in Talkers : HasLeave(recv[m]) => HasLeave(recv'[m])
    BY <1>0, <1>2, <1>13, Seated
  <2>2. \A t \in Terminals : (t \in listed' <=> t \in listed) /\ room'[t] = room[t] BY <1>2, <2>1
  <2>3. \A t \in Terminals : t \in listed /\ NodeOf[t] = Place(g) => room'[g] = room[t] BY <2>1, Places
  <2>4. \A h \in StandIns : relay[h] = "running" => h \in listed /\ room'[h] = room[h]
    BY <1>0, <1>2, <2>1 DEF PostsOK
  <2>5. ASSUME NEW h \in StandIns, relay[h] = "running", invited \subseteq invited',
               \A t \in Terminals : at[t] \in {"answering", "joining"} => at'[t] = at[t]
        PROVE  h \in listed' /\ Attended(h)'
    <3>1. Awaited(h) => Awaited(h)' BY <2>5 DEF Awaited
    <3>2. HasLeave(recv[h]) => HasLeave(recv'[h]) BY <1>2, <2>1
    <3>3. Minded(h) BY <1>0, <2>2, <2>4, <2>5, <3>1, <3>2 DEF Minded
    <3>4. Attended(h)' BY <1>0, <2>5, <3>3, StillAttended
    <3> QED BY <2>1, <2>4, <2>5, <3>4
  <2> QED BY <2>1, <2>2, <2>3, <2>4, <2>5
<1>14. ASSUME NEW s \in Terminals, StartBridge(s) PROVE SeatsOK' /\ PostsOK'
  <2>1. PICK g \in StandIns : g = <<"near", s>> /\ g[1] = "near" /\ g[2] = s BY BothSides DEF Sides
  <2>2. Place(g) = NodeOf[s] BY <2>1, Places
  <2>3. /\ at[s] = "bridging" /\ R!Join(g, Place(g)) /\ at' = [at EXCEPT ![s] = "talking"]
        /\ relay' = [relay EXCEPT ![g] = "running"] /\ UNCHANGED <<invited, desk>>
    BY <1>14, <2>1, <2>2 DEF StartBridge, Bridge
  <2>4. s \in listed BY <1>0, <2>3 DEF PostsOK
  <2>5. /\ relay'[g] = "running" /\ \A h \in StandIns \ {g} : relay'[h] = relay[h]
        /\ at'[s] = "talking" /\ \A t \in Terminals \ {s} : at'[t] = at[t]
    BY <1>3, <2>3
  <2>6. /\ SeatsOK' /\ listed' = listed \cup {g}
        /\ \A t \in Terminals : (t \in listed' <=> t \in listed) /\ room'[t] = room[t]
        /\ \A t \in Terminals : t \in listed /\ NodeOf[t] = Place(g) => room'[g] = room[t]
        /\ \A h \in StandIns : relay[h] = "running" => h \in listed' /\ Attended(h)'
    BY <1>13, <2>1, <2>3, <2>5 DEF Sides
  <2>7. Attended(g)' BY <2>1, <2>2, <2>4, <2>6 DEF Attended
  <2>8. \A h \in StandIns : relay'[h] = "running" => h \in listed' /\ Attended(h)' BY <2>5, <2>6, <2>7
  <2>9. ASSUME NEW t \in Terminals, desk'[t] = "joined"
        PROVE  <<"far", t>> \in listed' /\ relay'[<<"far", t>>] = "off"
    <3>1. <<"far", t>> \in listed /\ relay[<<"far", t>>] = "off" BY <1>0, <2>3, <2>9 DEF PostsOK
    <3>2. <<"far", t>> \in StandIns \ {g} BY <2>1, FarOf
    <3> QED BY <2>5, <2>6, <3>1, <3>2
  <2>10. \A t \in Terminals : t \in listed' <=> at'[t] \in {"bridging", "talking"}
    BY <1>0, <2>4, <2>5, <2>6 DEF PostsOK
  <2>11. \A h \in StandIns : relay'[h] = "closed" => h[1] = "far" BY <1>0, <2>5 DEF PostsOK
  <2> QED BY <2>6, <2>8, <2>9, <2>10, <2>11 DEF PostsOK
<1>15. ASSUME NEW s \in Terminals, JoinStandIn(s) PROVE SeatsOK' /\ PostsOK'
  <2>1. PICK g \in StandIns : g = <<"far", s>> /\ g[1] = "far" /\ g[2] = s BY BothSides DEF Sides
  <2>2. Place(g) = Across(NodeOf[s]) BY <2>1, Places
  <2>3. /\ desk[s] = "asked" /\ R!Join(g, Place(g)) /\ desk' = [desk EXCEPT ![s] = "joined"]
        /\ UNCHANGED <<invited, at, relay>>
    BY <1>15, <2>1, <2>2 DEF JoinStandIn
  <2>4. relay[g] = "off" BY <1>0, <2>1, <2>3 DEF DialsOK, Dialled
  <2>5. desk'[s] = "joined" /\ \A t \in Terminals \ {s} : desk'[t] = desk[t] BY <1>3, <2>3
  <2>6. /\ SeatsOK' /\ listed' = listed \cup {g}
        /\ \A t \in Terminals : (t \in listed' <=> t \in listed) /\ room'[t] = room[t]
        /\ \A h \in StandIns : relay[h] = "running" => h \in listed' /\ Attended(h)'
    BY <1>13, <2>1, <2>3 DEF Sides
  <2>7. \A t \in Terminals : desk'[t] = "joined" => <<"far", t>> \in listed' /\ relay'[<<"far", t>>] = "off"
    BY <1>0, <2>1, <2>3, <2>4, <2>5, <2>6 DEF PostsOK
  <2> QED BY <1>0, <2>3, <2>6, <2>7 DEF PostsOK
\* The invitation is there before the relay runs.
<1>16. ASSUME NEW s \in Terminals, Invite(s) PROVE SeatsOK' /\ PostsOK'
  <2>1. PICK g \in StandIns : g = <<"far", s>> /\ g[1] = "far" /\ g[2] = s BY BothSides DEF Sides
  <2>2. Place(g) = Across(NodeOf[s]) BY <2>1, Places
  <2>3. /\ desk[s] = "joined" /\ desk' = [desk EXCEPT ![s] = "bridging"] /\ invited' = invited \cup {Place(g)}
        /\ relay' = [relay EXCEPT ![g] = "running"] /\ at' = at /\ UNCHANGED talkRooms
    BY <1>16, <2>1, <2>2 DEF Invite, Bridge
  <2>4. SeatsOK' /\ UNCHANGED <<room, listed, recv>> BY <1>1, <2>3 DEF Same
  <2>5. /\ relay'[g] = "running" /\ \A h \in StandIns \ {g} : relay'[h] = relay[h]
        /\ desk'[s] = "bridging" /\ \A t \in Terminals \ {s} : desk'[t] = desk[t]
    BY <1>3, <2>3
  <2>6. g \in listed' /\ Attended(g)'
    <3>1. g \in listed BY <1>0, <2>1, <2>3 DEF PostsOK
    <3>2. Awaited(g)' BY <2>3 DEF Awaited
    <3> QED BY <2>1, <2>4, <3>1, <3>2 DEF Attended
  <2>7. ASSUME NEW h \in StandIns, relay'[h] = "running", h # g PROVE h \in listed' /\ Attended(h)'
    <3>1. relay[h] = "running" /\ h \in listed BY <1>0, <2>5, <2>7 DEF PostsOK
    <3>2. Awaited(h) => Awaited(h)' BY <2>3 DEF Awaited
    <3>3. Minded(h) BY <1>0, <2>4, <3>1, <3>2 DEF Minded
    <3>4. Attended(h)' BY <1>0, <3>1, <3>3, StillAttended
    <3> QED BY <2>4, <3>1, <3>4
  <2>8. ASSUME NEW t \in Terminals, desk'[t] = "joined"
        PROVE  <<"far", t>> \in listed' /\ relay'[<<"far", t>>] = "off"
    <3>1. t # s /\ desk[t] = "joined" BY <2>5, <2>8
    <3>2. <<"far", t>> \in listed /\ relay[<<"far", t>>] = "off" BY <1>0, <3>1 DEF PostsOK
    <3>3. <<"far", t>> \in StandIns \ {g} BY <2>1, <3>1, FarOf
    <3> QED BY <2>4, <2>5, <3>2, <3>3
  <2>9. \A h \in StandIns : relay'[h] = "closed" => h[1] = "far" BY <1>0, <2>5 DEF PostsOK
  <2> QED BY <1>0, <2>3, <2>4, <2>6, <2>7, <2>8, <2>9 DEF PostsOK
\* Whoever quits is heard by every relay of the room: none has a full channel.
<1>17. ASSUME NEW s \in Terminals, Quit(s) PROVE SeatsOK' /\ PostsOK'
  <2>1. /\ at[s] = "talking" /\ R!Leave(s) /\ at' = [at EXCEPT ![s] = "done"]
        /\ UNCHANGED <<invited, desk, relay>>
    BY <1>17 DEF Quit, Unbridged
  <2>2. /\ SeatsOK' /\ listed' = listed \ {s} /\ room' = room
        /\ \A m \in Talkers : HasLeave(recv[m]) => HasLeave(recv'[m])
        /\ \A m \in listed \ {s} : room[m] = room[s] /\ Len(recv[m]) < Cap => HasLeave(recv'[m])
    BY <1>0, <1>2, <2>1, Gone
  <2>3. at'[s] = "done" /\ \A t \in Terminals \ {s} : at'[t] = at[t] BY <1>3, <2>1
  <2>4. ASSUME NEW h \in StandIns, relay'[h] = "running" PROVE h \in listed' /\ Attended(h)'
    <3>1. relay[h] = "running" /\ h \in listed /\ h # s /\ Len(recv[h]) < Cap
      BY <1>0, <1>2, <2>1, <2>4 DEF PostsOK, Roomy
    <3>2. HasLeave(recv[h]) => HasLeave(recv'[h]) BY <1>2, <2>2
    <3>3. \A t \in Terminals : t \in listed /\ room[t] = room[h] =>
              HasLeave(recv'[h]) \/ (t \in listed' /\ room'[t] = room[t])
      BY <2>2, <3>1
    <3>4. Awaited(h) => Awaited(h)' BY <2>1, <2>3 DEF Awaited
    <3>5. Minded(h) BY <1>0, <2>2, <3>1, <3>2, <3>3, <3>4 DEF Minded
    <3>6. Attended(h)' BY <1>0, <3>1, <3>5, StillAttended
    <3> QED BY <2>2, <3>1, <3>6
  <2>5. \A t \in Terminals : t \in listed' <=> at'[t] \in {"bridging", "talking"}
    BY <1>0, <2>2, <2>3 DEF PostsOK
  <2>6. ASSUME NEW t \in Terminals, desk'[t] = "joined"
        PROVE  <<"far", t>> \in listed' /\ relay'[<<"far", t>>] = "off"
    <3>1. <<"far", t>> \in listed /\ relay[<<"far", t>>] = "off" BY <1>0, <2>1, <2>6 DEF PostsOK
    <3>2. <<"far", t>> # s BY <1>2, FarOf
    <3> QED BY <2>1, <2>2, <3>1, <3>2
  <2>7. \A h \in StandIns : relay'[h] = "closed" => h[1] = "far" BY <1>0, <2>1 DEF PostsOK
  <2> QED BY <2>2, <2>4, <2>5, <2>6, <2>7 DEF PostsOK
<1>18. ASSUME NEW g \in StandIns, LeaveRoom(g) PROVE SeatsOK' /\ PostsOK'
  <2>1. /\ relay[g] = "leaving" /\ R!Leave(g) /\ UNCHANGED <<invited, at, desk>>
        /\ relay' = [relay EXCEPT ![g] = "left"]
    BY <1>18 DEF LeaveRoom
  <2>2. /\ SeatsOK' /\ listed' = listed \ {g} /\ room' = room
        /\ \A m \in Talkers : HasLeave(recv[m]) => HasLeave(recv'[m])
    BY <1>0, <1>2, <2>1, Gone
  <2>3. relay'[g] = "left" /\ \A h \in StandIns \ {g} : relay'[h] = relay[h]
    BY <1>3, <2>1
  <2>4. ASSUME NEW h \in StandIns, relay'[h] = "running" PROVE h \in listed' /\ Attended(h)'
    <3>1. relay[h] = "running" /\ h \in listed /\ h # g BY <1>0, <2>3, <2>4 DEF PostsOK
    <3>2. \A t \in Terminals : t \in listed => t \in listed' BY <1>2, <2>2
    <3>3. Awaited(h) => Awaited(h)' BY <2>1 DEF Awaited
    <3>4. HasLeave(recv[h]) => HasLeave(recv'[h]) BY <1>2, <2>2
    <3>5. Minded(h) BY <1>0, <2>2, <3>1, <3>2, <3>3, <3>4 DEF Minded
    <3>6. Attended(h)' BY <1>0, <3>1, <3>5, StillAttended
    <3> QED BY <2>2, <3>1, <3>6
  <2>5. \A t \in Terminals : t \in listed' <=> at'[t] \in {"bridging", "talking"}
    BY <1>0, <1>2, <2>1, <2>2 DEF PostsOK
  <2>6. ASSUME NEW t \in Terminals, desk'[t] = "joined"
        PROVE  <<"far", t>> \in listed' /\ relay'[<<"far", t>>] = "off"
    <3>1. <<"far", t>> \in listed /\ relay[<<"far", t>>] = "off" BY <1>0, <2>1, <2>6 DEF PostsOK
    <3>2. <<"far", t>> \in StandIns \ {g} BY <2>1, <3>1, FarOf
    <3> QED BY <2>2, <2>3, <3>1, <3>2
  <2>7. \A h \in StandIns : relay'[h] = "closed" => h[1] = "far" BY <1>0, <2>3 DEF PostsOK
  <2> QED BY <2>2, <2>4, <2>5, <2>6, <2>7 DEF PostsOK
\* Whoever shares the invitation that a relay takes away is robbed of it.
<1>19. ASSUME NEW g \in StandIns, RemoveInvitation(g) PROVE SeatsOK' /\ PostsOK'
  <2>1. /\ relay[g] = "closed" /\ relay' = [relay EXCEPT ![g] = "ended"] /\ invited' = invited \ {Place(g)}
        /\ desk' = [desk EXCEPT ![g[2]] = "ended"] /\ at' = at /\ UNCHANGED talkRooms
        /\ Place(g) \in invited => Rivals(g) \subseteq robbed'
    BY <1>19 DEF RemoveInvitation
  <2>2. SeatsOK' /\ UNCHANGED <<room, listed, recv>> BY <1>1, <2>1 DEF Same
  <2>3. relay'[g] = "ended" /\ \A h \in StandIns \ {g} : relay'[h] = relay[h] BY <1>3, <2>1
  <2>4. PICK u \in Terminals : g = <<"far", u>> /\ g[2] = u
    <3>1. g[1] = "far" BY <1>0, <2>1 DEF PostsOK
    <3> QED BY <3>1, StandInsApart
  <2>6. ASSUME NEW h \in StandIns, relay'[h] = "running" PROVE h \in listed' /\ Attended(h)'
    <3>1. relay[h] = "running" /\ h \in listed /\ h # g BY <1>0, <2>3, <2>6 DEF PostsOK
    <3>2. ASSUME h[1] = "far", h \notin robbed', Awaited(h) PROVE Awaited(h)'
      <4>1. CASE Place(h) # Place(g) BY <2>1, <3>2, <4>1 DEF Awaited
      <4>2. CASE Place(h) = Place(g)
        <5>1. h \in Rivals(g) BY <3>1, <3>2, <4>2 DEF Rivals
        <5>2. Place(h) \notin invited BY <2>1, <3>2, <4>2, <5>1
        <5> QED BY <2>1, <3>2, <5>2 DEF Awaited
      <4> QED BY <4>1, <4>2
    <3>3. Minded(h) BY <1>0, <2>2, <3>1, <3>2 DEF Minded
    <3>4. Attended(h)' BY <1>0, <3>1, <3>3, StillAttended
    <3> QED BY <2>2, <3>1, <3>4
  <2>7. ASSUME NEW t \in Terminals, desk'[t] = "joined"
        PROVE  <<"far", t>> \in listed' /\ relay'[<<"far", t>>] = "off"
    <3>1. desk[t] = "joined" BY <1>3, <2>1, <2>4, <2>7
    <3>2. <<"far", t>> \in listed /\ relay[<<"far", t>>] = "off" BY <1>0, <3>1 DEF PostsOK
    <3>3. <<"far", t>> \in StandIns \ {g} BY <2>1, <3>2, FarOf
    <3> QED BY <2>2, <2>3, <3>2, <3>3
  <2>8. \A h \in StandIns : relay'[h] = "closed" => h[1] = "far" BY <1>0, <2>3 DEF PostsOK
  <2> QED BY <1>0, <2>1, <2>2, <2>6, <2>7, <2>8 DEF PostsOK
<1> QED BY <1>5, <1>6, <1>7, <1>8, <1>9, <1>10, <1>11, <1>12, <1>14, <1>15, <1>16, <1>17, <1>18, <1>19 DEF TalkNext, Behind

\* As long as no channel is full, a relay whose invitation no other relay has
\* taken away is left at rest only with somebody to talk to or to wait for: the
\* leave event of a full channel is the one thing that RelayRoomToStream can miss
\* (room.go:170-175).
THEOREM NobodyIsLeftTalking == TalkSpec /\ []Roomy => []NobodyTalksToNobody
<1>1. TalkInit => SeatsOK /\ PostsOK
  <2> SUFFICES ASSUME TalkInit PROVE SeatsOK /\ PostsOK OBVIOUS
  <2>1. /\ registry = [n \in Nodes |-> 0] /\ made = [n \in Nodes |-> 0] /\ room = [h \in Talkers |-> Nowhere]
        /\ listed = {} /\ closed = {} /\ recv = [h \in Talkers |-> <<>>]
    BY DEF TalkInit, R!Init, Talkers
  <2>2. IsSeq(<<>>)
    <3>1. <<>> \in Seq(Nodes) OBVIOUS
    <3> QED BY <3>1, QueueIs
  <2>3. SeatsOK BY <2>1, <2>2 DEF SeatsOK
  <2>4. PostsOK BY <2>1 DEF TalkInit, PostsOK
  <2> QED BY <2>3, <2>4
<1>2. TalkInv /\ SeatsOK /\ PostsOK /\ Roomy /\ [TalkNext]_talkVars => SeatsOK' /\ PostsOK'
  <2> SUFFICES ASSUME TalkInv, SeatsOK, PostsOK, Roomy, [TalkNext]_talkVars PROVE SeatsOK' /\ PostsOK' OBVIOUS
  <2>1. CASE TalkNext BY <2>1, PostsStep DEF BridgeInv
  <2>2. CASE UNCHANGED talkVars
    <3>1. UNCHANGED <<registry, made, room, listed, closed, recv, invited, at, desk, relay, robbed>>
      BY <2>2 DEF talkVars, talkRooms
    <3>2. SeatsOK' BY <3>1 DEF SeatsOK
    <3>3. \A h : Attended(h)' <=> Attended(h)
      BY <3>1 DEF Attended, Company, Awaited
    <3>4. PostsOK' BY <3>1, <3>3 DEF PostsOK
    <3> QED BY <3>2, <3>4
  <2> QED BY <2>1, <2>2
<1>3. TalkInv /\ SeatsOK /\ PostsOK => NobodyTalksToNobody
  <2> SUFFICES ASSUME TalkInv, SeatsOK, PostsOK, NEW h \in StandIns, relay[h] = "running", recv[h] = <<>>,
                      h \notin robbed
               PROVE  \/ {s \in Terminals : NodeOf[s] = Place(h)} \cap R!Members(room[h]) # {}
                      \/ \E s \in {t \in Terminals : NodeOf[t] = Place(h)} : at[s] \in {"answering", "joining"}
                      \/ h[1] = "far" /\ Place(h) \in invited
    BY DEF NobodyTalksToNobody
  <2>1. h \in listed /\ Attended(h) /\ h[2] \in Terminals BY StandInsApart DEF PostsOK
  <2>2. ~HasLeave(recv[h]) BY DEF HasLeave
  <2>4. ASSUME NEW t \in Terminals, t \in listed, room[t] = room[h]
        PROVE  {s \in Terminals : NodeOf[s] = Place(h)} \cap R!Members(room[h]) # {}
    <3>1. room[t][1] = Place(t) /\ room[h][1] = Place(h) BY <2>1, <2>4 DEF SeatsOK
    <3>2. NodeOf[t] = Place(h) BY <2>4, <3>1, Places
    <3>3. t \in R!Members(room[h]) BY <2>4 DEF R!Members
    <3> QED BY <3>2, <3>3
  <2>5. CASE h[1] = "near" /\ h[2] \in listed /\ room[h[2]] = room[h] BY <2>1, <2>4, <2>5
  <2>6. CASE h[1] = "far" /\ Company(h) BY <2>4, <2>6 DEF Company
  <2>7. CASE h[1] = "far" /\ Awaited(h) BY <2>7 DEF Awaited
  <2> QED BY <2>1, <2>2, <2>5, <2>6, <2>7 DEF Attended
<1> QED BY <1>1, <1>2, <1>3, TalkInvariant, PTL DEF TalkSpec
=============================================================================

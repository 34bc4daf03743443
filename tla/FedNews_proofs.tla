--------------------------- MODULE FedNews_proofs ---------------------------
(***************************************************************************)
(* Proofs about federated news, for any articles, any number of syncs at   *)
(* once, any batch limit and any bounds: types, and that the high-water    *)
(* mark never passes a change the peer has not got, but for late ones.     *)
(***************************************************************************)
EXTENDS FedNews, FiniteSetTheorems, TLAPS

-----------------------------------------------------------------------------
(***************************************************************************)
(* TypeOK is not inductive: what is on the wire, in a statement under way  *)
(* or in a batch becomes part of a table later.                            *)
(***************************************************************************)
InTransit ==
    /\ \A m \in wire : m.art \in approved
    /\ \A w \in writing : /\ w.kind \in {"approve", "reject"} => w.art \in posted
                          /\ w.kind = "cancel" => w.art \in approved
    /\ \A s \in Syncs : \A r \in batch[s] : r.art \in approved

TInv == TypeOK /\ InTransit

LEMMA InitTInv == Init => TInv
  BY BoundsAssumption DEF Init, TInv, TypeOK, InTransit, Times

\* A batch is cut from the rows of approved articles.
LEMMA SinceIsRows ==
    ASSUME TypeOK, NEW t \in Times
    PROVE  /\ Since(t) \in SUBSET Rows
           /\ \A r \in Since(t) : r.art \in approved
<1>1. ASSUME NEW a \in approved PROVE Row(a) \in Rows /\ Row(a).art = a
  BY DEF Row, Rows, TypeOK
<1>2. QED
  BY <1>1 DEF Since

LEMMA CommitTypes ==
    ASSUME TInv, NEW w \in writing, Commit(w)
    PROVE  TInv'
<1>1. /\ w.art \in Articles /\ w.time \in Times /\ w.kind \in Kinds
      /\ w.kind \in {"approve", "reject"} => w.art \in posted
      /\ w.kind = "cancel" => w.art \in approved
      /\ posted \subseteq Articles
  BY DEF TInv, TypeOK, InTransit
<1>2. CASE Effective(w)
  <2>1. /\ posted' = posted \cup {w.art}
        /\ approved' = IF w.kind = "approve" \/ (w.kind = "post" /\ w.art \notin Moderated)
                       THEN approved \cup {w.art} ELSE approved
        /\ cancelled' = IF w.kind \in {"reject", "cancel"}
                        THEN cancelled \cup {w.art} ELSE cancelled
        /\ updated' = [updated EXCEPT ![w.art] = w.time]
        /\ pushing' = pushing \cup (approved' \ approved)
        /\ retracting' = IF w.kind = "cancel" THEN retracting \cup {w.art} ELSE retracting
        /\ writing' = writing \ {w}
        /\ late' = late \/ (late' = late \cup {w.art} /\ w.art \in approved')
    BY <1>2 DEF Commit
  <2>2. approved \subseteq approved' /\ approved' \subseteq posted' /\ posted \subseteq posted'
    BY <2>1 DEF TInv, TypeOK
  <2>3. updated' \in [Articles -> Times]
    BY <1>1, <2>1 DEF TInv, TypeOK
  <2>4. /\ posted' \subseteq Articles /\ cancelled' \subseteq posted'
        /\ retracting' \subseteq cancelled' /\ pushing' \subseteq approved'
        /\ late' \subseteq approved'
    BY <1>1, <2>1, <2>2 DEF TInv, TypeOK
  <2>5. UNCHANGED <<clock, wire, held, hidden, local, mark, pc, reached, batch, more, breaks>>
    BY DEF Commit, copies, sync
  <2>6. held' \subseteq approved' /\ writing' \subseteq [art : Articles, kind : Kinds, time : Times]
    BY <2>1, <2>2, <2>5 DEF TInv, TypeOK
  <2>7. TypeOK'
    BY <2>2, <2>3, <2>4, <2>5, <2>6 DEF TInv, TypeOK, Wires, Rows, Times
  <2>8. InTransit'
    BY <2>1, <2>2, <2>5 DEF TInv, InTransit
  <2>9. QED
    BY <2>7, <2>8 DEF TInv
<1>3. CASE ~Effective(w)
  <2>1. /\ writing' = writing \ {w}
        /\ UNCHANGED <<clock, posted, approved, cancelled, updated, pushing, retracting, late,
                       wire, held, hidden, local, mark, pc, reached, batch, more, breaks>>
    BY <1>3 DEF Commit, copies, sync
  <2>2. TypeOK'
    BY <2>1 DEF TInv, TypeOK, Wires, Rows, Times
  <2>3. InTransit'
    BY <2>1 DEF TInv, InTransit
  <2>4. QED
    BY <2>2, <2>3 DEF TInv
<1>4. QED
  BY <1>2, <1>3

\* The steps of the origin and of the pushes.
LEMMA OriginTypes ==
    ASSUME TInv, NEW a \in Articles,
           \/ \E kind \in Kinds : Begin(a, kind)
           \/ PushReads(a) \/ RetractLands(a) \/ CancelHere(a)
    PROVE  TInv'
<1> USE DEF TInv, TypeOK, InTransit
<1>1. ASSUME NEW kind \in Kinds, Begin(a, kind) PROVE TInv'
  <2>1. clock + 1 \in Times /\ clock' = clock + 1
    BY <1>1, BoundsAssumption DEF Begin, Times
  <2>2. [art |-> a, kind |-> kind, time |-> clock + 1] \in [art : Articles, kind : Kinds, time : Times]
    BY <2>1
  <2>3. /\ kind \in {"approve", "reject"} => a \in posted
        /\ kind = "cancel" => a \in approved
    BY <1>1 DEF Begin, May
  <2>4. /\ writing' = writing \cup {[art |-> a, kind |-> kind, time |-> clock + 1]}
        /\ UNCHANGED <<posted, approved, cancelled, updated, pushing, retracting, late,
                       wire, held, hidden, local, mark, pc, reached, batch, more, breaks>>
    BY <1>1 DEF Begin, pushes, copies, sync
  <2>5. TypeOK'
    BY <2>1, <2>2, <2>4
  <2>6. InTransit'
    BY <2>3, <2>4
  <2>7. QED
    BY <2>5, <2>6
<1>2. CASE PushReads(a)
  <2>1. [art |-> a, cancelled |-> a \in cancelled] \in Wires /\ a \in approved
    BY <1>2 DEF PushReads, Wires
  <2>2. /\ wire' = wire \cup {[art |-> a, cancelled |-> a \in cancelled]}
        /\ pushing' = pushing \ {a}
        /\ UNCHANGED <<clock, writing, posted, approved, cancelled, updated, retracting, late,
                       held, hidden, local, mark, pc, reached, batch, more, breaks>>
    BY <1>2 DEF PushReads, origin, copies, sync
  <2>3. QED
    BY <2>1, <2>2
<1>3. CASE RetractLands(a)
  BY <1>3 DEF RetractLands, origin, sync
<1>4. CASE CancelHere(a)
  BY <1>4 DEF CancelHere, origin, pushes, sync
<1>5. QED
  BY <1>1, <1>2, <1>3, <1>4

LEMMA LandingTypes ==
    ASSUME TInv, NEW m \in wire, PushLands(m)
    PROVE  TInv'
  BY DEF TInv, TypeOK, InTransit, PushLands, Upsert, origin, sync, Wires

LEMMA SyncTypes ==
    ASSUME TInv, NEW s \in Syncs,
           Syncing(s) \/ SyncBreaks(s) \/ \E r \in batch[s] : ApplyFails(s, r)
    PROVE  TInv'
<1> USE DEF TInv, TypeOK, InTransit
<1>1. CASE SyncStarts(s)
  BY <1>1 DEF SyncStarts, Step, origin, pushes, copies
<1>2. CASE Pull(s)
  <2>1. Since(reached[s]) \in SUBSET Rows /\ \A r \in Since(reached[s]) : r.art \in approved
    BY SinceIsRows
  <2>2. Oldest(BatchLimit, Since(reached[s])) \subseteq Since(reached[s])
    BY DEF Oldest
  <2>3. PICK b \in SUBSET Rows : batch' = [batch EXCEPT ![s] = b] /\ \A r \in b : r.art \in approved
    BY <1>2, <2>1, <2>2 DEF Pull
  <2>4. more' \in [Syncs -> BOOLEAN] /\ pc' \in [Syncs -> {"idle", "pull", "apply", "save"}]
    BY <1>2 DEF Pull, Step
  <2>5. batch' \in [Syncs -> SUBSET Rows] /\ \A q \in Syncs : \A r \in batch'[q] : r.art \in approved
    BY <2>3
  <2>6. UNCHANGED <<clock, writing, posted, approved, cancelled, updated, pushing, wire, retracting,
                    held, hidden, local, mark, reached, breaks, late>>
    BY <1>2 DEF Pull, origin, pushes, copies
  <2>7. QED
    BY <2>4, <2>5, <2>6
<1>3. CASE NextBatch(s)
  BY <1>3 DEF NextBatch, Step, origin, pushes, copies
<1>4. CASE SyncSaves(s)
  BY <1>4, BoundsAssumption DEF SyncSaves, Step, origin, pushes, copies, Times
<1>5. ASSUME NEW r \in batch[s], Apply(s, r) PROVE TInv'
  <2>1. r.art \in approved /\ r.updated \in Times
    BY DEF Rows
  <2>2. /\ batch' = [batch EXCEPT ![s] = @ \ {r}]
        /\ reached' = [reached EXCEPT ![s] = IF r.updated > @ THEN r.updated ELSE @]
        /\ held' = held \cup {r.art}
        /\ hidden' = hidden \cup {r.art} \/ hidden' = hidden \ {r.art}
        /\ late' = late \cup {r.art} \/ late' = late
        /\ UNCHANGED <<clock, writing, posted, approved, cancelled, updated, pushing, wire,
                       retracting, local, mark, pc, more, breaks>>
    BY <1>5 DEF Apply, Upsert, origin, pushes
  <2>3. QED
    BY <2>1, <2>2
<1>6. ASSUME NEW r \in batch[s], ApplyFails(s, r) PROVE TInv'
  <2>1. r.art \in approved /\ r.updated \in Times
    BY DEF Rows
  <2>2. /\ batch' = [batch EXCEPT ![s] = @ \ {r}]
        /\ reached' = [reached EXCEPT ![s] = IF r.updated > @ THEN r.updated ELSE @]
        /\ late' = late \cup {r.art}
        /\ breaks' \in 0 .. MaxBreaks
        /\ UNCHANGED <<clock, writing, posted, approved, cancelled, updated, pushing, wire,
                       retracting, held, hidden, local, mark, pc, more>>
    BY <1>6, BoundsAssumption DEF ApplyFails, origin, pushes, copies
  <2>3. QED
    BY <2>1, <2>2
<1>7. CASE SyncBreaks(s)
  BY <1>7, BoundsAssumption DEF SyncBreaks, Step, origin, pushes, copies
<1>8. QED
  BY <1>1, <1>2, <1>3, <1>4, <1>5, <1>6, <1>7 DEF Syncing

LEMMA StepTInv == TInv /\ [Next]_vars => TInv'
<1> SUFFICES ASSUME TInv, [Next]_vars PROVE TInv'
  OBVIOUS
<1>1. CASE Restart
  BY <1>1, BoundsAssumption DEF Restart, TInv, TypeOK, InTransit, origin, pushes, copies, Times
<1>2. CASE UNCHANGED vars
  BY <1>2 DEF vars, TInv, TypeOK, InTransit, origin, pushes, copies, sync
<1>3. QED
  BY <1>1, <1>2, CommitTypes, OriginTypes, LandingTypes, SyncTypes DEF Next

LEMMA TInvHolds == Spec => []TInv
  BY InitTInv, StepTInv, PTL DEF Spec

\* Types, and what is contained in what: a copy, a push or a retraction is
\* always of an article the origin approved or cancelled.
THEOREM NewsTypeCorrect == Spec => []TypeOK
<1>1. TInv => TypeOK
  BY DEF TInv
<1>2. QED
  BY <1>1, TInvHolds, PTL

-----------------------------------------------------------------------------
(***************************************************************************)
(* NothingPassedOver is not inductive.  A batch is applied row by row, and *)
(* each row moves the time reached: what the batch covers but has not yet  *)
(* been applied must still be in it (BatchesComplete).  This in turn needs *)
(* that a time belongs to one article only (OneArticlePerTime), and that   *)
(* only a sync that is applying has a batch.                               *)
(***************************************************************************)
Stamps ==
    {<<w.time, w.art>> : w \in writing}
      \cup {<<updated[a], a>> : a \in posted}
      \cup UNION {{<<r.updated, r.art>> : r \in batch[s]} : s \in Syncs}

OneArticlePerTime ==
    /\ \A p \in Stamps : p[1] \in 1 .. clock
    /\ \A p, q \in Stamps : p[1] = q[1] => p[2] = q[2]

Waiting(s, a) == \E q \in batch[s] : q.art = a /\ q.updated = updated[a]

BatchesComplete ==
    \A s \in Syncs : \A a \in approved \ late : \A r \in batch[s] :
        Shown(a) \/ updated[a] > r.updated \/ Waiting(s, a)

BatchesFinite ==
    \A s \in Syncs : IsFiniteSet(batch[s]) /\ (pc[s] # "apply" => batch[s] = {})

NewsInv == NothingPassedOver /\ BatchesComplete /\ BatchesFinite /\ OneArticlePerTime

LEMMA InitNews == Init => NewsInv
<1> SUFFICES ASSUME Init PROVE NewsInv
  OBVIOUS
<1>1. Stamps = {}
  BY DEF Init, Stamps
<1>2. IsFiniteSet({})
  BY FS_EmptySet
<1>3. QED
  BY <1>1, <1>2 DEF Init, NewsInv, NothingPassedOver, BatchesComplete, BatchesFinite,
                    OneArticlePerTime

-----------------------------------------------------------------------------
\* What the batches are cut from.

LEMMA SinceFinite ==
    ASSUME TypeOK, NEW t \in Times
    PROVE  IsFiniteSet(Since(t))
<1> DEFINE B == {b \in approved : updated[b] > t}
           f == [a \in B |-> Row(a)]
<1>1. IsFiniteSet(B)
  BY ArticlesAssumption, FS_Subset DEF TypeOK
<1>2. f \in Surjection(B, Since(t))
  BY DEF Since, Surjection
<1>3. QED
  BY <1>1, <1>2, FS_Surjection

LEMMA OldestFinite ==
    ASSUME NEW R, IsFiniteSet(R), NEW n
    PROVE  IsFiniteSet(Oldest(n, R)) /\ Oldest(n, R) \subseteq R
<1>1. Oldest(n, R) \in SUBSET R
  BY DEF Oldest
<1>2. QED
  BY <1>1, FS_Subset

\* With a row, the oldest ones hold every older row.
LEMMA OldestClosed ==
    ASSUME NEW R \in SUBSET Rows, IsFiniteSet(R), NEW n \in Nat,
           NEW r \in Oldest(n, R), NEW q \in R, q.updated <= r.updated
    PROVE  q \in Oldest(n, R)
<1> DEFINE Q == {p \in R : p.updated < q.updated}
           P == {p \in R : p.updated < r.updated}
<1>1. Cardinality(P) < n
  BY DEF Oldest
<1>2. \A p \in R : p.updated \in Nat
  BY BoundsAssumption DEF Rows, Times
<1>3. r \in R
  BY DEF Oldest
<1>4. Q \in SUBSET P
  BY <1>2, <1>3
<1>5. IsFiniteSet(P) /\ IsFiniteSet(Q)
  BY FS_Subset
<1>6. Cardinality(Q) <= Cardinality(P)
  BY <1>4, <1>5, FS_Subset
<1>7. Cardinality(P) \in Nat /\ Cardinality(Q) \in Nat
  BY <1>5, FS_CardinalityType
<1>8. Cardinality(Q) < n
  BY <1>1, <1>6, <1>7
<1>9. QED
  BY <1>8 DEF Oldest

\* The first row applied has none older than itself.
LEMMA OldestIsLeast ==
    ASSUME NEW R \in SUBSET Rows, IsFiniteSet(R), NEW r \in Oldest(1, R), NEW q \in R
    PROVE  r.updated <= q.updated
<1> DEFINE P == {p \in R : p.updated < r.updated}
<1>1. Cardinality(P) < 1
  BY DEF Oldest
<1>2. IsFiniteSet(P)
  BY FS_Subset
<1>3. P = {}
  BY <1>1, <1>2, FS_CardinalityType, FS_EmptySet
<1>4. r.updated \in Nat /\ q.updated \in Nat
  BY BoundsAssumption DEF Oldest, Rows, Times
<1>5. QED
  BY <1>3, <1>4

-----------------------------------------------------------------------------
\* A time belongs to one article.

LEMMA FewerStamps ==
    ASSUME TypeOK, TypeOK', OneArticlePerTime, clock' = clock, Stamps' \subseteq Stamps
    PROVE  OneArticlePerTime'
  BY DEF OneArticlePerTime

LEMMA StampFacts ==
    ASSUME NEW a \in posted
    PROVE  <<updated[a], a>> \in Stamps
  BY DEF Stamps

LEMMA RowStamps ==
    ASSUME NEW s \in Syncs, NEW r \in batch[s]
    PROVE  <<r.updated, r.art>> \in Stamps
  BY DEF Stamps

LEMMA StampsOf ==
    ASSUME NEW p \in Stamps
    PROVE  \/ \E w \in writing : p = <<w.time, w.art>>
           \/ \E a \in posted : p = <<updated[a], a>>
           \/ \E s \in Syncs : \E r \in batch[s] : p = <<r.updated, r.art>>
  BY DEF Stamps

\* The stamps after a step, when they all were ones before it.
LEMMA StampsKept ==
    ASSUME \A w \in writing' : <<w.time, w.art>> \in Stamps,
           \A a \in posted' : <<updated'[a], a>> \in Stamps,
           \A s \in Syncs : \A r \in batch'[s] : <<r.updated, r.art>> \in Stamps
    PROVE  Stamps' \subseteq Stamps
  BY DEF Stamps

LEMMA WritingStamps ==
    ASSUME NEW w \in writing
    PROVE  <<w.time, w.art>> \in Stamps
  BY DEF Stamps

LEMMA BeginStamps ==
    ASSUME TInv, OneArticlePerTime, NEW a \in Articles, NEW kind \in Kinds, Begin(a, kind)
    PROVE  OneArticlePerTime'
<1>1. /\ clock' = clock + 1 /\ clock \in Nat
      /\ writing' = writing \cup {[art |-> a, kind |-> kind, time |-> clock + 1]}
      /\ posted' = posted /\ updated' = updated /\ batch' = batch
  BY BoundsAssumption DEF Begin, TInv, TypeOK, Times, sync
<1>2. Stamps' \subseteq Stamps \cup {<<clock + 1, a>>}
  BY <1>1 DEF Stamps
<1>3. \A p \in Stamps : p[1] \in Nat /\ p[1] <= clock /\ p[1] >= 1
  BY <1>1 DEF OneArticlePerTime
<1>4. ASSUME NEW p \in Stamps', NEW q \in Stamps', p[1] = q[1] PROVE p[2] = q[2]
  <2>1. CASE p \in Stamps /\ q \in Stamps
    BY <1>4, <2>1 DEF OneArticlePerTime
  <2>2. CASE p \in Stamps /\ q = <<clock + 1, a>>
    BY <1>1, <1>3, <1>4, <2>2
  <2>3. CASE q \in Stamps /\ p = <<clock + 1, a>>
    BY <1>1, <1>3, <1>4, <2>3
  <2>4. QED
    BY <1>2, <1>4, <2>1, <2>2, <2>3
<1>5. ASSUME NEW p \in Stamps' PROVE p[1] \in 1 .. clock'
  BY <1>1, <1>2, <1>3, <1>5
<1>6. QED
  BY <1>4, <1>5 DEF OneArticlePerTime

LEMMA StepStamps ==
    ASSUME TInv, TypeOK', OneArticlePerTime, [Next]_vars
    PROVE  OneArticlePerTime'
<1>1. ASSUME NEW w \in writing, Commit(w) PROVE OneArticlePerTime'
  <2>1. /\ clock' = clock /\ batch' = batch /\ writing' = writing \ {w}
        /\ \/ posted' = posted /\ updated' = updated
           \/ posted' = posted \cup {w.art} /\ updated' = [updated EXCEPT ![w.art] = w.time]
    BY <1>1 DEF Commit, sync
  <2>2. \A a \in posted' : <<updated'[a], a>> \in Stamps
    BY <2>1, StampFacts, WritingStamps DEF TInv, TypeOK
  <2>3. QED
    BY <2>1, <2>2, StampsKept, RowStamps, WritingStamps, FewerStamps DEF TInv
<1>2. ASSUME NEW s \in Syncs, Pull(s) PROVE OneArticlePerTime'
  <2>1. /\ clock' = clock /\ writing' = writing /\ posted' = posted /\ updated' = updated
        /\ batch' = [batch EXCEPT ![s] = Oldest(BatchLimit, Since(reached[s]))]
    BY <1>2 DEF Pull, origin
  <2>2. \A r \in Since(reached[s]) : <<r.updated, r.art>> \in Stamps
    BY StampFacts DEF Since, Row, TInv, TypeOK
  <2>3. \A q \in Syncs : \A r \in batch'[q] : <<r.updated, r.art>> \in Stamps
    BY <2>1, <2>2, RowStamps DEF TInv, TypeOK, Oldest
  <2>4. QED
    BY <2>1, <2>3, StampsKept, StampFacts, WritingStamps, FewerStamps DEF TInv
<1>3. ASSUME UNCHANGED <<clock, writing, posted, updated>>, \A s \in Syncs : batch'[s] \subseteq batch[s]
      PROVE  OneArticlePerTime'
  BY <1>3, StampsKept, StampFacts, WritingStamps, RowStamps, FewerStamps DEF TInv
<1>4. ASSUME NEW a \in Articles, PushReads(a) \/ RetractLands(a) \/ CancelHere(a)
      PROVE  OneArticlePerTime'
  BY <1>3, <1>4 DEF PushReads, RetractLands, CancelHere, origin, sync
<1>5. ASSUME NEW m \in wire, PushLands(m) PROVE OneArticlePerTime'
  BY <1>3, <1>5 DEF PushLands, origin, sync
<1>6. ASSUME NEW s \in Syncs, NEW r \in batch[s], Apply(s, r) \/ ApplyFails(s, r)
      PROVE  OneArticlePerTime'
  <2>1. batch' = [batch EXCEPT ![s] = @ \ {r}] /\ UNCHANGED <<clock, writing, posted, updated>>
    BY <1>6 DEF Apply, ApplyFails, origin
  <2>2. \A q \in Syncs : batch'[q] \subseteq batch[q]
    BY <2>1 DEF TInv, TypeOK
  <2>3. QED
    BY <1>3, <2>1, <2>2
<1>7. ASSUME NEW s \in Syncs, SyncStarts(s) \/ NextBatch(s) \/ SyncSaves(s) \/ SyncBreaks(s)
      PROVE  OneArticlePerTime'
  BY <1>3, <1>7 DEF SyncStarts, NextBatch, SyncSaves, SyncBreaks, origin
<1>8. CASE Restart
  BY <1>3, <1>8 DEF Restart, origin
<1>9. CASE UNCHANGED vars
  BY <1>3, <1>9 DEF vars, origin, sync
<1>10. QED
  BY <1>1, <1>2, <1>4, <1>5, <1>6, <1>7, <1>8, <1>9, BeginStamps DEF Next, Syncing

-----------------------------------------------------------------------------
\* Only a sync that is applying has a batch, and a finite one.
LEMMA StepFinite ==
    ASSUME TInv, BatchesFinite, [Next]_vars
    PROVE  BatchesFinite'
<1> USE DEF TInv, TypeOK, BatchesFinite
<1>1. ASSUME NEW s \in Syncs, Pull(s) PROVE BatchesFinite'
  <2>1. IsFiniteSet(Oldest(BatchLimit, Since(reached[s])))
    BY SinceFinite, OldestFinite
  <2>2. QED
    BY <1>1, <2>1 DEF Pull, Step
<1>2. ASSUME NEW s \in Syncs, NEW r \in batch[s], Apply(s, r) \/ ApplyFails(s, r)
      PROVE  BatchesFinite'
  <2>1. batch' = [batch EXCEPT ![s] = @ \ {r}] /\ pc' = pc
    BY <1>2 DEF Apply, ApplyFails
  <2>2. IsFiniteSet(batch[s] \ {r})
    BY FS_Subset
  <2>3. QED
    BY <2>1, <2>2
<1>3. ASSUME NEW s \in Syncs, SyncStarts(s) \/ NextBatch(s) \/ SyncSaves(s) \/ SyncBreaks(s)
      PROVE  BatchesFinite'
  BY <1>3 DEF SyncStarts, NextBatch, SyncSaves, SyncBreaks, Step
<1>4. CASE Restart
  BY <1>4, FS_EmptySet DEF Restart
<1>5. ASSUME UNCHANGED <<pc, batch>> PROVE BatchesFinite'
  BY <1>5
<1>6. ASSUME NEW a \in Articles,
             \/ \E kind \in Kinds : Begin(a, kind)
             \/ PushReads(a) \/ RetractLands(a) \/ CancelHere(a)
      PROVE  UNCHANGED <<pc, batch>>
  BY <1>6 DEF Begin, PushReads, RetractLands, CancelHere, sync
<1>7. ASSUME NEW w \in writing, Commit(w) PROVE UNCHANGED <<pc, batch>>
  BY <1>7 DEF Commit, sync
<1>8. ASSUME NEW m \in wire, PushLands(m) PROVE UNCHANGED <<pc, batch>>
  BY <1>8 DEF PushLands, sync
<1>9. CASE UNCHANGED vars
  BY <1>5, <1>9 DEF vars, sync
<1>10. QED
  BY <1>1, <1>2, <1>3, <1>4, <1>5, <1>6, <1>7, <1>8, <1>9 DEF Next, Syncing

-----------------------------------------------------------------------------
\* A time behind which no pull is, is later than all that pulls have covered.
LEMMA NotBehind ==
    ASSUME TypeOK, NEW t \in Times, ~Behind(t)
    PROVE  /\ t > mark
           /\ \A s \in Syncs : t > reached[s]
           /\ \A s \in Syncs : \A r \in batch[s] : t > r.updated
<1>1. /\ t \in Nat /\ mark \in Nat
      /\ \A s \in Syncs : reached[s] \in Nat
      /\ \A s \in Syncs : \A r \in batch[s] : r.updated \in Nat
  BY BoundsAssumption DEF TypeOK, Times, Rows
<1>2. /\ mark \in Covered
      /\ \A s \in Syncs : reached[s] \in Covered
      /\ \A s \in Syncs : \A r \in batch[s] : r.updated \in Covered
  BY DEF Covered
<1>3. \A u \in Covered : ~(t <= u)
  BY DEF Behind
<1>4. QED
  BY <1>1, <1>2, <1>3

(***************************************************************************)
(* A step of the origin, of a push or of the peer's admins: no sync moves, *)
(* and each article that is not late after it was not late before and is   *)
(* what it was, or is shown, or has changed in front of every pull.        *)
(***************************************************************************)
NotMissed(a) ==
    \/ a \in approved \ late /\ updated'[a] = updated[a] /\ (Shown(a) => Shown(a)')
    \/ Shown(a)'
    \/ ~Behind(updated'[a])

LEMMA OtherKeep ==
    ASSUME TInv, TypeOK', NewsInv, UNCHANGED <<mark, reached, batch>>,
           \A a \in approved' \ late' : NotMissed(a)
    PROVE  NothingPassedOver' /\ BatchesComplete'
<1>1. ASSUME NEW a \in approved' \ late', ~Shown(a)'
      PROVE  \/ a \in approved \ late /\ updated'[a] = updated[a] /\ ~Shown(a)
             \/ /\ updated'[a] > mark
                /\ \A s \in Syncs : updated'[a] > reached[s]
                /\ \A s \in Syncs : \A r \in batch[s] : updated'[a] > r.updated
  <2>1. updated'[a] \in Times
    BY <1>1 DEF TypeOK
  <2>2. QED
    BY <1>1, <2>1, NotBehind DEF NotMissed, TInv
<1>2. NothingPassedOver'
  BY <1>1 DEF NewsInv, NothingPassedOver
<1>3. ASSUME NEW s \in Syncs, NEW a \in approved' \ late', NEW r \in batch'[s], ~Shown(a)'
      PROVE  updated'[a] > r.updated \/ Waiting(s, a)'
  <2>1. CASE a \in approved \ late /\ updated'[a] = updated[a] /\ ~Shown(a)
    BY <1>3, <2>1 DEF NewsInv, BatchesComplete, Waiting
  <2>2. QED
    BY <1>1, <1>3, <2>1
<1>4. BatchesComplete'
  BY <1>3 DEF BatchesComplete
<1>5. QED
  BY <1>2, <1>4

\* A statement commits: late, unless its time is in front of every pull.
LEMMA CommitKeeps ==
    ASSUME TInv, TypeOK', NewsInv, NEW w \in writing, Commit(w)
    PROVE  NothingPassedOver' /\ BatchesComplete'
<1>1. w.art \in Articles
  BY DEF TInv, TypeOK
<1>2. UNCHANGED <<mark, reached, batch, held, hidden>>
  BY DEF Commit, sync, copies
<1>3. ASSUME Effective(w), NEW a \in approved' \ late' PROVE NotMissed(a)
  <2>1. /\ a \in approved \/ a = w.art
        /\ a # w.art => (a \in cancelled' <=> a \in cancelled)
        /\ updated' = [updated EXCEPT ![w.art] = w.time]
        /\ late \subseteq late'
        /\ a = w.art => ~Behind(w.time)
    BY <1>3 DEF Commit, Overtaken
  <2>2. CASE a = w.art
    BY <1>1, <2>1, <2>2 DEF NotMissed, TInv, TypeOK
  <2>3. CASE a # w.art
    <3>1. updated'[a] = updated[a]
      BY <2>1, <2>3 DEF TInv, TypeOK
    <3>2. Shown(a) => Shown(a)'
      BY <1>2, <2>1, <2>3 DEF Shown
    <3>3. QED
      BY <1>3, <2>1, <2>3, <3>1, <3>2 DEF NotMissed
  <2>4. QED
    BY <2>2, <2>3
<1>4. ASSUME ~Effective(w), NEW a \in approved' \ late' PROVE NotMissed(a)
  BY <1>2, <1>4 DEF Commit, NotMissed, Shown
<1>5. QED
  BY <1>2, <1>3, <1>4, OtherKeep

\* A push lands: it may show the article again only when that makes it late.
LEMMA PushKeeps ==
    ASSUME TInv, TypeOK', NewsInv, NEW m \in wire, PushLands(m)
    PROVE  NothingPassedOver' /\ BatchesComplete'
<1>1. /\ UNCHANGED <<mark, reached, batch, approved, cancelled, updated>>
      /\ held' = held \cup {m.art}
      /\ hidden' = IF m.cancelled THEN hidden \cup {m.art} ELSE hidden \ {m.art}
      /\ late' = IF Stale(m.art, m.cancelled) THEN late \cup {m.art} ELSE late
  BY DEF PushLands, Upsert, origin, sync
<1>2. ASSUME NEW a \in approved' \ late' PROVE NotMissed(a)
  <2>1. CASE a = m.art
    <3>1. ~Stale(a, m.cancelled)
      BY <1>1, <1>2, <2>1
    <3>2. Shown(a)' \/ ~Behind(updated[a])
      BY <1>1, <2>1, <3>1 DEF Stale, Shown
    <3>3. QED
      BY <1>1, <3>2 DEF NotMissed
  <2>2. CASE a # m.art
    BY <1>1, <1>2, <2>2 DEF NotMissed, Shown
  <2>3. QED
    BY <2>1, <2>2
<1>3. QED
  BY <1>1, <1>2, OtherKeep

LEMMA OriginKeeps ==
    ASSUME TInv, TypeOK', NewsInv, NEW a \in Articles,
           \/ \E kind \in Kinds : Begin(a, kind)
           \/ PushReads(a) \/ RetractLands(a) \/ CancelHere(a)
    PROVE  NothingPassedOver' /\ BatchesComplete'
<1>1. /\ UNCHANGED <<mark, reached, batch, approved, cancelled, updated, held, late>>
      /\ hidden \subseteq hidden'
  BY DEF Begin, PushReads, RetractLands, CancelHere, origin, copies, sync
<1>2. \A b \in approved' \ late' : NotMissed(b)
  BY <1>1 DEF NotMissed, Shown
<1>3. QED
  BY <1>1, <1>2, OtherKeep

-----------------------------------------------------------------------------
\* The steps of a sync.

LEMMA PullKeeps ==
    ASSUME TInv, NewsInv, NEW s \in Syncs, Pull(s)
    PROVE  NothingPassedOver' /\ BatchesComplete'
<1>1. /\ UNCHANGED <<mark, reached, approved, cancelled, updated, held, hidden, late>>
      /\ batch'[s] = Oldest(BatchLimit, Since(reached[s]))
      /\ \A t \in Syncs \ {s} : batch'[t] = batch[t]
  BY DEF Pull, origin, copies, TInv, TypeOK
<1>2. NothingPassedOver'
  BY <1>1 DEF NewsInv, NothingPassedOver, Shown
<1>3. ASSUME NEW a \in approved \ late, ~Shown(a), NEW r \in batch'[s], ~(updated[a] > r.updated)
      PROVE  \E q \in batch'[s] : q.art = a /\ q.updated = updated[a]
  <2>1. reached[s] \in Times /\ Since(reached[s]) \in SUBSET Rows /\ IsFiniteSet(Since(reached[s]))
    BY SinceIsRows, SinceFinite DEF TInv, TypeOK
  <2>2. updated[a] > reached[s]
    BY <1>3 DEF NewsInv, NothingPassedOver
  <2>3. Row(a) \in Since(reached[s]) /\ Row(a).updated = updated[a] /\ Row(a).art = a
    BY <1>3, <2>2 DEF Since, Row
  <2>4. r \in Since(reached[s])
    BY <1>1, <1>3 DEF Oldest
  <2>5. updated[a] \in Nat /\ r.updated \in Nat
    BY <2>1, <2>3, <2>4, BoundsAssumption DEF Rows, Times
  <2>6. Row(a) \in Oldest(BatchLimit, Since(reached[s]))
    BY <1>1, <1>3, <2>1, <2>3, <2>5, OldestClosed, BatchAssumption
  <2>7. QED
    BY <1>1, <2>3, <2>6
<1>4. BatchesComplete'
  BY <1>1, <1>3 DEF NewsInv, BatchesComplete, Waiting, Shown
<1>5. QED
  BY <1>2, <1>4

\* The row applied, or passed over, is the oldest of the batch.  Whatever it
\* makes the sync reach, another article that is not shown is behind none of it.
LEMMA RowGone ==
    ASSUME TInv, NewsInv, NEW s \in Syncs, NEW r \in Oldest(1, batch[s]),
           NEW a \in approved \ late, ~Shown(a), a # r.art
    PROVE  /\ updated[a] > r.updated
           /\ \A p \in batch[s] : updated[a] > p.updated
                \/ \E q \in batch[s] \ {r} : q.art = a /\ q.updated = updated[a]
<1>1. batch[s] \in SUBSET Rows /\ IsFiniteSet(batch[s])
  BY DEF TInv, TypeOK, NewsInv, BatchesFinite
<1>2. r \in batch[s]
  BY DEF Oldest
<1>3. \A p \in batch[s] : updated[a] > p.updated \/ Waiting(s, a)
  BY DEF NewsInv, BatchesComplete
<1>4. ASSUME NEW q \in batch[s], q.art = a, q.updated = updated[a]
      PROVE  q # r /\ updated[a] > r.updated
  <2>1. r.updated <= q.updated
    BY <1>1, OldestIsLeast
  <2>2. r.updated # q.updated
    <3>1. <<r.updated, r.art>> \in Stamps /\ <<q.updated, q.art>> \in Stamps
      BY <1>2, <1>4, RowStamps
    <3>2. QED
      BY <1>4, <3>1 DEF NewsInv, OneArticlePerTime
  <2>3. r.updated \in Nat /\ q.updated \in Nat
    BY <1>1, <1>2, BoundsAssumption DEF Rows, Times
  <2>4. QED
    BY <1>4, <2>1, <2>2, <2>3
<1>5. QED
  BY <1>2, <1>3, <1>4 DEF Waiting

LEMMA RowKeeps ==
    ASSUME TInv, NewsInv, NEW s \in Syncs, NEW r \in batch[s], r \in Oldest(1, batch[s]),
           batch' = [batch EXCEPT ![s] = @ \ {r}],
           reached' = [reached EXCEPT ![s] = IF r.updated > @ THEN r.updated ELSE @],
           UNCHANGED <<mark, approved, cancelled, updated>>,
           held \subseteq held', late \subseteq late',
           \A a \in approved \ {r.art} : a \in hidden => a \in hidden',
           r.art \notin late' => Shown(r.art)' \/ ~Behind(updated[r.art])
    PROVE  NothingPassedOver' /\ BatchesComplete'
<1>1. /\ batch'[s] = batch[s] \ {r}
      /\ reached'[s] = IF r.updated > reached[s] THEN r.updated ELSE reached[s]
      /\ \A t \in Syncs \ {s} : batch'[t] = batch[t] /\ reached'[t] = reached[t]
  BY DEF TInv, TypeOK
<1>2. ASSUME NEW a \in approved' \ late', ~Shown(a)'
      PROVE  /\ updated[a] > mark /\ updated[a] > r.updated
             /\ \A t \in Syncs : updated[a] > reached[t]
             /\ \A t \in Syncs : \A p \in batch'[t] :
                   updated[a] > p.updated \/ \E q \in batch'[t] : q.art = a /\ q.updated = updated[a]
  <2>1. CASE a = r.art
    <3>1. updated[a] \in Times /\ ~Behind(updated[a])
      BY <1>2, <2>1 DEF TInv, TypeOK
    <3>2. QED
      BY <1>1, <3>1, NotBehind DEF TInv
  <2>2. CASE a # r.art
    <3>1. a \in approved \ late /\ ~Shown(a)
      BY <1>2, <2>2 DEF Shown
    <3>2. updated[a] > mark /\ \A t \in Syncs : updated[a] > reached[t]
      BY <3>1 DEF NewsInv, NothingPassedOver
    <3>3. /\ updated[a] > r.updated
          /\ \A p \in batch[s] : updated[a] > p.updated
               \/ \E q \in batch[s] \ {r} : q.art = a /\ q.updated = updated[a]
      BY <2>2, <3>1, RowGone
    <3>4. \A t \in Syncs : \A p \in batch[t] : updated[a] > p.updated \/ Waiting(t, a)
      BY <3>1 DEF NewsInv, BatchesComplete
    <3>5. QED
      BY <1>1, <3>2, <3>3, <3>4 DEF Waiting
  <2>3. QED
    BY <2>1, <2>2
<1>3. NothingPassedOver'
  BY <1>1, <1>2 DEF NothingPassedOver
<1>4. BatchesComplete'
  BY <1>2 DEF BatchesComplete, Waiting
<1>5. QED
  BY <1>3, <1>4

LEMMA ApplyKeeps ==
    ASSUME TInv, NewsInv, NEW s \in Syncs, NEW r \in batch[s], Apply(s, r) \/ ApplyFails(s, r)
    PROVE  NothingPassedOver' /\ BatchesComplete'
<1>1. CASE Apply(s, r)
  <2>1. /\ r \in Oldest(1, batch[s])
        /\ batch' = [batch EXCEPT ![s] = @ \ {r}]
        /\ reached' = [reached EXCEPT ![s] = IF r.updated > @ THEN r.updated ELSE @]
        /\ UNCHANGED <<mark, approved, cancelled, updated>>
        /\ held' = held \cup {r.art}
        /\ hidden' = IF r.cancelled THEN hidden \cup {r.art} ELSE hidden \ {r.art}
        /\ late' = IF Stale(r.art, r.cancelled) THEN late \cup {r.art} ELSE late
    BY <1>1 DEF Apply, Upsert, origin
  <2>2. r.art \notin late' => Shown(r.art)' \/ ~Behind(updated[r.art])
    BY <2>1 DEF Stale, Shown
  <2>3. /\ held \subseteq held' /\ late \subseteq late'
        /\ \A a \in approved \ {r.art} : a \in hidden => a \in hidden'
    BY <2>1
  <2>4. QED
    BY <2>1, <2>2, <2>3, RowKeeps
<1>2. CASE ApplyFails(s, r)
  <2>1. /\ r \in Oldest(1, batch[s])
        /\ batch' = [batch EXCEPT ![s] = @ \ {r}]
        /\ reached' = [reached EXCEPT ![s] = IF r.updated > @ THEN r.updated ELSE @]
        /\ UNCHANGED <<mark, approved, cancelled, updated, held, hidden>>
        /\ late' = late \cup {r.art}
    BY <1>2 DEF ApplyFails, origin, copies
  <2>2. QED
    BY <2>1, RowKeeps
<1>3. QED
  BY <1>1, <1>2

\* Starting, saving the mark and restarting move no batch that is not empty.
LEMMA MarkKeeps ==
    ASSUME TInv, NewsInv, UNCHANGED <<approved, cancelled, updated, held, hidden, late>>,
           \A s \in Syncs : batch'[s] = batch[s] \/ batch'[s] = {},
           \A s \in Syncs : reached'[s] \in {0, mark, reached[s]},
           mark' = mark \/ \E s \in Syncs : mark' = reached[s]
    PROVE  NothingPassedOver' /\ BatchesComplete'
<1>1. ASSUME NEW a \in approved PROVE updated[a] > 0
  <2>1. <<updated[a], a>> \in Stamps /\ clock \in Nat
    BY StampFacts, BoundsAssumption DEF TInv, TypeOK, Times
  <2>2. updated[a] \in 1 .. clock
    BY <2>1 DEF NewsInv, OneArticlePerTime
  <2>3. QED
    BY <2>1, <2>2
<1>2. NothingPassedOver'
  BY <1>1 DEF NewsInv, NothingPassedOver, Shown
<1>3. BatchesComplete'
  BY DEF NewsInv, BatchesComplete, Waiting, Shown
<1>4. QED
  BY <1>2, <1>3

LEMMA SyncKeeps ==
    ASSUME TInv, TypeOK', NewsInv, NEW s \in Syncs,
           SyncStarts(s) \/ NextBatch(s) \/ SyncSaves(s) \/ SyncBreaks(s)
    PROVE  NothingPassedOver' /\ BatchesComplete'
<1>1. /\ UNCHANGED <<approved, cancelled, updated, held, hidden, late, batch>>
      /\ \/ reached' = reached
         \/ reached' = [reached EXCEPT ![s] = mark]
         \/ reached' = [reached EXCEPT ![s] = 0]
      /\ mark' = mark \/ mark' = reached[s]
  BY DEF SyncStarts, NextBatch, SyncSaves, SyncBreaks, origin, copies
<1>2. \A t \in Syncs : reached'[t] \in {0, mark, reached[t]}
  BY <1>1 DEF TInv, TypeOK
<1>3. QED
  BY <1>1, <1>2, MarkKeeps

LEMMA StepNews ==
    ASSUME TInv, TypeOK', NewsInv, [Next]_vars
    PROVE  NewsInv'
<1>1. BatchesFinite' /\ OneArticlePerTime'
  BY StepFinite, StepStamps DEF NewsInv
<1>2. NothingPassedOver' /\ BatchesComplete'
  <2>1. CASE Restart
    <3>1. /\ UNCHANGED <<approved, cancelled, updated, held, hidden, late, mark>>
          /\ \A s \in Syncs : batch'[s] = {} /\ reached'[s] = 0
      BY <2>1 DEF Restart, origin, copies
    <3>2. QED
      BY <3>1, MarkKeeps
  <2>2. CASE UNCHANGED vars
    <3>1. UNCHANGED <<approved, cancelled, updated, held, hidden, late, mark, batch, reached>>
      BY <2>2 DEF vars, origin, copies, sync
    <3>2. QED
      BY <3>1, MarkKeeps
  <2>3. QED
    BY <2>1, <2>2, CommitKeeps, PushKeeps, OriginKeeps, PullKeeps, ApplyKeeps, SyncKeeps
       DEF Next, Syncing
<1>3. QED
  BY <1>1, <1>2 DEF NewsInv

LEMMA NewsInvHolds == Spec => []NewsInv
<1>1. TInv => TypeOK
  BY DEF TInv
<1>2. QED
  BY <1>1, InitNews, StepNews, TInvHolds, PTL DEF Spec

\* The mark never passes a change the peer has not got, whatever pushes are
\* lost, syncs run at once, break or are cut by a restart (fedsync.go:230-231):
\* what is missed for good is late.
THEOREM NeverPassedOver == Spec => []NothingPassedOver
<1>1. NewsInv => NothingPassedOver
  BY DEF NewsInv
<1>2. QED
  BY <1>1, NewsInvHolds, PTL

=============================================================================

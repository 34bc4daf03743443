--------------------------- MODULE FedMail_proofs ---------------------------
(***************************************************************************)
(* Proofs about cross-node mail, for any messages, limits and number of    *)
(* faults, as long as the insert of a bounce itself does not fail: nothing *)
(* vanishes, doubles come only of lost answers, and a sender hears one     *)
(* auto-reply, and another for each that could not be recorded.            *)
(***************************************************************************)
EXTENDS FedMail, TLAPS

\* The insert of a returned message does not fail (its error is ignored by
\* bounce, which then deletes the row).
ReturnsSucceed == "return" \notin Failing

-----------------------------------------------------------------------------
\* The strengthened invariant, by what its parts are about

\* Where the worker stands: its row and the rest of its batch are queued.
InHand == {"peer", "waiting", "done", "failed", "returning", "clearing"}

WorkerPlace ==
    /\ pc \in InHand => cur \in outbox
    /\ pc = "idle" => cur = NoMessage
    /\ batch \subseteq outbox
    /\ cur \notin batch
    /\ writing \cap sent = {}

\* How far a request has come where the worker stands; only a message in
\* doubt has a stray.
RequestPlace ==
    /\ request \in Pending => pc = "waiting"
    /\ request \in {"ok", "vacation"} => pc \in {"waiting", "done"}
    /\ request \in {"transient", "permanent"} =>
           pc \in {"waiting", "failed", "returning", "clearing"}
    /\ pc = "done" => request \in {"ok", "vacation"}
    /\ \A m \in Remote : stray[m] # "none" => m \in doubtful

\* What the inboxes hold.
Served == {"stored", "replying", "ok", "vacation"}

Fate ==
    /\ pc = "clearing" => cur \in bounced
    /\ request \in Served => inbox[cur] > 0
    /\ \A m \in Remote :
        /\ inbox[m] > 0 => m \in sent
        /\ stray[m] \in Served => inbox[m] > 0
        /\ m \notin doubtful =>
            /\ inbox[m] <= 1
            /\ inbox[m] > 0 => m \notin bounced
            /\ inbox[m] > 0 /\ m \in outbox => m = cur /\ request \in Served
            /\ m \in bounced /\ m \in outbox => m = cur /\ pc = "clearing"

\* Replies given: one with a record, and one for each record that failed.
\* A reply under way is not among them yet, and one that will be recorded is
\* the first that is.
Replying ==
    /\ replies <= 1 + unrecorded
    /\ ~replied => replies <= unrecorded
    /\ request \in {"replying", "vacation"} \/ pc = "autoreply" => replies <= unrecorded
    /\ (request = "vacation" \/ pc = "autoreply") /\ ~replied => replies < unrecorded

IInv == TypeOK /\ WorkerPlace /\ RequestPlace /\ NothingVanishes /\ Fate /\ Replying

LEMMA FailsCounts ==
    ASSUME faults \in 0 .. MaxFaults, NEW x, Fails(x)
    PROVE  faults' \in 0 .. MaxFaults
  BY FaultsAssumption DEF Fails

-----------------------------------------------------------------------------
\* Types, and the worker's place
LEMMA BaseHolds ==
    ASSUME TypeOK, WorkerPlace, [Next]_vars
    PROVE  TypeOK' /\ WorkerPlace'
<1> USE MessagesAssumption, FaultsAssumption DEF InHand, Pending, Answers, Many
<1>1. ASSUME NEW m \in Messages, StartMail(m) PROVE TypeOK' /\ WorkerPlace'
  BY <1>1 DEF StartMail, TypeOK, WorkerPlace, sender, queue, worker, calls,
      peer, back
<1>2. ASSUME NEW m \in Messages, AbandonMail(m) PROVE TypeOK' /\ WorkerPlace'
  BY <1>2 DEF AbandonMail, TypeOK, WorkerPlace, sender, queue, worker,
      calls, peer, back
<1>3. ASSUME NEW m \in Messages, FinishMail(m) PROVE TypeOK' /\ WorkerPlace'
  BY <1>3 DEF FinishMail, TypeOK, WorkerPlace, sender, queue, worker, calls,
      peer, back
<1>4. ASSUME NEW m \in Messages, Older(m) PROVE TypeOK' /\ WorkerPlace'
  BY <1>4 DEF Older, TypeOK, WorkerPlace, sender, queue, worker, calls,
      peer, back
<1>5. ASSUME NEW m \in Messages, ComesDue(m) PROVE TypeOK' /\ WorkerPlace'
  BY <1>5 DEF ComesDue, TypeOK, WorkerPlace, sender, queue, worker, calls,
      peer, back
<1>6. ASSUME Peering PROVE TypeOK' /\ WorkerPlace'
  BY <1>6 DEF Peering, TypeOK, WorkerPlace, sender, queue, worker, calls,
      peer, back
<1>7. ASSUME Scan PROVE TypeOK' /\ WorkerPlace'
  BY <1>7 DEF Scan, Step, TypeOK, WorkerPlace, sender, queue, worker, calls,
      peer, back
<1>8. ASSUME NextRow PROVE TypeOK' /\ WorkerPlace'
  BY <1>8 DEF NextRow, Step, TypeOK, WorkerPlace, sender, queue, worker,
      calls, peer, back
<1>9. ASSUME NotAPeer PROVE TypeOK' /\ WorkerPlace'
  BY <1>9 DEF NotAPeer, Step, Fails, TypeOK, WorkerPlace, sender, queue,
      worker, calls, peer, back
<1>10. ASSUME Dial PROVE TypeOK' /\ WorkerPlace'
  BY <1>10 DEF Dial, Step, TypeOK, WorkerPlace, sender, queue, worker,
      calls, peer, back
<1>11. ASSUME Unreachable PROVE TypeOK' /\ WorkerPlace'
  BY <1>11 DEF Unreachable, Step, TypeOK, WorkerPlace, sender, queue,
      worker, calls, peer, back
<1>12. ASSUME ReadAnswer PROVE TypeOK' /\ WorkerPlace'
  BY <1>12 DEF ReadAnswer, TypeOK, WorkerPlace, sender, queue, worker,
      calls, peer, back
<1>13. ASSUME GiveUp PROVE TypeOK' /\ WorkerPlace'
  BY <1>13 DEF GiveUp, Step, TypeOK, WorkerPlace, sender, queue, worker,
      calls, peer, back
<1>14. ASSUME Reschedule PROVE TypeOK' /\ WorkerPlace'
  BY <1>14 DEF Reschedule, Step, Fails, TypeOK, WorkerPlace, sender, queue,
      worker, calls, peer, back
<1>15. ASSUME ReturnIt PROVE TypeOK' /\ WorkerPlace'
  BY <1>15 DEF ReturnIt, Step, Fails, TypeOK, WorkerPlace, sender, queue,
      worker, calls, peer, back
<1>16. ASSUME Delete PROVE TypeOK' /\ WorkerPlace'
  BY <1>16 DEF Delete, Fails, TypeOK, WorkerPlace, sender, queue, worker,
      calls, peer, back
<1>17. ASSUME AutoReply PROVE TypeOK' /\ WorkerPlace'
  BY <1>17, FaultsAssumption DEF AutoReply, Step, Fails, TypeOK, WorkerPlace,
      sender, queue, worker, calls, peer, back
<1>18. ASSUME Broken PROVE TypeOK' /\ WorkerPlace'
  BY <1>18 DEF Broken, Step, Cut, TypeOK, WorkerPlace, sender, queue,
      worker, calls, peer, back
<1>19. ASSUME Restart PROVE TypeOK' /\ WorkerPlace'
  BY <1>19 DEF Restart, Cut, TypeOK, WorkerPlace, sender, queue, worker,
      calls, peer, back
<1>20. ASSUME NEW m \in Remote, NEW w \in {"own", "stray"}, Refuse(m, w)
      PROVE  TypeOK' /\ WorkerPlace'
  BY <1>20 DEF Refuse, Becomes, At, TypeOK, WorkerPlace, sender, queue,
      worker, calls, peer, back
<1>21. ASSUME NEW m \in Remote, NEW w \in {"own", "stray"}, Reject(m, w)
      PROVE  TypeOK' /\ WorkerPlace'
  BY <1>21 DEF Reject, Fails, Becomes, At, TypeOK, WorkerPlace, sender,
      queue, worker, calls, peer, back
<1>22. ASSUME NEW m \in Remote, NEW w \in {"own", "stray"}, Store(m, w)
      PROVE  TypeOK' /\ WorkerPlace'
  BY <1>22 DEF Store, OneMore, Many, Becomes, At, TypeOK, WorkerPlace,
      sender, queue, worker, calls, peer, back
<1>23. ASSUME NEW m \in Remote, NEW w \in {"own", "stray"}, CheckVacation(m, w)
      PROVE  TypeOK' /\ WorkerPlace'
  BY <1>23, FaultsAssumption DEF CheckVacation, Fails, Becomes, At, TypeOK, WorkerPlace,
      sender, queue, worker, calls, peer, back
<1>24. ASSUME NEW m \in Remote, NEW w \in {"own", "stray"}, RecordVacation(m, w)
      PROVE  TypeOK' /\ WorkerPlace'
  <2>1. \/ replied' = TRUE /\ UNCHANGED <<faults, unrecorded>>
        \/ UNCHANGED replied /\ Fails("record") /\ unrecorded' = unrecorded + 1
    BY <1>24 DEF RecordVacation
  <2>3. faults' \in 0 .. MaxFaults /\ unrecorded' \in Nat
    BY <2>1, FailsCounts DEF TypeOK
  <2>4. WorkerPlace'
    BY <1>24 DEF RecordVacation, WorkerPlace, sender, queue, worker
  <2>5. replied' \in BOOLEAN
    BY <2>1, Zenon DEF TypeOK
  <2>2. request' \in Pending \cup Answers \cup {"none"} /\ stray' \in [Messages -> Pending \cup {"none"}]
    BY <1>24 DEF RecordVacation, Becomes, At, TypeOK
  <2> QED
    BY <1>24, <2>2, <2>3, <2>4, <2>5 DEF RecordVacation, TypeOK, sender, queue, worker, back
<1>25. ASSUME UNCHANGED vars PROVE TypeOK' /\ WorkerPlace'
  BY <1>25 DEF TypeOK, WorkerPlace, vars, sender, queue, worker, calls,
      peer, back
<1>26. QED
  BY <1>1, <1>2, <1>3, <1>4, <1>5, <1>6, <1>7, <1>8, <1>9, <1>10, <1>11,
      <1>12, <1>13, <1>14, <1>15, <1>16, <1>17, <1>18, <1>19, <1>20, <1>21,
      <1>22, <1>23, <1>24, <1>25 DEF Next, Worker, Receiver, Serve

\* The requests and the worker agree.
LEMMA RequestsAgree ==
    ASSUME TypeOK, TypeOK', WorkerPlace, WorkerPlace', RequestPlace, [Next]_vars
    PROVE  RequestPlace'
<1> USE MessagesAssumption DEF InHand, Pending, Answers
<1>1. ASSUME NEW m \in Messages, StartMail(m) PROVE RequestPlace'
  BY <1>1 DEF StartMail, TypeOK, WorkerPlace, RequestPlace, sender, queue,
      worker, calls, peer, back
<1>2. ASSUME NEW m \in Messages, AbandonMail(m) PROVE RequestPlace'
  BY <1>2 DEF AbandonMail, TypeOK, WorkerPlace, RequestPlace, sender, queue,
      worker, calls, peer, back
<1>3. ASSUME NEW m \in Messages, FinishMail(m) PROVE RequestPlace'
  BY <1>3 DEF FinishMail, TypeOK, WorkerPlace, RequestPlace, sender, queue,
      worker, calls, peer, back
<1>4. ASSUME NEW m \in Messages, Older(m) PROVE RequestPlace'
  BY <1>4 DEF Older, TypeOK, WorkerPlace, RequestPlace, sender, queue,
      worker, calls, peer, back
<1>5. ASSUME NEW m \in Messages, ComesDue(m) PROVE RequestPlace'
  BY <1>5 DEF ComesDue, TypeOK, WorkerPlace, RequestPlace, sender, queue,
      worker, calls, peer, back
<1>6. ASSUME Peering PROVE RequestPlace'
  BY <1>6 DEF Peering, TypeOK, WorkerPlace, RequestPlace, sender, queue,
      worker, calls, peer, back
<1>7. ASSUME Scan PROVE RequestPlace'
  BY <1>7 DEF Scan, Step, TypeOK, WorkerPlace, RequestPlace, sender, queue,
      worker, calls, peer, back
<1>8. ASSUME NextRow PROVE RequestPlace'
  BY <1>8 DEF NextRow, Step, TypeOK, WorkerPlace, RequestPlace, sender,
      queue, worker, calls, peer, back
<1>9. ASSUME NotAPeer PROVE RequestPlace'
  BY <1>9 DEF NotAPeer, Step, Fails, TypeOK, WorkerPlace, RequestPlace,
      sender, queue, worker, calls, peer, back
<1>10. ASSUME Dial PROVE RequestPlace'
  BY <1>10 DEF Dial, Step, TypeOK, WorkerPlace, RequestPlace, sender, queue,
      worker, calls, peer, back
<1>11. ASSUME Unreachable PROVE RequestPlace'
  BY <1>11 DEF Unreachable, Step, TypeOK, WorkerPlace, RequestPlace, sender,
      queue, worker, calls, peer, back
<1>12. ASSUME ReadAnswer PROVE RequestPlace'
  BY <1>12 DEF ReadAnswer, TypeOK, WorkerPlace, RequestPlace, sender, queue,
      worker, calls, peer, back
<1>13. ASSUME GiveUp PROVE RequestPlace'
  BY <1>13 DEF GiveUp, Step, TypeOK, WorkerPlace, RequestPlace, sender,
      queue, worker, calls, peer, back
<1>14. ASSUME Reschedule PROVE RequestPlace'
  BY <1>14 DEF Reschedule, Step, Fails, TypeOK, WorkerPlace, RequestPlace,
      sender, queue, worker, calls, peer, back
<1>15. ASSUME ReturnIt PROVE RequestPlace'
  BY <1>15 DEF ReturnIt, Step, Fails, TypeOK, WorkerPlace, RequestPlace,
      sender, queue, worker, calls, peer, back
<1>16. ASSUME Delete PROVE RequestPlace'
  BY <1>16 DEF Delete, Fails, TypeOK, WorkerPlace, RequestPlace, sender,
      queue, worker, calls, peer, back
<1>17. ASSUME AutoReply PROVE RequestPlace'
  BY <1>17 DEF AutoReply, Step, OneMore, Many, TypeOK, WorkerPlace,
      RequestPlace, sender, queue, worker, calls, peer, back
<1>18. ASSUME Broken PROVE RequestPlace'
  BY <1>18 DEF Broken, Step, Cut, TypeOK, WorkerPlace, RequestPlace, sender,
      queue, worker, calls, peer, back
<1>19. ASSUME Restart PROVE RequestPlace'
  BY <1>19 DEF Restart, Cut, TypeOK, WorkerPlace, RequestPlace, sender,
      queue, worker, calls, peer, back
<1>20. ASSUME NEW m \in Remote, NEW w \in {"own", "stray"}, Refuse(m, w)
      PROVE  RequestPlace'
  BY <1>20 DEF Refuse, Becomes, At, TypeOK, WorkerPlace, RequestPlace,
      sender, queue, worker, calls, peer, back
<1>21. ASSUME NEW m \in Remote, NEW w \in {"own", "stray"}, Reject(m, w)
      PROVE  RequestPlace'
  BY <1>21 DEF Reject, Fails, Becomes, At, TypeOK, WorkerPlace,
      RequestPlace, sender, queue, worker, calls, peer, back
<1>22. ASSUME NEW m \in Remote, NEW w \in {"own", "stray"}, Store(m, w)
      PROVE  RequestPlace'
  BY <1>22 DEF Store, OneMore, Many, Becomes, At, TypeOK, WorkerPlace,
      RequestPlace, sender, queue, worker, calls, peer, back
<1>23. ASSUME NEW m \in Remote, NEW w \in {"own", "stray"}, CheckVacation(m, w)
      PROVE  RequestPlace'
  BY <1>23 DEF CheckVacation, Becomes, At, TypeOK, WorkerPlace,
      RequestPlace, sender, queue, worker, calls, peer, back
<1>24. ASSUME NEW m \in Remote, NEW w \in {"own", "stray"}, RecordVacation(m, w)
      PROVE  RequestPlace'
  BY <1>24 DEF RecordVacation, Becomes, At, TypeOK, WorkerPlace,
      RequestPlace, sender, queue, worker, calls, peer, back
<1>25. ASSUME UNCHANGED vars PROVE RequestPlace'
  BY <1>25 DEF TypeOK, WorkerPlace, RequestPlace, vars, sender, queue,
      worker, calls, peer, back
<1>26. QED
  BY <1>1, <1>2, <1>3, <1>4, <1>5, <1>6, <1>7, <1>8, <1>9, <1>10, <1>11,
      <1>12, <1>13, <1>14, <1>15, <1>16, <1>17, <1>18, <1>19, <1>20, <1>21,
      <1>22, <1>23, <1>24, <1>25 DEF Next, Worker, Receiver, Serve

\* Nothing vanishes, and only doubt doubles.
LEMMA FatesHold ==
    ASSUME ReturnsSucceed, TypeOK, TypeOK', WorkerPlace, WorkerPlace',
           RequestPlace, RequestPlace', NothingVanishes, Fate, [Next]_vars
    PROVE  NothingVanishes' /\ Fate'
<1> USE MessagesAssumption DEF InHand, Pending, Answers, Served, Many
<1>1. ASSUME NEW m \in Messages, StartMail(m) PROVE NothingVanishes' /\ Fate'
  BY <1>1 DEF StartMail, TypeOK, WorkerPlace, RequestPlace, NothingVanishes,
      Fate, sender, queue, worker, calls, peer, back
<1>2. ASSUME NEW m \in Messages, AbandonMail(m)
      PROVE  NothingVanishes' /\ Fate'
  BY <1>2 DEF AbandonMail, TypeOK, WorkerPlace, RequestPlace,
      NothingVanishes, Fate, sender, queue, worker, calls, peer, back
<1>3. ASSUME NEW m \in Messages, FinishMail(m) PROVE NothingVanishes' /\ Fate'
  BY <1>3 DEF FinishMail, TypeOK, WorkerPlace, RequestPlace,
      NothingVanishes, Fate, sender, queue, worker, calls, peer, back
<1>4. ASSUME NEW m \in Messages, Older(m) PROVE NothingVanishes' /\ Fate'
  BY <1>4 DEF Older, TypeOK, WorkerPlace, RequestPlace, NothingVanishes,
      Fate, sender, queue, worker, calls, peer, back
<1>5. ASSUME NEW m \in Messages, ComesDue(m) PROVE NothingVanishes' /\ Fate'
  BY <1>5 DEF ComesDue, TypeOK, WorkerPlace, RequestPlace, NothingVanishes,
      Fate, sender, queue, worker, calls, peer, back
<1>6. ASSUME Peering PROVE NothingVanishes' /\ Fate'
  BY <1>6 DEF Peering, TypeOK, WorkerPlace, RequestPlace, NothingVanishes,
      Fate, sender, queue, worker, calls, peer, back
<1>7. ASSUME Scan PROVE NothingVanishes' /\ Fate'
  BY <1>7 DEF Scan, Step, TypeOK, WorkerPlace, RequestPlace,
      NothingVanishes, Fate, sender, queue, worker, calls, peer, back
<1>8. ASSUME NextRow PROVE NothingVanishes' /\ Fate'
  BY <1>8 DEF NextRow, Step, TypeOK, WorkerPlace, RequestPlace,
      NothingVanishes, Fate, sender, queue, worker, calls, peer, back
<1>9. ASSUME NotAPeer PROVE NothingVanishes' /\ Fate'
  BY <1>9 DEF NotAPeer, Step, Fails, TypeOK, WorkerPlace, RequestPlace,
      NothingVanishes, Fate, sender, queue, worker, calls, peer, back
<1>10. ASSUME Dial PROVE NothingVanishes' /\ Fate'
  BY <1>10 DEF Dial, Step, TypeOK, WorkerPlace, RequestPlace,
      NothingVanishes, Fate, sender, queue, worker, calls, peer, back
<1>11. ASSUME Unreachable PROVE NothingVanishes' /\ Fate'
  BY <1>11 DEF Unreachable, Step, TypeOK, WorkerPlace, RequestPlace,
      NothingVanishes, Fate, sender, queue, worker, calls, peer, back
<1>12. ASSUME ReadAnswer PROVE NothingVanishes' /\ Fate'
  BY <1>12 DEF ReadAnswer, TypeOK, WorkerPlace, RequestPlace,
      NothingVanishes, Fate, sender, queue, worker, calls, peer, back
<1>13. ASSUME GiveUp PROVE NothingVanishes' /\ Fate'
  BY <1>13 DEF GiveUp, Step, TypeOK, WorkerPlace, RequestPlace,
      NothingVanishes, Fate, sender, queue, worker, calls, peer, back
<1>14. ASSUME Reschedule PROVE NothingVanishes' /\ Fate'
  BY <1>14 DEF Reschedule, Step, Fails, TypeOK, WorkerPlace, RequestPlace,
      NothingVanishes, Fate, sender, queue, worker, calls, peer, back
<1>15. ASSUME ReturnIt PROVE NothingVanishes' /\ Fate'
  <2>1. bounced' = bounced \cup {cur}
    BY <1>15 DEF ReturnIt, Fails, ReturnsSucceed
  <2>2. QED
    BY <1>15, <2>1 DEF ReturnIt, Step, TypeOK, WorkerPlace, RequestPlace,
        NothingVanishes, Fate, sender, queue, worker, calls, peer, back
<1>16. ASSUME Delete PROVE NothingVanishes' /\ Fate'
  BY <1>16 DEF Delete, Fails, TypeOK, WorkerPlace, RequestPlace,
      NothingVanishes, Fate, sender, queue, worker, calls, peer, back
<1>17. ASSUME AutoReply PROVE NothingVanishes' /\ Fate'
  BY <1>17 DEF AutoReply, Step, OneMore, Many, TypeOK, WorkerPlace,
      RequestPlace, NothingVanishes, Fate, sender, queue, worker, calls,
      peer, back
<1>18. ASSUME Broken PROVE NothingVanishes' /\ Fate'
  BY <1>18 DEF Broken, Step, Cut, TypeOK, WorkerPlace, RequestPlace,
      NothingVanishes, Fate, sender, queue, worker, calls, peer, back
<1>19. ASSUME Restart PROVE NothingVanishes' /\ Fate'
  BY <1>19 DEF Restart, Cut, TypeOK, WorkerPlace, RequestPlace,
      NothingVanishes, Fate, sender, queue, worker, calls, peer, back
<1>20. ASSUME NEW m \in Remote, NEW w \in {"own", "stray"}, Refuse(m, w)
      PROVE  NothingVanishes' /\ Fate'
  BY <1>20 DEF Refuse, Becomes, At, TypeOK, WorkerPlace, RequestPlace,
      NothingVanishes, Fate, sender, queue, worker, calls, peer, back
<1>21. ASSUME NEW m \in Remote, NEW w \in {"own", "stray"}, Reject(m, w)
      PROVE  NothingVanishes' /\ Fate'
  BY <1>21 DEF Reject, Fails, Becomes, At, TypeOK, WorkerPlace,
      RequestPlace, NothingVanishes, Fate, sender, queue, worker, calls,
      peer, back
<1>22. ASSUME NEW m \in Remote, NEW w \in {"own", "stray"}, Store(m, w)
      PROVE  NothingVanishes' /\ Fate'
  BY <1>22 DEF Store, OneMore, Many, Becomes, At, TypeOK, WorkerPlace,
      RequestPlace, NothingVanishes, Fate, sender, queue, worker, calls,
      peer, back
<1>23. ASSUME NEW m \in Remote, NEW w \in {"own", "stray"}, CheckVacation(m, w)
      PROVE  NothingVanishes' /\ Fate'
  BY <1>23 DEF CheckVacation, Becomes, At, TypeOK, WorkerPlace,
      RequestPlace, NothingVanishes, Fate, sender, queue, worker, calls,
      peer, back
<1>24. ASSUME NEW m \in Remote, NEW w \in {"own", "stray"}, RecordVacation(m, w)
      PROVE  NothingVanishes' /\ Fate'
  BY <1>24 DEF RecordVacation, Becomes, At, TypeOK, WorkerPlace,
      RequestPlace, NothingVanishes, Fate, sender, queue, worker, calls,
      peer, back
<1>25. ASSUME UNCHANGED vars PROVE NothingVanishes' /\ Fate'
  BY <1>25 DEF TypeOK, WorkerPlace, RequestPlace, NothingVanishes, Fate,
      vars, sender, queue, worker, calls, peer, back
<1>26. QED
  BY <1>1, <1>2, <1>3, <1>4, <1>5, <1>6, <1>7, <1>8, <1>9, <1>10, <1>11,
      <1>12, <1>13, <1>14, <1>15, <1>16, <1>17, <1>18, <1>19, <1>20, <1>21,
      <1>22, <1>23, <1>24, <1>25 DEF Next, Worker, Receiver, Serve

\* One auto-reply.
LEMMA OneReplyHolds ==
    ASSUME TypeOK, TypeOK', WorkerPlace, WorkerPlace', RequestPlace, RequestPlace',
           Replying, [Next]_vars
    PROVE  Replying'
<1> USE MessagesAssumption DEF InHand, Pending, Answers, Many
<1>1. ASSUME NEW m \in Messages, StartMail(m) PROVE Replying'
  BY <1>1 DEF StartMail, TypeOK, WorkerPlace, RequestPlace, Replying,
      sender, queue, worker, calls, peer, back
<1>2. ASSUME NEW m \in Messages, AbandonMail(m) PROVE Replying'
  BY <1>2 DEF AbandonMail, TypeOK, WorkerPlace, RequestPlace, Replying,
      sender, queue, worker, calls, peer, back
<1>3. ASSUME NEW m \in Messages, FinishMail(m) PROVE Replying'
  BY <1>3 DEF FinishMail, TypeOK, WorkerPlace, RequestPlace, Replying,
      sender, queue, worker, calls, peer, back
<1>4. ASSUME NEW m \in Messages, Older(m) PROVE Replying'
  BY <1>4 DEF Older, TypeOK, WorkerPlace, RequestPlace, Replying, sender,
      queue, worker, calls, peer, back
<1>5. ASSUME NEW m \in Messages, ComesDue(m) PROVE Replying'
  BY <1>5 DEF ComesDue, TypeOK, WorkerPlace, RequestPlace, Replying, sender,
      queue, worker, calls, peer, back
<1>6. ASSUME Peering PROVE Replying'
  BY <1>6 DEF Peering, TypeOK, WorkerPlace, RequestPlace, Replying, sender,
      queue, worker, calls, peer, back
<1>7. ASSUME Scan PROVE Replying'
  BY <1>7 DEF Scan, Step, TypeOK, WorkerPlace, RequestPlace, Replying,
      sender, queue, worker, calls, peer, back
<1>8. ASSUME NextRow PROVE Replying'
  BY <1>8 DEF NextRow, Step, TypeOK, WorkerPlace, RequestPlace, Replying,
      sender, queue, worker, calls, peer, back
<1>9. ASSUME NotAPeer PROVE Replying'
  BY <1>9 DEF NotAPeer, Step, Fails, TypeOK, WorkerPlace, RequestPlace,
      Replying, sender, queue, worker, calls, peer, back
<1>10. ASSUME Dial PROVE Replying'
  BY <1>10 DEF Dial, Step, TypeOK, WorkerPlace, RequestPlace, Replying,
      sender, queue, worker, calls, peer, back
<1>11. ASSUME Unreachable PROVE Replying'
  BY <1>11 DEF Unreachable, Step, TypeOK, WorkerPlace, RequestPlace,
      Replying, sender, queue, worker, calls, peer, back
<1>12. ASSUME ReadAnswer PROVE Replying'
  BY <1>12 DEF ReadAnswer, TypeOK, WorkerPlace, RequestPlace, Replying,
      sender, queue, worker, calls, peer, back
<1>13. ASSUME GiveUp PROVE Replying'
  BY <1>13 DEF GiveUp, Step, TypeOK, WorkerPlace, RequestPlace, Replying,
      sender, queue, worker, calls, peer, back
<1>14. ASSUME Reschedule PROVE Replying'
  BY <1>14 DEF Reschedule, Step, Fails, TypeOK, WorkerPlace, RequestPlace,
      Replying, sender, queue, worker, calls, peer, back
<1>15. ASSUME ReturnIt PROVE Replying'
  BY <1>15 DEF ReturnIt, Step, Fails, TypeOK, WorkerPlace, RequestPlace,
      Replying, sender, queue, worker, calls, peer, back
<1>16. ASSUME Delete PROVE Replying'
  BY <1>16 DEF Delete, Fails, TypeOK, WorkerPlace, RequestPlace, Replying,
      sender, queue, worker, calls, peer, back
<1>17. ASSUME AutoReply PROVE Replying'
  BY <1>17 DEF AutoReply, Step, OneMore, Many, TypeOK, WorkerPlace,
      RequestPlace, Replying, sender, queue, worker, calls, peer, back
<1>18. ASSUME Broken PROVE Replying'
  BY <1>18 DEF Broken, Step, Cut, TypeOK, WorkerPlace, RequestPlace,
      Replying, sender, queue, worker, calls, peer, back
<1>19. ASSUME Restart PROVE Replying'
  BY <1>19 DEF Restart, Cut, TypeOK, WorkerPlace, RequestPlace, Replying,
      sender, queue, worker, calls, peer, back
<1>20. ASSUME NEW m \in Remote, NEW w \in {"own", "stray"}, Refuse(m, w)
      PROVE  Replying'
  BY <1>20 DEF Refuse, Becomes, At, TypeOK, WorkerPlace, RequestPlace,
      Replying, sender, queue, worker, calls, peer, back
<1>21. ASSUME NEW m \in Remote, NEW w \in {"own", "stray"}, Reject(m, w)
      PROVE  Replying'
  BY <1>21 DEF Reject, Fails, Becomes, At, TypeOK, WorkerPlace,
      RequestPlace, Replying, sender, queue, worker, calls, peer, back
<1>22. ASSUME NEW m \in Remote, NEW w \in {"own", "stray"}, Store(m, w)
      PROVE  Replying'
  BY <1>22 DEF Store, OneMore, Many, Becomes, At, TypeOK, WorkerPlace,
      RequestPlace, Replying, sender, queue, worker, calls, peer, back
<1>23. ASSUME NEW m \in Remote, NEW w \in {"own", "stray"}, CheckVacation(m, w)
      PROVE  Replying'
  BY <1>23 DEF CheckVacation, Becomes, At, TypeOK, WorkerPlace,
      RequestPlace, Replying, sender, queue, worker, calls, peer, back
<1>24. ASSUME NEW m \in Remote, NEW w \in {"own", "stray"}, RecordVacation(m, w)
      PROVE  Replying'
  <2>1. /\ UNCHANGED <<pc, replies>>
        /\ \/ request' = request
           \/ request = "replying" /\ request' = "vacation"
    <3>1. UNCHANGED <<pc, replies>>
      BY <1>24 DEF RecordVacation, worker, back
    <3>2. CASE w = "stray"
      BY <1>24, <3>1, <3>2 DEF RecordVacation, Becomes
    <3>3. CASE w = "own"
      BY <1>24, <3>1, <3>3 DEF RecordVacation, Becomes, At
    <3> QED
      BY <3>2, <3>3
  <2>2. CASE replied' = TRUE /\ UNCHANGED unrecorded
    <3>1. replies <= 1 + unrecorded /\ (request \in {"replying", "vacation"} \/ pc = "autoreply" => replies <= unrecorded)
      BY DEF Replying
    <3>2. (~replied')  = FALSE
      BY <2>2
    <3> QED
      BY <2>1, <2>2, <3>1, <3>2 DEF TypeOK, Replying
  <2>3. CASE UNCHANGED replied /\ unrecorded' = unrecorded + 1
    BY <2>1, <2>3 DEF TypeOK, Replying
  <2> QED
    BY <1>24, <2>2, <2>3 DEF RecordVacation
<1>25. ASSUME UNCHANGED vars PROVE Replying'
  BY <1>25 DEF TypeOK, WorkerPlace, RequestPlace, Replying, vars, sender,
      queue, worker, calls, peer, back
<1>26. QED
  BY <1>1, <1>2, <1>3, <1>4, <1>5, <1>6, <1>7, <1>8, <1>9, <1>10, <1>11,
      <1>12, <1>13, <1>14, <1>15, <1>16, <1>17, <1>18, <1>19, <1>20, <1>21,
      <1>22, <1>23, <1>24, <1>25 DEF Next, Worker, Receiver, Serve

-----------------------------------------------------------------------------
LEMMA MailStarts == Init => IInv
<1> SUFFICES ASSUME Init PROVE IInv
  OBVIOUS
<1>1. TypeOK
  <2>1. 0 \in 0 .. MaxFaults /\ 0 \in 0 .. Many
    BY FaultsAssumption DEF Many
  <2>2. /\ age \in [Messages -> {"hour", "day", "old"}]
        /\ stray \in [Messages -> Pending \cup {"none"}]
        /\ inbox \in [Messages -> 0 .. Many]
    BY <2>1 DEF Init
  <2>3. QED
    BY <2>1, <2>2 DEF Init, TypeOK
<1>2. WorkerPlace /\ RequestPlace /\ NothingVanishes /\ Replying
  BY MessagesAssumption
  DEF Init, WorkerPlace, RequestPlace, NothingVanishes, Replying, InHand, Pending
<1>3. Fate
  BY MessagesAssumption DEF Init, Fate, Served
<1>4. QED
  BY <1>1, <1>2, <1>3 DEF IInv

THEOREM MailIInvHolds == ASSUME ReturnsSucceed PROVE Spec => []IInv
<1>1. IInv /\ [Next]_vars => IInv'
  <2> SUFFICES ASSUME IInv, [Next]_vars PROVE IInv'
    OBVIOUS
  <2>1. TypeOK /\ WorkerPlace /\ RequestPlace /\ NothingVanishes /\ Fate /\ Replying
    BY DEF IInv
  <2>2. TypeOK' /\ WorkerPlace'
    BY <2>1, BaseHolds
  <2>3. RequestPlace'
    BY <2>1, <2>2, RequestsAgree
  <2>4. NothingVanishes' /\ Fate'
    BY <2>1, <2>2, <2>3, FatesHold
  <2>5. Replying'
    BY <2>1, <2>2, <2>3, OneReplyHolds
  <2>6. QED
    BY <2>2, <2>3, <2>4, <2>5 DEF IInv
<1>2. QED
  BY MailStarts, <1>1, PTL DEF Spec

\* Types, for any messages and number of faults; what the worker has in hand
\* was sent to another node, and what is due is queued.
THEOREM MailTypeCorrect == Spec => []TypeOK
<1>1. Init => TypeOK /\ WorkerPlace
  BY MailStarts DEF IInv
<1>2. TypeOK /\ WorkerPlace /\ [Next]_vars => TypeOK' /\ WorkerPlace'
  BY BaseHolds
<1>3. QED
  BY <1>1, <1>2, PTL DEF Spec

\* A message is queued, delivered or returned, wherever the node stopped.
THEOREM MailNeverVanishes == ASSUME ReturnsSucceed PROVE Spec => []NothingVanishes
<1>1. IInv => NothingVanishes
  BY DEF IInv
<1>2. QED
  BY <1>1, MailIInvHolds, PTL

\* Duplicates, and mail both delivered and returned, come only of attempts
\* that ended before the worker had read the answer and acted on it.
THEOREM OnlyDoubtDoubles == ASSUME ReturnsSucceed PROVE Spec => []OneFateUnlessInDoubt
<1>1. IInv => OneFateUnlessInDoubt
  BY DEF IInv, Fate, OneFateUnlessInDoubt
<1>2. QED
  BY <1>1, MailIInvHolds, PTL

\* One auto-reply per sender, and one for each record that failed.
THEOREM AutoRepliesOnce == ASSUME ReturnsSucceed PROVE Spec => []OneAutoReply
<1>1. IInv => OneAutoReply
  BY DEF IInv, Replying, OneAutoReply
<1>2. QED
  BY <1>1, MailIInvHolds, PTL

-----------------------------------------------------------------------------
\* The abstract specification

\* A request is about a message that was sent, and so is a stray.
LEMMA ServedIsSent ==
    ASSUME TypeOK, WorkerPlace, RequestPlace, NEW m \in Remote, NEW w \in {"own", "stray"}, At(m, w) = "sent"
    PROVE  m \in sent
<1>1. CASE w = "stray" BY <1>1 DEF At, RequestPlace, TypeOK
<1>2. CASE w = "own" BY <1>2 DEF At, RequestPlace, WorkerPlace, InHand, Pending, TypeOK
<1> QED BY <1>1, <1>2

\* What a step of the node, the worker or the peer is to the fates of mail.
LEMMA FatesMove ==
    ASSUME TypeOK, WorkerPlace, RequestPlace, [Next]_vars
    PROVE  [Mail!Next]_(Mail!fates)
<1> DEFINE accepted == sent \cap Remote
           delivered == {m \in Remote : inbox[m] > 0}
<1>1. ASSUME UNCHANGED <<sent, inbox, bounced>> PROVE UNCHANGED Mail!fates
  BY <1>1 DEF Mail!fates
<1>2. ASSUME NEW m \in Messages, StartMail(m) \/ AbandonMail(m) \/ Older(m) \/ ComesDue(m)
      PROVE  UNCHANGED Mail!fates
  BY <1>1, <1>2 DEF StartMail, AbandonMail, Older, ComesDue, sender, peer, back
<1>3. ASSUME NEW m \in Messages, FinishMail(m) PROVE [Mail!Next]_(Mail!fates)
  <2>1. m \in writing /\ m \notin sent /\ sent' = sent \cup {m} /\ UNCHANGED <<inbox, bounced>>
    BY <1>3 DEF FinishMail, WorkerPlace, peer, back
  <2>2. CASE m \in Remote
    <3>1. Mail!Accept(m) BY <2>1, <2>2 DEF Mail!Accept
    <3> QED BY <2>2, <3>1 DEF Mail!Next
  <2>3. CASE m \notin Remote BY <2>1, <2>3 DEF Mail!fates
  <2> QED BY <2>2, <2>3
<1>4. ASSUME Peering \/ Scan \/ NextRow \/ NotAPeer \/ Dial \/ Unreachable \/ ReadAnswer \/ GiveUp \/ Reschedule
      PROVE  UNCHANGED Mail!fates
  BY <1>1, <1>4 DEF Peering, Scan, NextRow, NotAPeer, Dial, Unreachable, ReadAnswer, GiveUp, Reschedule,
                    sender, peer, back
<1>5. ASSUME Delete \/ AutoReply \/ Broken \/ Restart PROVE UNCHANGED Mail!fates
  BY <1>1, <1>5 DEF Delete, AutoReply, Broken, Restart, sender, peer, back
<1>6. ASSUME ReturnIt PROVE [Mail!Next]_(Mail!fates)
  <2>1. UNCHANGED <<sent, inbox>> BY <1>6 DEF ReturnIt, sender, peer
  <2>2. cur \in sent \cap Remote BY <1>6 DEF ReturnIt, Step, WorkerPlace, InHand, TypeOK
  <2>3. CASE bounced' = bounced \cup {cur} /\ cur \notin bounced
    <3>1. Mail!Return(cur) BY <2>1, <2>2, <2>3 DEF Mail!Return
    <3> QED BY <2>2, <3>1 DEF Mail!Next
  <2>4. CASE UNCHANGED bounced BY <1>1, <2>1, <2>4
  <2> QED BY <1>6, <2>3, <2>4 DEF ReturnIt
<1>7. ASSUME NEW m \in Remote, NEW w \in {"own", "stray"},
             Refuse(m, w) \/ Reject(m, w) \/ CheckVacation(m, w) \/ RecordVacation(m, w)
      PROVE  UNCHANGED Mail!fates
  BY <1>1, <1>7 DEF Refuse, Reject, CheckVacation, RecordVacation, sender, peer, back
<1>8. ASSUME NEW m \in Remote, NEW w \in {"own", "stray"}, Store(m, w) PROVE [Mail!Next]_(Mail!fates)
  <2>1. m \in sent BY <1>8, ServedIsSent DEF Store
  <2>2. inbox' = [inbox EXCEPT ![m] = OneMore(inbox[m])] /\ UNCHANGED <<sent, bounced>>
    BY <1>8 DEF Store, sender, back
  <2>3. inbox \in [Messages -> 0 .. 2] /\ m \in Messages BY MessagesAssumption DEF TypeOK, Many
  <2>4. inbox'[m] > 0 /\ \A n \in Remote \ {m} : inbox'[n] = inbox[n]
    BY <2>2, <2>3, MessagesAssumption DEF OneMore, Many
  <2>5. delivered' = delivered \cup {m} BY <2>4
  <2>6. CASE m \in delivered
    <3>1. UNCHANGED Mail!fates BY <2>2, <2>5, <2>6 DEF Mail!fates
    <3> QED BY <3>1
  <2>7. CASE m \notin delivered
    <3>1. Mail!Deliver(m) BY <2>1, <2>2, <2>5, <2>7 DEF Mail!Deliver
    <3> QED BY <3>1 DEF Mail!Next
  <2> QED BY <2>6, <2>7
<1>9. CASE UNCHANGED vars BY <1>1, <1>9 DEF vars, sender, peer, back
<1> QED BY <1>2, <1>3, <1>4, <1>5, <1>6, <1>7, <1>8, <1>9 DEF Next, Worker, Receiver, Serve

\* Every behaviour of the two nodes, whichever statements fail, is one of
\* StoreForward's, liveness aside: nothing is delivered or returned that was
\* not accepted.
THEOREM MailRefinesStoreForward == Spec => Mail!Spec
<1>1. Init => Mail!Init BY MessagesAssumption DEF Init, Mail!Init
<1>2. Init => TypeOK /\ WorkerPlace /\ RequestPlace BY MailStarts DEF IInv
<1>3. TypeOK /\ WorkerPlace /\ RequestPlace /\ [Next]_vars => (TypeOK /\ WorkerPlace /\ RequestPlace)'
  BY BaseHolds, RequestsAgree
<1>4. TypeOK /\ WorkerPlace /\ RequestPlace /\ [Next]_vars => [Mail!Next]_(Mail!fates) BY FatesMove
<1> QED BY <1>1, <1>2, <1>3, <1>4, PTL DEF Spec, Mail!Spec

=============================================================================

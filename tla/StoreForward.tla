---------------------------- MODULE StoreForward ----------------------------
(***************************************************************************)
(* What a node promises for the mail its users send to other nodes         *)
(* (DESIGN.md 8.4): a message once accepted is delivered to its recipient  *)
(* or returned to its sender.  When an answer or a process is lost the     *)
(* sender cannot know which, so the same message may see both.             *)
(***************************************************************************)
CONSTANT Messages

VARIABLES accepted, delivered, returned   \* sets of messages

fates == <<accepted, delivered, returned>>

Init == accepted = {} /\ delivered = {} /\ returned = {}

Accept(m) ==
    /\ m \notin accepted
    /\ accepted' = accepted \cup {m}
    /\ UNCHANGED <<delivered, returned>>

Deliver(m) ==
    /\ m \in accepted \ delivered
    /\ delivered' = delivered \cup {m}
    /\ UNCHANGED <<accepted, returned>>

Return(m) ==
    /\ m \in accepted \ returned
    /\ returned' = returned \cup {m}
    /\ UNCHANGED <<accepted, delivered>>

Next == \E m \in Messages : Accept(m) \/ Deliver(m) \/ Return(m)

Spec == Init /\ [][Next]_fates

\* Nobody has to write; what was written does not wait for ever.
Settle(m) == m \notin delivered \cup returned /\ (Deliver(m) \/ Return(m))

FairSpec == Spec /\ \A m \in Messages : WF_fates(Settle(m))

=============================================================================

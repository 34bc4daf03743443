------------------------------- MODULE MCNode -------------------------------
(* What users of a node do at their terminals, one matter in each run: a    *)
(* talk between two nodes, the screen of a talk, sessions from door to      *)
(* logout, signing up, or lists and fortunes; the state spaces add up.      *)
EXTENDS TalkBridge, TalkScreen, Sessions, Signup, Community, TLC

CONSTANTS A, B, t1, t2, t3, p1, p2, b1, b2, b3, r1, r2, c1, c2, s1, s2, s3, s4,
          alice, bob, carol, root, wire, gate

VARIABLES matter    \* what this run is about

\* Talk: alice has two sessions at A; bob may answer, dial too, or be away.
MCNodeOf == (t1 :> A) @@ (t2 :> B) @@ (t3 :> A)
MCCasts ==
    {[dial |-> {t1}, fail |-> {t1}, answer |-> {t2}, type |-> {t1, t2}, quit |-> {t1, t2}],
     [dial |-> {t1, t2}, fail |-> {}, answer |-> {t1, t2}, type |-> {t1}, quit |-> {t1}],
     [dial |-> {t1, t3}, fail |-> {}, answer |-> {}, type |-> {t1}, quit |-> {t1}],
     [dial |-> {t1, t3}, fail |-> {}, answer |-> {}, type |-> {t1}, quit |-> {t3}],
     [dial |-> {t1, t3}, fail |-> {}, answer |-> {t2}, type |-> {t1}, quit |-> {}]}

\* The screen of alice, two columns wide, with two peers.
MCPeerName == (p1 :> bob) @@ (p2 :> carol)

\* Sessions: bob at a tab and on an SSH connection of two channels; root.
MCOwner == (b1 :> bob) @@ (b2 :> bob) @@ (b3 :> bob) @@ (r1 :> root) @@ (r2 :> root)
MCWire == (b1 :> b1) @@ (b2 :> wire) @@ (b3 :> wire) @@ (r1 :> r1) @@ (r2 :> r2)
Unused == [l \in Lines |-> {}]
MCUses ==
    {[Unused EXCEPT ![b1] = {"come", "mesg"}, ![b2] = {"come"}, ![r2] = {"come", "write"}],
     [Unused EXCEPT ![b2] = {"come", "biff"}, ![b3] = {"come"}, ![r2] = {"come", "wall", "mail"}],
     [Unused EXCEPT ![b1] = {"come"}, ![r2] = {"come", "ban"}],
     [Unused EXCEPT ![r1] = {"come", "ban"}, ![r2] = {"come", "ban"}]}

\* Signup: two browsers behind one address want one name.
MCMailOf == (c1 :> "mail1") @@ (c2 :> "mail2")
MCIpOf == (c1 :> gate) @@ (c2 :> gate)
MCErrands == {[c \in Clients |-> {"signup", "wait"}], [c \in Clients |-> {"signup", "confirm"}]}

\* Lists and fortunes: two sessions of a user, two of an admin.
MCSitter == (s1 :> alice) @@ (s2 :> alice) @@ (s3 :> root) @@ (s4 :> root)
Vacant == [s \in Seats |-> {}]
MCAgendas ==
    {[Vacant EXCEPT ![s1] = {"join"}, ![s2] = {"post"}, ![s3] = {"create", "remove", "flag"},
                    ![s4] = {"join"}],
     [Vacant EXCEPT ![s1] = {"submit"}, ![s2] = {"submit"}, ![s3] = {"review"}],
     [Vacant EXCEPT ![s1] = {"submit"}, ![s3] = {"review"}, ![s4] = {"review"}],
     [Vacant EXCEPT ![s1] = {"submit"}, ![s2] = {"submit"}, ![s3] = {"submit"}]}

MCInit ==
    /\ matter \in {"talk", "screen", "session", "signup", "community"}
    /\ TalkInit /\ ScreenInit /\ SessInit /\ SignInit /\ CommInit
    /\ matter = "talk"      \/ cast = CHOOSE c \in Casts : TRUE
    /\ matter = "session"   \/ uses = CHOOSE u \in Uses : TRUE
    /\ matter = "signup"    \/ errand = CHOOSE e \in Errands : TRUE
    /\ matter = "community" \/ agenda = CHOOSE a \in Agendas : TRUE

MCNext ==
    \/ matter = "talk" /\ TalkNext
       /\ UNCHANGED <<screenVars, sessVars, signVars, commVars>>
    \/ matter = "screen" /\ ScreenNext
       /\ UNCHANGED <<talkVars, sessVars, signVars, commVars>>
    \/ matter = "session" /\ SessNext
       /\ UNCHANGED <<talkVars, screenVars, signVars, commVars>>
    \/ matter = "signup" /\ SignNext
       /\ UNCHANGED <<talkVars, screenVars, sessVars, commVars>>
    \/ matter = "community" /\ CommNext
       /\ UNCHANGED <<talkVars, screenVars, sessVars, signVars>>

MCSpec ==
    MCInit /\ [][MCNext /\ UNCHANGED matter]_<<matter, talkVars, screenVars, sessVars, signVars, commVars>>
=============================================================================

--------------------------- MODULE Sessions_proofs ---------------------------
(***************************************************************************)
(* Proofs about sessions, for any lines, users, connections, admins,       *)
(* capacities and uses: the tables of a node agree, and a notice is never  *)
(* taken against a flag that the session knows to be off.                  *)
(***************************************************************************)
EXTENDS Sessions, SequenceTheorems, TLAPS

Auditing(l, u) == task[l] # Nothing /\ task[l].op = "audit" /\ task[l].of = u
SavingFlag(l, f) == task[l] # Nothing /\ task[l].op = "flag" /\ task[l].f = f

-----------------------------------------------------------------------------
\* The strengthening, one part for each table

\* An entry is at the id of its line, which is in a session.
EntriesPlaced ==
    \A i \in DOMAIN entry :
        entry[i] # NoEntry => IdOf(entry[i].line) = i /\ stage[entry[i].line] \in Inside

\* A session that never ran beside another of its connection has its entry.
AloneHasEntry ==
    \A l \in Lines : stage[l] \in Inside /\ l \notin shared =>
        entry[IdOf(l)] # NoEntry /\ entry[IdOf(l)].line = l

\* Two sessions under one id ran beside each other.
TwoAreShared ==
    \A l, m \in Lines : stage[l] \in Inside /\ stage[m] \in Inside /\ IdOf(l) = IdOf(m) /\ l # m
                            => l \in shared /\ m \in shared

\* Only a cut tab's context is cancelled, and only a cancelled one or a lapsed
\* logout leaves its history open.
HistoryTrue(l) ==
    /\ cut[l] => l \in Web
    /\ gone[l] => cut[l] /\ stage[l] \in Inside \cup {"loaded"}
    /\ history[l] = "open" /\ stage[l] = "left" => gone[l] \/ l \in lapsed
    /\ history[l] = "open" /\ stage[l] \in {"away", "issuing"} => cut[l] \/ l \in lapsed
    /\ stage[l] \in {"loaded", "entered"} => history[l] = "none"

HistoryInv == \A l \in Lines : HistoryTrue(l)

\* Of an uncontested user at most one audit entry is still to be written, and it
\* is about the ban that holds.
AuditTrue(u) ==
    /\ \A l, m \in Lines : Auditing(l, u) /\ Auditing(m, u) => l = m
    /\ \A l \in Lines : Auditing(l, u) => task[l].on = row[u].banned
    /\ (\A l \in Lines : ~Auditing(l, u)) => (row[u].banned <=> audit[u] = "ban")

OneAudit == \A u \in People \ contested : AuditTrue(u)

PresenceInv == EntriesPlaced /\ AloneHasEntry /\ TwoAreShared

\* What a session knows of a flag is in its entry, or on its way there.
FlagTrue(l, f) ==
    /\ f \in knows[l] => stage[l] \in Inside \cup {"loaded"}
    /\ f \in knows[l] /\ stage[l] = "loaded" => mine[l][f] = row[Owner[l]][f]
    /\ f \in knows[l] /\ stage[l] \in Inside /\ l \notin shared /\ ~SavingFlag(l, f)
           => entry[IdOf(l)][f] = row[Owner[l]][f]
    /\ f \in knows[l] /\ SavingFlag(l, f) => task[l].on = row[Owner[l]][f]
    /\ SavingFlag(l, f) => stage[l] = "shell"

FlagsKnown == \A l \in Lines, f \in Flags : FlagTrue(l, f)

-----------------------------------------------------------------------------
Ids == {IdOf(l) : l \in Lines}

LEMMA IdsAreIds == \A l \in Lines : IdOf(l) \in Ids /\ Owner[l] \in People
  BY DEF Ids, People

\* Only channels of one SSH connection share an id.
LEMMA SameId ==
    ASSUME NEW l \in Lines, NEW m \in Lines, IdOf(l) = IdOf(m), l # m
    PROVE  l \notin Web /\ m \notin Web /\ Wire[l] = Wire[m]
  BY LinesAssumption DEF IdOf

LEMMA SessInitType == SessInit => SessTypeOK
<1> SUFFICES ASSUME SessInit PROVE SessTypeOK
  OBVIOUS
<1>1. /\ row \in [People -> [mesg : BOOLEAN, biff : BOOLEAN, banned : BOOLEAN]]
      /\ mine \in [Lines -> [mesg : BOOLEAN, biff : BOOLEAN]]
  BY DEF SessInit, Rested
<1>2. queue \in [Lines -> Seq(Kinds)]
  BY DEF SessInit
<1>3. entry \in [{IdOf(l) : l \in Lines} -> Entries \cup {NoEntry}]
  BY DEF SessInit
<1>4. QED
  BY <1>1, <1>2, <1>3 DEF SessInit, SessTypeOK

LEMMA DeliveredType ==
    ASSUME SessTypeOK, NEW takers, NEW k \in Kinds
    PROVE  Delivered(takers, k) \in [Lines -> Seq(Kinds)]
  BY DEF Delivered, SessTypeOK

LEMMA LetInType ==
    ASSUME SessTypeOK, NEW l \in Lines, LetIn(l)
    PROVE  SessTypeOK'
<1>1. [mesg |-> row[Owner[l]].mesg, biff |-> row[Owner[l]].biff] \in [mesg : BOOLEAN, biff : BOOLEAN]
  BY IdsAreIds DEF SessTypeOK
<1>2. mine' \in [Lines -> [mesg : BOOLEAN, biff : BOOLEAN]]
  BY <1>1 DEF LetIn, SessTypeOK
<1>3. stage' \in [Lines -> {"away", "issuing", "loaded"} \cup Inside]
  BY DEF LetIn, SessTypeOK
<1>4. knows' \in [Lines -> SUBSET Flags]
  BY DEF LetIn, SessTypeOK
<1>5. cut' \in [Lines -> BOOLEAN] /\ history' \in [Lines -> {"none", "open", "closed"}]
  BY DEF LetIn, SessTypeOK
<1>6. shared' \subseteq Lines /\ lapsed' \subseteq Lines
  BY DEF LetIn, SessTypeOK
<1>7. QED
  BY <1>2, <1>3, <1>4, <1>5, <1>6 DEF LetIn, SessTypeOK

LEMMA RegisterType ==
    ASSUME SessTypeOK, NEW l \in Lines, Register(l)
    PROVE  SessTypeOK'
<1>1. [line |-> l, mesg |-> mine[l].mesg, biff |-> mine[l].biff] \in Entries
  BY DEF SessTypeOK, Entries
<1>2. entry' \in [{IdOf(m) : m \in Lines} -> Entries \cup {NoEntry}]
  BY <1>1 DEF Register, SessTypeOK
<1>3. mine' \in [Lines -> [mesg : BOOLEAN, biff : BOOLEAN]]
  BY DEF Register, SessTypeOK, Rested
<1>4. stage' \in [Lines -> {"away", "issuing", "loaded"} \cup Inside]
  BY DEF Register, SessTypeOK, Inside
<1>5. shared' \subseteq Lines
  BY DEF Register, SessTypeOK, Siblings
<1>6. QED
  BY <1>2, <1>3, <1>4, <1>5 DEF Register, SessTypeOK
Rows == [mesg : BOOLEAN, biff : BOOLEAN, banned : BOOLEAN]

LEMMA RowSet ==
    ASSUME NEW r \in Rows, NEW f \in Flags, NEW on \in BOOLEAN
    PROVE  LET s == [r EXCEPT ![f] = on]
           IN  /\ s \in Rows /\ s[f] = on /\ s.banned = r.banned
               /\ \A g \in Flags \ {f} : s[g] = r[g]
<1>1. CASE f = "mesg"
  BY <1>1 DEF Rows, Flags
<1>2. CASE f = "biff"
  BY <1>2 DEF Rows, Flags
<1>3. QED
  BY <1>1, <1>2 DEF Flags

\* The flag that a command saves, in the user's row and in the entry.
LEMMA SaveFlagRow ==
    ASSUME SessTypeOK, NEW l \in Lines, NEW f \in Flags, NEW on \in BOOLEAN, SaveFlag(l, f, on)
    PROVE  /\ row' \in [People -> [mesg : BOOLEAN, biff : BOOLEAN, banned : BOOLEAN]]
           /\ row'[Owner[l]][f] = on
           /\ \A u \in People : row'[u].banned = row[u].banned
           /\ \A u \in People, g \in Flags : u # Owner[l] \/ g # f => row'[u][g] = row[u][g]
<1> DEFINE r == [row[Owner[l]] EXCEPT ![f] = on]
<1>1. Owner[l] \in People /\ row[Owner[l]] \in Rows
  BY IdsAreIds DEF SessTypeOK, Rows
<1>2. row' = [row EXCEPT ![Owner[l]] = r]
  BY DEF SaveFlag
<1>3. r \in Rows /\ r[f] = on /\ r.banned = row[Owner[l]].banned
      /\ \A g \in Flags \ {f} : r[g] = row[Owner[l]][g]
  BY <1>1, RowSet
<1> HIDE DEF r
<1>4. row' \in [People -> Rows] /\ row'[Owner[l]] = r
      /\ \A u \in People \ {Owner[l]} : row'[u] = row[u]
  BY <1>1, <1>2, <1>3 DEF SessTypeOK, Rows
<1>5. QED
  BY <1>1, <1>3, <1>4 DEF Rows

LEMMA FlagSetEntry ==
    ASSUME NEW e \in Entries, NEW f \in Flags, NEW on \in BOOLEAN
    PROVE  /\ FlagSet(e, f, on) \in Entries /\ FlagSet(e, f, on).line = e.line
           /\ FlagSet(e, f, on)[f] = on
           /\ \A g \in Flags \ {f} : FlagSet(e, f, on)[g] = e[g]
<1>0. e # NoEntry
  BY NoneAssumption
<1>1. CASE f = "mesg"
  BY <1>0, <1>1 DEF FlagSet, Entries, Flags
<1>2. CASE f = "biff"
  BY <1>0, <1>2 DEF FlagSet, Entries, Flags
<1>3. QED
  BY <1>1, <1>2 DEF Flags

LEMMA SetFlagTask ==
    ASSUME SessTypeOK, NEW l \in Lines, SetFlag(l)
    PROVE  /\ task' = [task EXCEPT ![l] = Nothing]
           /\ \E f \in Flags, on \in BOOLEAN :
                 /\ SavingFlag(l, f) /\ task[l].on = on /\ \A g \in Flags : SavingFlag(l, g) => g = f
                 /\ entry' = [entry EXCEPT ![IdOf(l)] = FlagSet(entry[IdOf(l)], f, on)]
<1>1. task[l] \in Tasks /\ task[l].op = "flag"
  BY DEF SetFlag, SessTypeOK
<1>2. task[l].f \in Flags /\ task[l].on \in BOOLEAN
  BY <1>1 DEF Tasks
<1>3. /\ task' = [task EXCEPT ![l] = Nothing] /\ task[l] # Nothing
      /\ entry' = [entry EXCEPT ![IdOf(l)] = FlagSet(entry[IdOf(l)], task[l].f, task[l].on)]
  BY DEF SetFlag, End
<1>4. QED
  BY <1>1, <1>2, <1>3, Zenon DEF SavingFlag

\* What SetMesg and SetBiff do to the entry under l's id.
LEMMA FlagSetKeeps ==
    ASSUME NEW e \in Entries \cup {NoEntry}, NEW f \in Flags, NEW on \in BOOLEAN
    PROVE  FlagSet(e, f, on) \in Entries \cup {NoEntry}
<1>1. CASE e = NoEntry
  BY <1>1 DEF FlagSet
<1>2. CASE e \in Entries
  BY <1>2, FlagSetEntry
<1>3. QED
  BY <1>1, <1>2

LEMMA SetFlagType ==
    ASSUME SessTypeOK, NEW l \in Lines, SetFlag(l)
    PROVE  SessTypeOK'
<1>1. entry' \in [{IdOf(m) : m \in Lines} -> Entries \cup {NoEntry}]
  <2>1. PICK f \in Flags, on \in BOOLEAN :
            entry' = [entry EXCEPT ![IdOf(l)] = FlagSet(entry[IdOf(l)], f, on)]
    BY SetFlagTask
  <2>2. entry \in [Ids -> Entries \cup {NoEntry}] /\ IdOf(l) \in Ids
    BY IdsAreIds DEF SessTypeOK, Ids
  <2> DEFINE e == FlagSet(entry[IdOf(l)], f, on)
  <2>3. e \in Entries \cup {NoEntry}
    BY <2>2, FlagSetKeeps
  <2> HIDE DEF e
  <2>4. entry' \in [Ids -> Entries \cup {NoEntry}]
    BY <2>1, <2>2, <2>3 DEF e
  <2>5. QED
    BY <2>4 DEF Ids
<1>2. task' \in [Lines -> Tasks \cup {Nothing}]
  BY SetFlagTask DEF SessTypeOK
<1>3. QED
  BY <1>1, <1>2 DEF SetFlag, SessTypeOK

LEMMA SaveFlagType ==
    ASSUME SessTypeOK, NEW l \in Lines, NEW f \in Flags, NEW on \in BOOLEAN, SaveFlag(l, f, on)
    PROVE  SessTypeOK'
<1>1. knows' \in [Lines -> SUBSET Flags]
  BY DEF SaveFlag, SessTypeOK
<1>2. task' \in [Lines -> Tasks \cup {Nothing}]
  <2>1. [op |-> "flag", f |-> f, on |-> on] \in Tasks
    BY DEF Tasks
  <2>2. QED
    BY <2>1 DEF SaveFlag, Begin, SessTypeOK
<1>3. QED
  BY <1>1, <1>2, SaveFlagRow DEF SaveFlag, SessTypeOK

LEMMA SetBannedRow ==
    ASSUME SessTypeOK, NEW l \in Lines, NEW u \in People, NEW on \in BOOLEAN, SetBanned(l, u, on)
    PROVE  /\ row' \in [People -> [mesg : BOOLEAN, biff : BOOLEAN, banned : BOOLEAN]]
           /\ row'[u].banned = on
           /\ \A w \in People \ {u} : row'[w].banned = row[w].banned
           /\ \A w \in People, g \in Flags : row'[w][g] = row[w][g]
<1> DEFINE r == [row[u] EXCEPT !.banned = on]
<1>1. row \in [People -> Rows]
  BY DEF SessTypeOK, Rows
<1>2. row' = [row EXCEPT ![u] = r]
  BY DEF SetBanned
<1>3. r \in Rows /\ r.banned = on /\ r.mesg = row[u].mesg /\ r.biff = row[u].biff
  BY <1>1 DEF Rows
<1>4. \A g \in Flags : r[g] = row[u][g]
  BY <1>3 DEF Flags
<1> HIDE DEF r
<1>5. row' \in [People -> Rows] /\ row'[u] = r /\ \A w \in People \ {u} : row'[w] = row[w]
  BY <1>1, <1>2, <1>3
<1>6. QED
  BY <1>3, <1>4, <1>5 DEF Rows

LEMMA SetBannedType ==
    ASSUME SessTypeOK, NEW l \in Lines, NEW u \in People, NEW on \in BOOLEAN, SetBanned(l, u, on)
    PROVE  SessTypeOK'
<1>1. task' \in [Lines -> Tasks \cup {Nothing}]
  <2>1. [op |-> "audit", of |-> u, on |-> on] \in Tasks
    BY DEF Tasks
  <2>2. QED
    BY <2>1 DEF SetBanned, Begin, SessTypeOK
<1>2. contested' \subseteq People
  BY DEF SetBanned, SessTypeOK
<1>3. QED
  BY <1>1, <1>2, SetBannedRow DEF SetBanned, SessTypeOK

LEMMA RecordAuditTask ==
    ASSUME SessTypeOK, NEW l \in Lines, RecordAudit(l)
    PROVE  /\ task[l].of \in People /\ task[l].on \in BOOLEAN /\ Auditing(l, task[l].of)
           /\ task' = [task EXCEPT ![l] = Nothing]
<1>1. task[l] \in Tasks /\ task[l].op = "audit"
  BY DEF RecordAudit, SessTypeOK
<1>2. QED
  BY <1>1 DEF RecordAudit, Tasks, Auditing, End

LEMMA RecordAuditType ==
    ASSUME SessTypeOK, NEW l \in Lines, RecordAudit(l)
    PROVE  SessTypeOK'
<1>1. audit' \in [People -> {"none", "ban", "unban"}]
  <2>1. audit' = audit \/ \E u \in People, x \in {"ban", "unban"} : audit' = [audit EXCEPT ![u] = x]
    BY RecordAuditTask DEF RecordAudit
  <2>2. QED
    BY <2>1 DEF SessTypeOK
<1>2. contested' \subseteq People /\ task' \in [Lines -> Tasks \cup {Nothing}]
  <2>1. task' = [task EXCEPT ![l] = Nothing]
    BY RecordAuditTask
  <2>2. \E u \in People : contested' \subseteq contested \cup {u}
    BY RecordAuditTask DEF RecordAudit
  <2>3. QED
    BY <2>1, <2>2 DEF SessTypeOK
<1>3. QED
  BY <1>1, <1>2 DEF RecordAudit, SessTypeOK

LEMMA NoticeType ==
    ASSUME SessTypeOK, NEW l \in Lines,
           ShowNotice(l) \/ SendWrite(l) \/ CmdWall(l) \/ \E u \in People : NotifyNewMail(l, u)
    PROVE  SessTypeOK'
<1>1. CASE ShowNotice(l)
  <2>1. Tail(queue[l]) \in Seq(Kinds)
    BY <1>1 DEF ShowNotice, SessTypeOK
  <2>2. queue' \in [Lines -> Seq(Kinds)]
    BY <1>1, <2>1 DEF ShowNotice, SessTypeOK
  <2>3. QED
    BY <1>1, <2>2 DEF ShowNotice, SessTypeOK
<1>2. CASE SendWrite(l)
  <2>1. queue' \in [Lines -> Seq(Kinds)]
    BY <1>2, DeliveredType DEF SendWrite, SessTypeOK, Kinds
  <2>2. task' \in [Lines -> Tasks \cup {Nothing}]
    BY <1>2 DEF SendWrite, End, SessTypeOK
  <2>3. QED
    BY <1>2, <2>1, <2>2 DEF SendWrite, SessTypeOK
<1>3. CASE CmdWall(l)
  <2>1. queue' \in [Lines -> Seq(Kinds)]
    BY <1>3, DeliveredType DEF CmdWall, Kinds
  <2>2. QED
    BY <1>3, <2>1 DEF CmdWall, SessTypeOK
<1>4. ASSUME NEW u \in People, NotifyNewMail(l, u) PROVE SessTypeOK'
  <2>1. queue' \in [Lines -> Seq(Kinds)]
    BY <1>4, DeliveredType DEF NotifyNewMail, Kinds
  <2>2. QED
    BY <1>4, <2>1 DEF NotifyNewMail, SessTypeOK
<1>5. QED
  BY <1>1, <1>2, <1>3, <1>4

LEMMA CmdWriteType ==
    ASSUME SessTypeOK, NEW l \in Lines, NEW u \in People, CmdWrite(l, u)
    PROVE  SessTypeOK'
<1>1. [op |-> "write", to |-> u] \in Tasks
  BY DEF Tasks
<1>2. task' \in [Lines -> Tasks \cup {Nothing}]
  BY <1>1 DEF CmdWrite, Begin, SessTypeOK
<1>3. QED
  BY <1>2 DEF CmdWrite, SessTypeOK

LEMMA DoorType ==
    ASSUME SessTypeOK, NEW l \in Lines,
           HandleLogin(l) \/ CreateSession(l) \/ TokenEnds(l) \/ Drop(l) \/ Cancel(l)
    PROVE  SessTypeOK'
<1>1. stage' \in [Lines -> {"away", "issuing", "loaded"} \cup Inside]
  <2>1. stage' = stage \/ \E x \in {"away", "issuing"} : stage' = [stage EXCEPT ![l] = x]
    BY DEF HandleLogin, CreateSession, TokenEnds, Drop, Cancel
  <2>2. QED
    BY <2>1 DEF SessTypeOK
<1>2. token' \in [Lines -> BOOLEAN] /\ cut' \in [Lines -> BOOLEAN] /\ gone' \in [Lines -> BOOLEAN]
  BY DEF HandleLogin, CreateSession, TokenEnds, Drop, Cancel, SessTypeOK
<1>3. UNCHANGED <<row, mine, entry, queue, history, task, audit, knows, shared, contested, lapsed>>
  BY DEF HandleLogin, CreateSession, TokenEnds, Drop, Cancel
<1>4. QED
  BY <1>1, <1>2, <1>3 DEF SessTypeOK

LEMMA RunType ==
    ASSUME SessTypeOK, NEW l \in Lines,
           RecordLogin(l) \/ LoopEnds(l) \/ RecordLogout(l)
    PROVE  SessTypeOK'
<1>1. stage' \in [Lines -> {"away", "issuing", "loaded"} \cup Inside]
  <2>1. PICK x \in Inside : stage' = [stage EXCEPT ![l] = x]
    BY DEF RecordLogin, LoopEnds, RecordLogout, Inside
  <2>2. QED
    BY <2>1 DEF SessTypeOK
<1>2. history' \in [Lines -> {"none", "open", "closed"}]
  <2>1. history' = history \/ \E x \in {"none", "open", "closed"} : history' = [history EXCEPT ![l] = x]
    BY DEF RecordLogin, LoopEnds, RecordLogout
  <2>2. QED
    BY <2>1 DEF SessTypeOK
<1>3. /\ UNCHANGED <<row, token, mine, entry, queue, cut, gone, task, audit, knows, shared, contested>>
      /\ lapsed' \subseteq Lines
  BY DEF RecordLogin, LoopEnds, RecordLogout, SessTypeOK
<1>4. QED
  BY <1>1, <1>2, <1>3 DEF SessTypeOK

LEMMA UnregisterType ==
    ASSUME SessTypeOK, NEW l \in Lines, Unregister(l)
    PROVE  SessTypeOK'
<1>1. /\ stage' \in [Lines -> {"away", "issuing", "loaded"} \cup Inside]
      /\ gone' \in [Lines -> BOOLEAN] /\ knows' \in [Lines -> SUBSET Flags]
  BY DEF Unregister, SessTypeOK
<1>2. entry' \in [{IdOf(m) : m \in Lines} -> Entries \cup {NoEntry}]
  BY DEF Unregister, SessTypeOK
<1>3. queue' \in [Lines -> Seq(Kinds)]
  BY DEF Unregister, SessTypeOK
<1>4. QED
  BY <1>1, <1>2, <1>3 DEF Unregister, SessTypeOK

\* What a stop of the node leaves.
LEMMA NodeStopsType == SessTypeOK /\ NodeStops => SessTypeOK'
<1> SUFFICES ASSUME SessTypeOK, NodeStops PROVE SessTypeOK'
  OBVIOUS
<1>1. /\ stage' \in [Lines -> {"away", "issuing", "loaded"} \cup Inside]
      /\ mine' \in [Lines -> [mesg : BOOLEAN, biff : BOOLEAN]]
      /\ gone' \in [Lines -> BOOLEAN]
      /\ task' \in [Lines -> Tasks \cup {Nothing}]
      /\ knows' \in [Lines -> SUBSET Flags]
  BY DEF NodeStops, Rested
<1>2. entry' \in [{IdOf(l) : l \in Lines} -> Entries \cup {NoEntry}]
  BY DEF NodeStops, SessTypeOK
<1>3. queue' \in [Lines -> Seq(Kinds)]
  BY DEF NodeStops
<1>4. shared' \subseteq Lines /\ contested' \subseteq People /\ lapsed' \subseteq Lines
  BY DEF NodeStops, SessTypeOK
<1>5. UNCHANGED <<row, token, cut, history, audit>>
  BY DEF NodeStops
<1>6. QED
  BY <1>1, <1>2, <1>3, <1>4, <1>5 DEF SessTypeOK

\* Every table of a node keeps its columns' types, whoever logs in, is cut,
\* sends, bans or leaves, in any order, and whenever the node stops.
THEOREM SessionsTypeCorrect == SessSpec => []SessTypeOK
<1>1. SessTypeOK /\ [SessNext]_sessVars => SessTypeOK'
  <2> SUFFICES ASSUME SessTypeOK, [SessNext]_sessVars PROVE SessTypeOK'
    OBVIOUS
  <2>1. ASSUME NEW l \in Lines, HandleWS(l) \/ HandleSSH(l) PROVE SessTypeOK'
    BY <2>1, LetInType DEF HandleWS, HandleSSH
  <2>2. ASSUME NEW l \in Lines, NEW f \in Flags, NEW on \in BOOLEAN, SaveFlag(l, f, on)
        PROVE  SessTypeOK'
    BY <2>2, SaveFlagType
  <2>3. ASSUME NEW l \in Lines, NEW u \in People, NEW on \in BOOLEAN, SetBanned(l, u, on)
        PROVE  SessTypeOK'
    BY <2>3, SetBannedType
  <2>4. ASSUME NEW l \in Lines, NEW u \in People, CmdWrite(l, u) \/ NotifyNewMail(l, u)
        PROVE  SessTypeOK'
    BY <2>4, CmdWriteType, NoticeType
  <2>5. ASSUME NEW l \in Lines,
               \/ HandleLogin(l) \/ CreateSession(l) \/ TokenEnds(l) \/ Drop(l) \/ Cancel(l)
               \/ Register(l) \/ RecordLogin(l) \/ LoopEnds(l) \/ RecordLogout(l) \/ Unregister(l)
        PROVE  SessTypeOK'
    BY <2>5, DoorType, RegisterType, RunType, UnregisterType
  <2>6. ASSUME NEW l \in Lines,
               ShowNotice(l) \/ SetFlag(l) \/ SendWrite(l) \/ CmdWall(l) \/ RecordAudit(l)
        PROVE  SessTypeOK'
    BY <2>6, NoticeType, SetFlagType, RecordAuditType
  <2>7. CASE UNCHANGED sessVars
    BY <2>7 DEF sessVars, SessTypeOK
  <2>8. QED
    BY <2>1, <2>2, <2>3, <2>4, <2>5, <2>6, <2>7, NodeStopsType DEF SessNext
<1>2. QED
  BY <1>1, SessInitType, PTL DEF SessSpec

-----------------------------------------------------------------------------
(***************************************************************************)
(* Presence.  Only a door, Register, Unregister and SetFlag touch what it  *)
(* is about.                                                               *)
(***************************************************************************)
PresenceStays ==
    /\ UNCHANGED <<entry, shared>>
    /\ \A m \in Lines : stage'[m] \in Inside <=> stage[m] \in Inside

LEMMA PresenceSteps ==
    ASSUME SessTypeOK, [SessNext]_sessVars
    PROVE  \/ PresenceStays \/ NodeStops
           \/ \E l \in Lines : LetIn(l) \/ Register(l) \/ Unregister(l) \/ SetFlag(l)
<1>1. ASSUME NEW l \in Lines, HandleLogin(l) \/ CreateSession(l) PROVE PresenceStays
  BY <1>1 DEF HandleLogin, CreateSession, PresenceStays, SessTypeOK, Inside
<1>2. ASSUME NEW l \in Lines, TokenEnds(l) \/ Drop(l) \/ Cancel(l) PROVE PresenceStays
  BY <1>2 DEF TokenEnds, Drop, Cancel, PresenceStays
<1>3. ASSUME NEW l \in Lines, RecordLogin(l) \/ LoopEnds(l) \/ RecordLogout(l) PROVE PresenceStays
  BY <1>3 DEF RecordLogin, LoopEnds, RecordLogout, AtPrompt, PresenceStays, SessTypeOK, Inside
<1>4. ASSUME NEW l \in Lines, ShowNotice(l) \/ SendWrite(l) \/ CmdWall(l) \/ RecordAudit(l)
      PROVE  PresenceStays
  BY <1>4 DEF ShowNotice, SendWrite, CmdWall, RecordAudit, PresenceStays
<1>5. ASSUME NEW l \in Lines, NEW u \in People, CmdWrite(l, u) \/ NotifyNewMail(l, u)
      PROVE  PresenceStays
  BY <1>5 DEF CmdWrite, NotifyNewMail, PresenceStays
<1>6. ASSUME NEW l \in Lines, NEW u \in People, NEW on \in BOOLEAN, SetBanned(l, u, on)
      PROVE  PresenceStays
  BY <1>6 DEF SetBanned, PresenceStays
<1>7. ASSUME NEW l \in Lines, NEW f \in Flags, NEW on \in BOOLEAN, SaveFlag(l, f, on)
      PROVE  PresenceStays
  BY <1>7 DEF SaveFlag, PresenceStays
<1>8. CASE UNCHANGED sessVars
  BY <1>8 DEF sessVars, PresenceStays
<1>9. QED
  BY <1>1, <1>2, <1>3, <1>4, <1>5, <1>6, <1>7, <1>8 DEF SessNext, HandleWS, HandleSSH

LEMMA StaysKeeps ==
    ASSUME SessTypeOK, PresenceInv, PresenceStays
    PROVE  PresenceInv'
<1>1. EntriesPlaced'
  <2> SUFFICES ASSUME NEW i \in DOMAIN entry, entry[i] # NoEntry
               PROVE  IdOf(entry[i].line) = i /\ stage'[entry[i].line] \in Inside
    BY DEF EntriesPlaced, PresenceStays
  <2>1. entry[i].line \in Lines
    BY DEF SessTypeOK, Entries
  <2>2. QED
    BY <2>1 DEF PresenceInv, EntriesPlaced, PresenceStays
<1>2. AloneHasEntry'
  BY DEF PresenceInv, AloneHasEntry, PresenceStays
<1>3. TwoAreShared'
  BY DEF PresenceInv, TwoAreShared, PresenceStays
<1>4. QED
  BY <1>1, <1>2, <1>3 DEF PresenceInv

\* A line at the door is nobody's session.
LEMMA LetInKeeps ==
    ASSUME SessTypeOK, PresenceInv, NEW l \in Lines, LetIn(l)
    PROVE  PresenceInv'
<1>1. /\ entry' = entry /\ stage[l] = "away" /\ stage'[l] = "loaded"
      /\ shared' = shared \ {l}
      /\ \A m \in Lines \ {l} : stage'[m] = stage[m]
  BY DEF LetIn, SessTypeOK
<1>2. \A m \in Lines : (stage'[m] \in Inside <=> stage[m] \in Inside) /\ (m = l => stage[m] \notin Inside)
  BY <1>1 DEF Inside
<1>3. EntriesPlaced'
  <2> SUFFICES ASSUME NEW i \in DOMAIN entry, entry[i] # NoEntry
               PROVE  IdOf(entry[i].line) = i /\ stage'[entry[i].line] \in Inside
    BY <1>1 DEF EntriesPlaced
  <2>1. entry[i].line \in Lines
    BY DEF SessTypeOK, Entries
  <2>2. QED
    BY <2>1, <1>2 DEF PresenceInv, EntriesPlaced
<1>4. AloneHasEntry'
  BY <1>1, <1>2 DEF PresenceInv, AloneHasEntry
<1>5. TwoAreShared'
  BY <1>1, <1>2 DEF PresenceInv, TwoAreShared
<1>6. QED
  BY <1>3, <1>4, <1>5 DEF PresenceInv

\* Register replaces the entry of a session with the same id, if there is one:
\* then both have run beside another.
LEMMA RegisterKeeps ==
    ASSUME SessTypeOK, PresenceInv, NEW l \in Lines, Register(l)
    PROVE  PresenceInv'
<1> DEFINE e == [line |-> l, mesg |-> mine[l].mesg, biff |-> mine[l].biff]
<1>1. /\ stage[l] = "loaded" /\ stage' = [stage EXCEPT ![l] = "entered"]
      /\ entry' = [entry EXCEPT ![IdOf(l)] = e]
      /\ shared' = IF Siblings(l) = {} THEN shared ELSE shared \cup Siblings(l) \cup {l}
  BY DEF Register
<1>2. e \in Entries /\ e.line = l /\ e # NoEntry
  BY NoneAssumption DEF SessTypeOK, Entries
<1> HIDE DEF e
<1>3. /\ stage[l] \notin Inside /\ stage'[l] \in Inside
      /\ \A m \in Lines \ {l} : stage'[m] = stage[m]
  BY <1>1 DEF SessTypeOK, Inside
<1>4. /\ IdOf(l) \in DOMAIN entry /\ DOMAIN entry' = DOMAIN entry /\ entry'[IdOf(l)] = e
      /\ \A i \in DOMAIN entry \ {IdOf(l)} : entry'[i] = entry[i]
  BY <1>1, IdsAreIds DEF SessTypeOK, Ids
<1>5. shared \subseteq shared'
  BY <1>1
<1>6. \A m \in Lines \ {l} : stage[m] \in Inside /\ IdOf(m) = IdOf(l) => m \in shared' /\ l \in shared'
  BY <1>1, SameId DEF Siblings
<1>7. EntriesPlaced'
  <2> SUFFICES ASSUME NEW i \in DOMAIN entry, entry'[i] # NoEntry
               PROVE  IdOf(entry'[i].line) = i /\ stage'[entry'[i].line] \in Inside
    BY <1>4 DEF EntriesPlaced
  <2>1. CASE i = IdOf(l)
    BY <2>1, <1>2, <1>3, <1>4
  <2>2. CASE i # IdOf(l)
    <3>1. entry'[i] = entry[i] /\ entry[i].line \in Lines
      BY <2>2, <1>4 DEF SessTypeOK, Entries
    <3>2. QED
      BY <3>1, <1>3 DEF PresenceInv, EntriesPlaced
  <2>3. QED
    BY <2>1, <2>2
<1>8. AloneHasEntry'
  <2> SUFFICES ASSUME NEW m \in Lines, stage'[m] \in Inside, m \notin shared'
               PROVE  entry'[IdOf(m)] # NoEntry /\ entry'[IdOf(m)].line = m
    BY DEF AloneHasEntry
  <2>1. CASE m = l
    BY <2>1, <1>2, <1>4
  <2>2. CASE m # l
    <3>1. IdOf(m) # IdOf(l) /\ IdOf(m) \in DOMAIN entry
      BY <2>2, <1>3, <1>6, IdsAreIds DEF SessTypeOK, Ids
    <3>2. QED
      BY <2>2, <3>1, <1>3, <1>4, <1>5 DEF PresenceInv, AloneHasEntry
  <2>3. QED
    BY <2>1, <2>2
<1>9. TwoAreShared'
  BY <1>3, <1>5, <1>6 DEF PresenceInv, TwoAreShared
<1>10. QED
  BY <1>7, <1>8, <1>9 DEF PresenceInv

\* Unregister takes the entry of whoever has the id: the others with that id
\* have run beside this session.
LEMMA UnregisterKeeps ==
    ASSUME SessTypeOK, PresenceInv, NEW l \in Lines, Unregister(l)
    PROVE  PresenceInv'
<1>1. /\ stage[l] = "left" /\ stage' = [stage EXCEPT ![l] = "away"]
      /\ entry' = [entry EXCEPT ![IdOf(l)] = NoEntry] /\ shared' = shared
  BY DEF Unregister
<1>2. /\ stage[l] \in Inside /\ stage'[l] \notin Inside
      /\ \A m \in Lines \ {l} : stage'[m] = stage[m]
  BY <1>1 DEF SessTypeOK, Inside
<1>3. /\ IdOf(l) \in DOMAIN entry /\ DOMAIN entry' = DOMAIN entry /\ entry'[IdOf(l)] = NoEntry
      /\ \A i \in DOMAIN entry \ {IdOf(l)} : entry'[i] = entry[i]
  BY <1>1, IdsAreIds DEF SessTypeOK, Ids
<1>4. EntriesPlaced'
  <2> SUFFICES ASSUME NEW i \in DOMAIN entry, i # IdOf(l), entry[i] # NoEntry
               PROVE  IdOf(entry[i].line) = i /\ stage'[entry[i].line] \in Inside
    BY <1>3 DEF EntriesPlaced
  <2>1. entry[i].line \in Lines /\ IdOf(entry[i].line) = i
    BY DEF SessTypeOK, Entries, PresenceInv, EntriesPlaced
  <2>2. QED
    BY <2>1, <1>2 DEF PresenceInv, EntriesPlaced
<1>5. AloneHasEntry'
  <2> SUFFICES ASSUME NEW m \in Lines, stage'[m] \in Inside, m \notin shared
               PROVE  entry'[IdOf(m)] # NoEntry /\ entry'[IdOf(m)].line = m
    BY <1>1 DEF AloneHasEntry
  <2>1. m # l /\ stage[m] \in Inside
    BY <1>2
  <2>2. IdOf(m) # IdOf(l)
    BY <2>1, <1>2 DEF PresenceInv, TwoAreShared
  <2>3. IdOf(m) \in DOMAIN entry
    BY IdsAreIds DEF SessTypeOK, Ids
  <2>4. QED
    BY <2>1, <2>2, <2>3, <1>3 DEF PresenceInv, AloneHasEntry
<1>6. TwoAreShared'
  BY <1>1, <1>2 DEF PresenceInv, TwoAreShared
<1>7. QED
  BY <1>4, <1>5, <1>6 DEF PresenceInv

LEMMA SetFlagPlaces ==
    ASSUME SessTypeOK, NEW l \in Lines, SetFlag(l)
    PROVE  /\ DOMAIN entry' = DOMAIN entry
           /\ \A i \in DOMAIN entry : /\ entry'[i] = NoEntry <=> entry[i] = NoEntry
                                      /\ entry[i] # NoEntry => entry'[i].line = entry[i].line
<1>1. PICK f \in Flags, on \in BOOLEAN :
          entry' = [entry EXCEPT ![IdOf(l)] = FlagSet(entry[IdOf(l)], f, on)]
  BY SetFlagTask
<1>2. entry \in [Ids -> Entries \cup {NoEntry}] /\ IdOf(l) \in Ids
  BY IdsAreIds DEF SessTypeOK, Ids
<1> DEFINE e == FlagSet(entry[IdOf(l)], f, on)
<1>3. /\ e = NoEntry <=> entry[IdOf(l)] = NoEntry
      /\ entry[IdOf(l)] # NoEntry => e.line = entry[IdOf(l)].line
  <2>1. CASE entry[IdOf(l)] = NoEntry
    BY <2>1 DEF FlagSet
  <2>2. CASE entry[IdOf(l)] \in Entries
    BY <2>2, FlagSetEntry, NoneAssumption
  <2>3. QED
    BY <2>1, <2>2, <1>2
<1> HIDE DEF e
<1>4. entry' = [entry EXCEPT ![IdOf(l)] = e]
  BY <1>1 DEF e
<1>5. QED
  BY <1>2, <1>3, <1>4

LEMMA SetFlagPresence ==
    ASSUME SessTypeOK, PresenceInv, NEW l \in Lines, SetFlag(l)
    PROVE  PresenceInv'
<1>1. UNCHANGED <<stage, shared>>
  BY DEF SetFlag
<1>2. EntriesPlaced'
  BY <1>1, SetFlagPlaces DEF PresenceInv, EntriesPlaced
<1>3. AloneHasEntry'
  <2> SUFFICES ASSUME NEW m \in Lines, stage[m] \in Inside, m \notin shared
               PROVE  entry'[IdOf(m)] # NoEntry /\ entry'[IdOf(m)].line = m
    BY <1>1 DEF AloneHasEntry
  <2>1. IdOf(m) \in DOMAIN entry
    BY IdsAreIds DEF SessTypeOK, Ids
  <2>2. QED
    BY <2>1, SetFlagPlaces DEF PresenceInv, AloneHasEntry
<1>4. TwoAreShared'
  BY <1>1 DEF PresenceInv, TwoAreShared
<1>5. QED
  BY <1>2, <1>3, <1>4 DEF PresenceInv

\* Nobody is inside after a stop, and nothing is in the hub.
LEMMA NodeStopsPresence == SessTypeOK /\ NodeStops => PresenceInv'
<1> SUFFICES ASSUME SessTypeOK, NodeStops PROVE PresenceInv'
  OBVIOUS
<1>1. \A l \in Lines : stage'[l] \notin Inside
  BY DEF NodeStops, Inside
<1>2. \A i \in DOMAIN entry' : entry'[i] = NoEntry
  BY DEF NodeStops, SessTypeOK
<1>3. QED
  BY <1>1, <1>2 DEF PresenceInv, EntriesPlaced, AloneHasEntry, TwoAreShared

LEMMA PresenceInvHolds == SessSpec => []PresenceInv
<1>1. SessInit => PresenceInv
  <2> SUFFICES ASSUME SessInit PROVE PresenceInv
    OBVIOUS
  <2>1. \A l \in Lines : stage[l] \notin Inside
    BY DEF SessInit, Inside
  <2>2. \A i \in DOMAIN entry : entry[i] = NoEntry
    BY DEF SessInit
  <2>3. QED
    BY <2>1, <2>2 DEF PresenceInv, EntriesPlaced, AloneHasEntry, TwoAreShared
<1>2. SessTypeOK /\ PresenceInv /\ [SessNext]_sessVars => PresenceInv'
  BY PresenceSteps, StaysKeeps, LetInKeeps, RegisterKeeps, UnregisterKeeps, SetFlagPresence, NodeStopsPresence
<1>3. QED
  BY <1>1, <1>2, SessionsTypeCorrect, PTL DEF SessSpec

LEMMA PresentTruly == SessTypeOK /\ PresenceInv => PresenceIsTrue
  BY DEF PresenceInv, PresenceIsTrue, EntriesPlaced, AloneHasEntry

-----------------------------------------------------------------------------
\* History: a step concerns one line's stage, cut, context and record.

LEMMA HistorySteps ==
    ASSUME SessTypeOK, HistoryInv, [SessNext]_sessVars
    PROVE  HistoryInv'
<1> USE DEF SessTypeOK, Inside, HistoryTrue
<1> SUFFICES ASSUME NEW m \in Lines PROVE HistoryTrue(m)'
  BY DEF HistoryInv
<1>0. HistoryTrue(m)
  BY DEF HistoryInv
<1>1. ASSUME NEW l \in Lines, HandleLogin(l) \/ CreateSession(l) PROVE HistoryTrue(m)'
  BY <1>0, <1>1 DEF HandleLogin, CreateSession
<1>2. ASSUME NEW l \in Lines, LetIn(l) PROVE HistoryTrue(m)'
  BY <1>0, <1>2 DEF LetIn
<1>3. ASSUME NEW l \in Lines, Drop(l) PROVE HistoryTrue(m)'
  BY <1>0, <1>3 DEF Drop
<1>4. ASSUME NEW l \in Lines, Cancel(l) PROVE HistoryTrue(m)'
  BY <1>0, <1>4 DEF Cancel
<1>5. ASSUME NEW l \in Lines, Register(l) PROVE HistoryTrue(m)'
  BY <1>0, <1>5 DEF Register
<1>6. ASSUME NEW l \in Lines, RecordLogin(l) PROVE HistoryTrue(m)'
  BY <1>0, <1>6 DEF RecordLogin
<1>7. ASSUME NEW l \in Lines, LoopEnds(l) PROVE HistoryTrue(m)'
  BY <1>0, <1>7 DEF LoopEnds, AtPrompt
<1>8. ASSUME NEW l \in Lines, RecordLogout(l) PROVE HistoryTrue(m)'
  BY <1>0, <1>8 DEF RecordLogout
<1>9. ASSUME NEW l \in Lines, Unregister(l) PROVE HistoryTrue(m)'
  BY <1>0, <1>9 DEF Unregister
<1>10. CASE UNCHANGED <<stage, gone, cut, history, lapsed>>
  BY <1>0, <1>10
<1>11. ASSUME NEW l \in Lines,
              \/ TokenEnds(l) \/ ShowNotice(l) \/ SendWrite(l) \/ CmdWall(l) \/ RecordAudit(l) \/ SetFlag(l)
              \/ \E u \in People : CmdWrite(l, u) \/ NotifyNewMail(l, u)
              \/ \E u \in People, on \in BOOLEAN : SetBanned(l, u, on)
              \/ \E f \in Flags, on \in BOOLEAN : SaveFlag(l, f, on)
       PROVE  UNCHANGED <<stage, gone, cut, history, lapsed>>
  BY <1>11 DEF TokenEnds, ShowNotice, SendWrite, CmdWall, RecordAudit, SetFlag, CmdWrite,
     NotifyNewMail, SetBanned, SaveFlag
<1>12. ASSUME NodeStops PROVE HistoryTrue(m)'
  BY <1>0, <1>12 DEF NodeStops
<1>13. QED
  BY <1>1, <1>2, <1>3, <1>4, <1>5, <1>6, <1>7, <1>8, <1>9, <1>10, <1>11, <1>12
     DEF SessNext, HandleWS, HandleSSH, sessVars

LEMMA HistoryInvHolds == SessSpec => []HistoryInv
<1>1. SessInit => HistoryInv
  BY DEF SessInit, HistoryInv, HistoryTrue
<1>2. SessTypeOK /\ HistoryInv /\ [SessNext]_sessVars => HistoryInv'
  BY HistorySteps
<1>3. QED
  BY <1>1, <1>2, SessionsTypeCorrect, PTL DEF SessSpec

-----------------------------------------------------------------------------
\* The audit log.  Only a ban begins an entry, and only its entry ends it.
AuditStays(u) ==
    /\ row'[u].banned = row[u].banned /\ audit'[u] = audit[u]
    /\ \A m \in Lines : /\ Auditing(m, u)' <=> Auditing(m, u)
                        /\ Auditing(m, u) => task'[m].on = task[m].on

LEMMA AuditKept ==
    ASSUME NEW u \in People, AuditTrue(u), AuditStays(u)
    PROVE  AuditTrue(u)'
  BY DEF AuditTrue, AuditStays

\* The commands that are not about bans.
LEMMA OtherTasks ==
    ASSUME SessTypeOK, NEW l \in Lines, NEW w \in People,
           \/ SetFlag(l) \/ SendWrite(l)
           \/ \E u \in People : CmdWrite(l, u)
           \/ \E f \in Flags, on \in BOOLEAN : SaveFlag(l, f, on)
    PROVE  AuditStays(w) /\ contested' = contested
<1>1. CASE SetFlag(l) \/ SendWrite(l)
  <2>1. task[l].op # "audit" /\ task' = [task EXCEPT ![l] = Nothing]
    BY <1>1 DEF SetFlag, SendWrite, End
  <2>2. UNCHANGED <<row, audit, contested>>
    BY <1>1 DEF SetFlag, SendWrite
  <2>3. QED
    BY <2>1, <2>2 DEF AuditStays, Auditing, SessTypeOK
<1>2. ASSUME NEW u \in People, CmdWrite(l, u) PROVE AuditStays(w) /\ contested' = contested
  <2>1. task[l] = Nothing /\ task' = [task EXCEPT ![l] = [op |-> "write", to |-> u]]
    BY <1>2 DEF CmdWrite, AtPrompt, Begin
  <2>2. UNCHANGED <<row, audit, contested>>
    BY <1>2 DEF CmdWrite
  <2>3. QED
    BY <2>1, <2>2 DEF AuditStays, Auditing, SessTypeOK
<1>3. ASSUME NEW f \in Flags, NEW on \in BOOLEAN, SaveFlag(l, f, on)
      PROVE  AuditStays(w) /\ contested' = contested
  <2>1. task[l] = Nothing /\ task' = [task EXCEPT ![l] = [op |-> "flag", f |-> f, on |-> on]]
    BY <1>3 DEF SaveFlag, AtPrompt, Begin
  <2>2. UNCHANGED <<audit, contested>>
    BY <1>3 DEF SaveFlag
  <2>3. row'[w].banned = row[w].banned
    BY <1>3, SaveFlagRow
  <2>4. QED
    BY <2>1, <2>2, <2>3 DEF AuditStays, Auditing, SessTypeOK
<1>4. QED
  BY <1>1, <1>2, <1>3

LEMMA SetBannedAudit ==
    ASSUME SessTypeOK, OneAudit, NEW l \in Lines, NEW u \in People, NEW on \in BOOLEAN,
           SetBanned(l, u, on)
    PROVE  OneAudit'
<1>1. /\ task[l] = Nothing /\ task' = [task EXCEPT ![l] = [op |-> "audit", of |-> u, on |-> on]]
      /\ audit' = audit
      /\ contested' = IF \E m \in Lines : Auditing(m, u) THEN contested \cup {u} ELSE contested \ {u}
  BY DEF SetBanned, AtPrompt, Begin, Auditing
<1>2. /\ row'[u].banned = on
      /\ \A w \in People \ {u} : row'[w].banned = row[w].banned
  BY SetBannedRow
<1>3. /\ Auditing(l, u)' /\ task'[l].on = on
      /\ \A m \in Lines \ {l} : Auditing(m, u)' <=> Auditing(m, u)
  BY <1>1, NoneAssumption DEF Auditing, SessTypeOK, Tasks
<1>4. \A w \in People \ {u} : AuditStays(w)
  BY <1>1, <1>2 DEF AuditStays, Auditing, SessTypeOK
<1> SUFFICES ASSUME NEW w \in People, w \notin contested' PROVE AuditTrue(w)'
  BY DEF OneAudit
<1>5. CASE w = u
  <2>1. \A m \in Lines : ~Auditing(m, u)
    BY <1>1, <1>5
  <2>2. QED
    BY <2>1, <1>2, <1>3, <1>5 DEF AuditTrue
<1>6. CASE w # u
  <2>1. AuditTrue(w)
    BY <1>1, <1>6 DEF OneAudit
  <2>2. QED
    BY <2>1, <1>4, <1>6, AuditKept
<1>7. QED
  BY <1>5, <1>6

LEMMA RecordAuditKeeps ==
    ASSUME SessTypeOK, OneAudit, NEW l \in Lines, RecordAudit(l)
    PROVE  OneAudit'
<1>1. PICK u \in People : u = task[l].of
  BY RecordAuditTask
<1>2. /\ Auditing(l, u) /\ task[l].on \in BOOLEAN /\ task' = [task EXCEPT ![l] = Nothing] /\ row' = row
      /\ \/ /\ audit' = [audit EXCEPT ![u] = IF task[l].on THEN "ban" ELSE "unban"]
            /\ contested' = contested
         \/ audit' = audit /\ contested' = contested \cup {u}
  BY <1>1, RecordAuditTask DEF RecordAudit
<1>3. ~Auditing(l, u)' /\ \A m \in Lines \ {l} : Auditing(m, u)' <=> Auditing(m, u)
  BY <1>2 DEF Auditing, SessTypeOK
<1>4. \A w \in People \ {u} : AuditStays(w)
  BY <1>2 DEF AuditStays, Auditing, SessTypeOK
<1> SUFFICES ASSUME NEW w \in People, w \notin contested' PROVE AuditTrue(w)'
  BY DEF OneAudit
<1>5. AuditTrue(w)
  BY <1>2 DEF OneAudit
<1>6. CASE w = u
  <2>1. audit'[u] = IF task[l].on THEN "ban" ELSE "unban"
    BY <1>2, <1>6 DEF SessTypeOK
  <2>2. \A m \in Lines : ~Auditing(m, u)'
    BY <1>2, <1>3, <1>5, <1>6 DEF AuditTrue
  <2>3. row'[u].banned = task[l].on
    BY <1>2, <1>5, <1>6 DEF AuditTrue
  <2>4. QED
    BY <2>1, <2>2, <2>3, <1>2, <1>6 DEF AuditTrue
<1>7. CASE w # u
  BY <1>4, <1>5, <1>7, AuditKept
<1>8. QED
  BY <1>6, <1>7

LEMMA AuditSteps ==
    ASSUME SessTypeOK, OneAudit, [SessNext]_sessVars
    PROVE  OneAudit'
<1>1. ASSUME NEW l \in Lines,
             \/ SetFlag(l) \/ SendWrite(l)
             \/ \E u \in People : CmdWrite(l, u)
             \/ \E f \in Flags, on \in BOOLEAN : SaveFlag(l, f, on)
      PROVE  OneAudit'
  <2> SUFFICES ASSUME NEW w \in People \ contested' PROVE AuditTrue(w)'
    BY DEF OneAudit
  <2>1. AuditStays(w) /\ contested' = contested
    BY <1>1, OtherTasks
  <2>2. QED
    BY <2>1, AuditKept DEF OneAudit
<1>2. CASE UNCHANGED <<row, audit, task, contested>>
  BY <1>2 DEF OneAudit, AuditTrue, Auditing
<1>3. ASSUME NEW l \in Lines,
             \/ HandleLogin(l) \/ CreateSession(l) \/ TokenEnds(l) \/ LetIn(l) \/ Drop(l) \/ Cancel(l)
             \/ Register(l) \/ RecordLogin(l) \/ LoopEnds(l) \/ RecordLogout(l) \/ Unregister(l)
             \/ ShowNotice(l) \/ CmdWall(l) \/ \E u \in People : NotifyNewMail(l, u)
      PROVE  UNCHANGED <<row, audit, task, contested>>
  BY <1>3 DEF HandleLogin, CreateSession, TokenEnds, LetIn, Drop, Cancel, Register, RecordLogin,
     LoopEnds, RecordLogout, Unregister, ShowNotice, CmdWall, NotifyNewMail
<1>4. CASE NodeStops
  <2>1. /\ UNCHANGED <<row, audit>>
        /\ \A m \in Lines : task'[m] = Nothing
        /\ \A w \in People \ contested' : w \notin contested /\ \A m \in Lines : ~Auditing(m, w)
    BY <1>4 DEF NodeStops, Auditing
  <2>2. QED
    BY <2>1 DEF OneAudit, AuditTrue, Auditing
<1>5. QED
  BY <1>1, <1>2, <1>3, <1>4, SetBannedAudit, RecordAuditKeeps DEF SessNext, HandleWS, HandleSSH, sessVars

LEMMA OneAuditHolds == SessSpec => []OneAudit
<1>1. SessInit => OneAudit
  BY NoneAssumption DEF SessInit, OneAudit, AuditTrue, Auditing
<1>2. SessTypeOK /\ OneAudit /\ [SessNext]_sessVars => OneAudit'
  BY AuditSteps
<1>3. QED
  BY <1>1, <1>2, SessionsTypeCorrect, PTL DEF SessSpec

\* Presence, login_history, users and audit_log tell the same story, for any
\* sessions of any users, whoever is cut, whichever statement fails and whenever
\* the node stops, apart from what TablesAgree names: the common entry of one SSH
\* connection's channels, the logout of a tab that was cut or whose statement
\* failed or which the node's stop took, and a ban that two admins were at or
\* whose entry was not written.
THEOREM TablesAlwaysAgree == SessSpec => []TablesAgree
<1>1. HistoryInv => LogoutIsRecorded
  BY DEF HistoryInv, HistoryTrue, LogoutIsRecorded
<1>2. OneAudit => AuditTellsTheBan
  BY DEF OneAudit, AuditTrue, Auditing, AuditTellsTheBan
<1>3. QED
  BY <1>1, <1>2, PresentTruly, SessionsTypeCorrect, PresenceInvHolds, HistoryInvHolds,
     OneAuditHolds, PTL DEF TablesAgree

-----------------------------------------------------------------------------
(***************************************************************************)
(* Flags.  FlagStays says that a step leaves alone what FlagTrue reads; a  *)
(* line may also become shared, or cease to know the flag.                 *)
(***************************************************************************)
FlagStays(m, f) ==
    /\ knows'[m] \subseteq knows[m] /\ mine'[m] = mine[m] /\ shared \subseteq shared'
    /\ stage'[m] = stage[m] \/ (stage[m] \in Inside /\ stage'[m] \in Inside
                                /\ ~SavingFlag(m, f))
    /\ row'[Owner[m]][f] = row[Owner[m]][f]
    /\ SavingFlag(m, f)' <=> SavingFlag(m, f)
    /\ SavingFlag(m, f) => task'[m].on = task[m].on
    /\ stage[m] \in Inside /\ m \notin shared' => entry'[IdOf(m)][f] = entry[IdOf(m)][f]

LEMMA FlagKept ==
    ASSUME NEW m \in Lines, NEW f \in Flags, FlagTrue(m, f), FlagStays(m, f)
    PROVE  FlagTrue(m, f)'
<1>1. CASE stage'[m] = stage[m]
  BY <1>1 DEF FlagTrue, FlagStays
<1>2. CASE stage[m] \in Inside /\ stage'[m] \in Inside /\ ~SavingFlag(m, f)
  <2>1. stage'[m] # "loaded"
    BY <1>2 DEF Inside
  <2>2. QED
    BY <1>2, <2>1 DEF FlagTrue, FlagStays
<1>3. QED
  BY <1>1, <1>2 DEF FlagStays

\* The steps about neither a row's flags, nor a session's stage or its entry.
LEMMA QuietFlags ==
    ASSUME SessTypeOK, NEW m \in Lines, NEW f \in Flags, NEW l \in Lines,
           \/ TokenEnds(l) \/ Drop(l) \/ Cancel(l) \/ ShowNotice(l) \/ CmdWall(l) \/ SendWrite(l)
           \/ RecordAudit(l)
           \/ \E u \in People : CmdWrite(l, u) \/ NotifyNewMail(l, u)
           \/ \E u \in People, on \in BOOLEAN : SetBanned(l, u, on)
    PROVE  FlagStays(m, f)
<1>0. Owner[m] \in People
  BY IdsAreIds
<1>1. CASE \/ TokenEnds(l) \/ Drop(l) \/ Cancel(l) \/ ShowNotice(l) \/ CmdWall(l)
           \/ \E u \in People : NotifyNewMail(l, u)
  <2>1. UNCHANGED <<row, stage, mine, entry, task, knows, shared>>
    BY <1>1 DEF TokenEnds, Drop, Cancel, ShowNotice, CmdWall, NotifyNewMail
  <2>2. QED
    BY <2>1 DEF FlagStays, SavingFlag
<1>2. CASE SendWrite(l) \/ RecordAudit(l)
  <2>1. task[l].op # "flag" /\ task' = [task EXCEPT ![l] = Nothing]
    BY <1>2 DEF SendWrite, RecordAudit, End
  <2>2. UNCHANGED <<row, stage, mine, entry, knows, shared>>
    BY <1>2 DEF SendWrite, RecordAudit
  <2>3. QED
    BY <2>1, <2>2 DEF FlagStays, SavingFlag, SessTypeOK
<1>3. ASSUME NEW u \in People, CmdWrite(l, u) PROVE FlagStays(m, f)
  <2>1. task[l] = Nothing /\ task' = [task EXCEPT ![l] = [op |-> "write", to |-> u]]
    BY <1>3 DEF CmdWrite, AtPrompt, Begin
  <2>2. UNCHANGED <<row, stage, mine, entry, knows, shared>>
    BY <1>3 DEF CmdWrite
  <2>3. QED
    BY <2>1, <2>2 DEF FlagStays, SavingFlag, SessTypeOK
<1>4. ASSUME NEW u \in People, NEW on \in BOOLEAN, SetBanned(l, u, on) PROVE FlagStays(m, f)
  <2>1. task[l] = Nothing /\ task' = [task EXCEPT ![l] = [op |-> "audit", of |-> u, on |-> on]]
    BY <1>4 DEF SetBanned, AtPrompt, Begin
  <2>2. UNCHANGED <<stage, mine, entry, knows, shared>>
    BY <1>4 DEF SetBanned
  <2>3. row'[Owner[m]][f] = row[Owner[m]][f]
    BY <1>0, <1>4, SetBannedRow
  <2>4. QED
    BY <2>1, <2>2, <2>3 DEF FlagStays, SavingFlag, SessTypeOK
<1>5. QED
  BY <1>1, <1>2, <1>3, <1>4

\* A session that goes on, or a tab that asks for a token.
LEMMA StageFlags ==
    ASSUME SessTypeOK, FlagsKnown, NEW m \in Lines, NEW f \in Flags, NEW l \in Lines,
           \/ HandleLogin(l) \/ CreateSession(l) \/ RecordLogin(l) \/ LoopEnds(l) \/ RecordLogout(l)
    PROVE  FlagTrue(m, f)'
<1>0. FlagTrue(m, f) /\ FlagTrue(l, f)
  BY DEF FlagsKnown
<1>1. UNCHANGED <<row, mine, entry, task, knows, shared>>
  BY DEF HandleLogin, CreateSession, RecordLogin, LoopEnds, RecordLogout
<1>2. CASE HandleLogin(l) \/ CreateSession(l)
  <2>1. PICK x \in {"away", "issuing"} : stage' = [stage EXCEPT ![l] = x]
    BY <1>2 DEF HandleLogin, CreateSession
  <2>2. stage[l] \in {"away", "issuing"}
    BY <1>2 DEF HandleLogin, CreateSession
  <2>3. CASE m = l
    BY <1>0, <1>1, <2>1, <2>2, <2>3 DEF FlagTrue, SavingFlag, Inside, SessTypeOK
  <2>4. CASE m # l
    BY <1>0, <1>1, <2>1, <2>4, FlagKept DEF FlagStays, SavingFlag, SessTypeOK
  <2>5. QED
    BY <2>3, <2>4
<1>3. CASE RecordLogin(l) \/ LoopEnds(l) \/ RecordLogout(l)
  <2>1. PICK x \in Inside : stage' = [stage EXCEPT ![l] = x]
    BY <1>3 DEF RecordLogin, LoopEnds, RecordLogout, Inside
  <2>2. stage[l] \in Inside /\ ~SavingFlag(l, f)
    BY <1>0, <1>3 DEF RecordLogin, LoopEnds, RecordLogout, AtPrompt, Inside, FlagTrue, SavingFlag
  <2>3. FlagStays(m, f)
    BY <1>1, <2>1, <2>2 DEF FlagStays, SavingFlag, SessTypeOK
  <2>4. QED
    BY <1>0, <2>3, FlagKept
<1>4. QED
  BY <1>2, <1>3

LEMMA LetInFlags ==
    ASSUME SessTypeOK, FlagsKnown, NEW m \in Lines, NEW f \in Flags, NEW l \in Lines, LetIn(l)
    PROVE  FlagTrue(m, f)'
<1>0. FlagTrue(m, f)
  BY DEF FlagsKnown
<1>1. /\ stage[l] = "away" /\ stage' = [stage EXCEPT ![l] = "loaded"]
      /\ mine' = [mine EXCEPT ![l] = [mesg |-> row[Owner[l]].mesg, biff |-> row[Owner[l]].biff]]
      /\ knows' = [knows EXCEPT ![l] = Flags]
      /\ shared' = shared \ {l} /\ UNCHANGED <<row, entry, task>>
  BY DEF LetIn
<1>2. CASE m = l
  <2>1. stage'[m] = "loaded" /\ ~SavingFlag(m, f)'
    BY <1>0, <1>1, <1>2 DEF FlagTrue, SavingFlag, SessTypeOK
  <2>2. mine'[m][f] = row'[Owner[m]][f]
    BY <1>1, <1>2 DEF SessTypeOK, Flags
  <2>3. QED
    BY <2>1, <2>2 DEF FlagTrue, Inside
<1>3. CASE m # l
  <2>1. /\ stage'[m] = stage[m] /\ mine'[m] = mine[m] /\ knows'[m] = knows[m]
        /\ m \in shared' <=> m \in shared
    BY <1>1, <1>3 DEF SessTypeOK
  <2>2. QED
    BY <1>0, <1>1, <2>1 DEF FlagTrue, SavingFlag
<1>4. QED
  BY <1>2, <1>3

LEMMA RegisterFlags ==
    ASSUME SessTypeOK, FlagsKnown, NEW m \in Lines, NEW f \in Flags, NEW l \in Lines, Register(l)
    PROVE  FlagTrue(m, f)'
<1> DEFINE e == [line |-> l, mesg |-> mine[l].mesg, biff |-> mine[l].biff]
<1>0. FlagTrue(m, f)
  BY DEF FlagsKnown
<1>1. /\ stage[l] = "loaded" /\ stage' = [stage EXCEPT ![l] = "entered"]
      /\ entry' = [entry EXCEPT ![IdOf(l)] = e]
      /\ mine' = [mine EXCEPT ![l] = Rested]
      /\ shared' = IF Siblings(l) = {} THEN shared ELSE shared \cup Siblings(l) \cup {l}
      /\ UNCHANGED <<row, task, knows>>
  BY DEF Register
<1>2. e[f] = mine[l][f]
  BY DEF Flags, SessTypeOK
<1> HIDE DEF e
<1>3. /\ entry'[IdOf(l)] = e
      /\ \A n \in Lines : IdOf(n) # IdOf(l) => entry'[IdOf(n)] = entry[IdOf(n)]
  BY <1>1, IdsAreIds DEF SessTypeOK, Ids
<1>4. CASE m = l
  <2>1. stage'[m] = "entered" /\ ~SavingFlag(m, f)'
    BY <1>0, <1>1, <1>4 DEF FlagTrue, SavingFlag, SessTypeOK
  <2>2. QED
    BY <1>0, <1>1, <1>2, <1>3, <1>4, <2>1 DEF FlagTrue, Inside
<1>5. CASE m # l
  <2>1. stage[m] \in Inside /\ IdOf(m) = IdOf(l) => m \in shared'
    BY <1>1, <1>5, SameId DEF Siblings
  <2>2. FlagStays(m, f)
    BY <1>1, <1>3, <1>5, <2>1 DEF FlagStays, SavingFlag, SessTypeOK
  <2>3. QED
    BY <1>0, <2>2, FlagKept
<1>6. QED
  BY <1>4, <1>5

LEMMA UnregisterFlags ==
    ASSUME SessTypeOK, PresenceInv, FlagsKnown, NEW m \in Lines, NEW f \in Flags, NEW l \in Lines,
           Unregister(l)
    PROVE  FlagTrue(m, f)'
<1>0. FlagTrue(m, f)
  BY DEF FlagsKnown
<1>1. /\ stage[l] = "left" /\ stage' = [stage EXCEPT ![l] = "away"]
      /\ entry' = [entry EXCEPT ![IdOf(l)] = NoEntry]
      /\ knows' = [knows EXCEPT ![l] = {}]
      /\ UNCHANGED <<row, mine, task, shared>>
  BY DEF Unregister
<1>2. CASE m = l
  BY <1>0, <1>1, <1>2 DEF FlagTrue, SavingFlag, SessTypeOK
<1>3. CASE m # l
  <2>1. stage[m] \in Inside /\ m \notin shared => IdOf(m) # IdOf(l)
    BY <1>1, <1>3 DEF PresenceInv, TwoAreShared, Inside
  <2>2. IdOf(m) # IdOf(l) => entry'[IdOf(m)] = entry[IdOf(m)]
    BY <1>1, IdsAreIds DEF SessTypeOK, Ids
  <2>3. FlagStays(m, f)
    BY <1>1, <1>3, <2>1, <2>2 DEF FlagStays, SavingFlag, SessTypeOK
  <2>4. QED
    BY <1>0, <2>3, FlagKept
<1>4. QED
  BY <1>2, <1>3

\* The row first: the session knows its word, its user's others no longer do.
LEMMA SaveFlagFlags ==
    ASSUME SessTypeOK, FlagsKnown, NEW m \in Lines, NEW f \in Flags, NEW l \in Lines,
           NEW g \in Flags, NEW on \in BOOLEAN, SaveFlag(l, g, on)
    PROVE  FlagTrue(m, f)'
<1>0. FlagTrue(m, f) /\ Owner[m] \in People
  BY IdsAreIds DEF FlagsKnown
<1>1. /\ stage[l] = "shell" /\ task[l] = Nothing
      /\ task' = [task EXCEPT ![l] = [op |-> "flag", f |-> g, on |-> on]]
      /\ knows' = [n \in Lines |->
                      IF n = l THEN knows[n] \cup {g}
                      ELSE IF Owner[n] = Owner[l] THEN knows[n] \ {g} ELSE knows[n]]
      /\ UNCHANGED <<stage, mine, entry, shared>>
  BY DEF SaveFlag, AtPrompt, Begin
<1>2. /\ row'[Owner[l]][g] = on
      /\ Owner[m] # Owner[l] \/ f # g => row'[Owner[m]][f] = row[Owner[m]][f]
  BY <1>0, SaveFlagRow
<1>3. CASE m = l /\ f = g
  <2>1. SavingFlag(m, f)' /\ task'[m].on = on
    BY <1>1, <1>3, NoneAssumption DEF SavingFlag, SessTypeOK, Tasks
  <2>2. QED
    BY <1>1, <1>2, <1>3, <2>1 DEF FlagTrue, Inside
<1>4. CASE m = l /\ f # g
  <2>1. ~SavingFlag(m, f)' /\ ~SavingFlag(m, f)
    BY <1>1, <1>4 DEF SavingFlag, SessTypeOK
  <2>2. f \in knows'[m] <=> f \in knows[m]
    BY <1>1, <1>4
  <2>3. QED
    BY <1>0, <1>1, <1>2, <1>4, <2>1, <2>2 DEF FlagTrue
<1>5. CASE m # l
  <2>1. SavingFlag(m, f)' <=> SavingFlag(m, f)
    BY <1>1, <1>5 DEF SavingFlag, SessTypeOK
  <2>2. task'[m] = task[m]
    BY <1>1, <1>5 DEF SessTypeOK
  <2>3. f \in knows'[m] => f \in knows[m] /\ (Owner[m] # Owner[l] \/ f # g)
    BY <1>1, <1>5
  <2>4. QED
    BY <1>0, <1>1, <1>2, <2>1, <2>2, <2>3 DEF FlagTrue
<1>6. QED
  BY <1>3, <1>4, <1>5

\* Then the entry: no other session that has its own is under this id.
LEMMA SetFlagFlags ==
    ASSUME SessTypeOK, PresenceInv, FlagsKnown, NEW m \in Lines, NEW f \in Flags, NEW l \in Lines,
           SetFlag(l)
    PROVE  FlagTrue(m, f)'
<1>0. FlagTrue(m, f)
  BY DEF FlagsKnown
<1>1. PICK g \in Flags, on \in BOOLEAN :
          /\ SavingFlag(l, g) /\ task[l].on = on /\ \A h \in Flags : SavingFlag(l, h) => h = g
          /\ entry' = [entry EXCEPT ![IdOf(l)] = FlagSet(entry[IdOf(l)], g, on)]
  BY SetFlagTask
<1>2. task' = [task EXCEPT ![l] = Nothing] /\ UNCHANGED <<row, stage, mine, knows, shared>>
  BY SetFlagTask DEF SetFlag
<1>3. stage[l] = "shell" /\ stage[l] \in Inside
  BY <1>1 DEF FlagsKnown, FlagTrue, Inside
<1>4. /\ IdOf(l) \in Ids /\ IdOf(m) \in Ids
      /\ IdOf(m) # IdOf(l) => entry'[IdOf(m)] = entry[IdOf(m)]
      /\ entry'[IdOf(l)] = FlagSet(entry[IdOf(l)], g, on)
  BY <1>1, IdsAreIds DEF SessTypeOK, Ids
<1>5. CASE m # l
  <2>1. stage[m] \in Inside /\ m \notin shared => IdOf(m) # IdOf(l)
    BY <1>3, <1>5 DEF PresenceInv, TwoAreShared
  <2>2. FlagStays(m, f)
    BY <1>2, <1>4, <1>5, <2>1 DEF FlagStays, SavingFlag, SessTypeOK
  <2>3. QED
    BY <1>0, <2>2, FlagKept
<1>6. CASE m = l
  <2>1. ~SavingFlag(m, f)'
    BY <1>2, <1>6 DEF SavingFlag, SessTypeOK
  <2>2. m \notin shared => entry[IdOf(m)] \in Entries
    BY <1>3, <1>4, <1>6 DEF PresenceInv, AloneHasEntry, SessTypeOK, Ids
  <2>3. m \notin shared => entry'[IdOf(m)][g] = on
                           /\ (f # g => entry'[IdOf(m)][f] = entry[IdOf(m)][f])
    BY <1>4, <1>6, <2>2, FlagSetEntry
  <2>4. f # g => ~SavingFlag(m, f)
    BY <1>1, <1>6
  <2>5. CASE f = g
    BY <1>0, <1>1, <1>2, <1>3, <1>6, <2>1, <2>3, <2>5 DEF FlagTrue
  <2>6. CASE f # g
    BY <1>0, <1>2, <2>1, <2>3, <2>4, <2>6 DEF FlagTrue
  <2>7. QED
    BY <2>5, <2>6
<1>7. QED
  BY <1>5, <1>6

LEMMA FlagsKnownHolds == SessSpec => []FlagsKnown
<1>1. SessInit => FlagsKnown
  BY NoneAssumption DEF SessInit, FlagsKnown, FlagTrue, SavingFlag
<1>2. SessTypeOK /\ PresenceInv /\ FlagsKnown /\ [SessNext]_sessVars => FlagsKnown'
  <2> SUFFICES ASSUME SessTypeOK, PresenceInv, FlagsKnown, [SessNext]_sessVars,
                      NEW m \in Lines, NEW f \in Flags
               PROVE  FlagTrue(m, f)'
    BY DEF FlagsKnown
  <2>1. FlagTrue(m, f)
    BY DEF FlagsKnown
  <2>2. ASSUME NEW l \in Lines,
               \/ TokenEnds(l) \/ Drop(l) \/ Cancel(l) \/ ShowNotice(l) \/ CmdWall(l) \/ SendWrite(l)
               \/ RecordAudit(l)
               \/ \E u \in People : CmdWrite(l, u) \/ NotifyNewMail(l, u)
               \/ \E u \in People, on \in BOOLEAN : SetBanned(l, u, on)
        PROVE  FlagTrue(m, f)'
    BY <2>1, <2>2, QuietFlags, FlagKept
  <2>3. CASE UNCHANGED sessVars
    BY <2>1, <2>3, FlagKept DEF sessVars, FlagStays, SavingFlag
  <2>4. CASE NodeStops
    BY <2>4 DEF NodeStops, FlagTrue, SavingFlag, Inside
  <2>5. QED
    BY <2>2, <2>3, <2>4, StageFlags, LetInFlags, RegisterFlags, UnregisterFlags, SaveFlagFlags, SetFlagFlags
       DEF SessNext, HandleWS, HandleSSH
<1>3. QED
  BY <1>1, <1>2, SessionsTypeCorrect, PresenceInvHolds, PTL DEF SessSpec

-----------------------------------------------------------------------------
\* Notices.  What a step puts into a queue, and for whom.

LEMMA TakesDelivered ==
    ASSUME SessTypeOK, NEW l \in Lines, NEW takers, NEW k \in Kinds, NEW j \in Kinds,
           queue' = Delivered(takers, j), Takes(l, k)
    PROVE  j = k /\ l \in takers
<1>1. queue[l] \in Seq(Kinds) /\ queue'[l] = Append(queue[l], k)
  BY DEF SessTypeOK, Takes
<1>2. queue'[l] # queue[l]
  BY <1>1
<1>3. l \in takers /\ queue'[l] = Append(queue[l], j)
  BY <1>2 DEF Delivered
<1>4. Append(queue[l], k)[Len(queue[l]) + 1] = k /\ Append(queue[l], j)[Len(queue[l]) + 1] = j
  BY <1>1
<1>5. QED
  BY <1>1, <1>3, <1>4

LEMMA AppendIsNew ==
    ASSUME NEW S, NEW s \in Seq(S), NEW x \in S
    PROVE  Append(s, x) # s /\ Append(s, x) # <<>> /\ (s # <<>> => Append(s, x) # Tail(s))
<1>1. Len(Append(s, x)) = Len(s) + 1 /\ Len(s) \in Nat
  BY AppendProperties, LenProperties
<1>2. s # <<>> => Len(Tail(s)) = Len(s) - 1
  BY HeadTailProperties
<1>3. Append(s, x) # s
  BY <1>1
<1>4. Append(s, x) # <<>>
  BY AppendProperties
<1>5. s # <<>> => Append(s, x) # Tail(s)
  BY <1>1, <1>2
<1>6. QED
  BY <1>3, <1>4, <1>5

\* A notice is put into a queue by a command that sends it, and by no other step.
LEMMA TakesFrom ==
    ASSUME SessTypeOK, [SessNext]_sessVars, NEW l \in Lines, NEW k \in {"write", "biff"}, Takes(l, k)
    PROVE  \E u : l \in Takers(u, k)
<1>1. queue[l] \in Seq(Kinds) /\ queue'[l] = Append(queue[l], k) /\ k \in Kinds
  BY DEF SessTypeOK, Takes, Kinds
<1>2. queue'[l] # queue[l] /\ queue'[l] # <<>> /\ (queue[l] # <<>> => queue'[l] # Tail(queue[l]))
  BY <1>1, AppendIsNew
<1>3. ASSUME NEW m \in Lines, ShowNotice(m) \/ Unregister(m) PROVE FALSE
  <2>1. \/ queue' = [queue EXCEPT ![m] = Tail(@)] /\ queue[m] # <<>>
        \/ queue' = [queue EXCEPT ![m] = <<>>]
    BY <1>3 DEF ShowNotice, Unregister
  <2>2. QED
    BY <1>2, <2>1 DEF SessTypeOK
<1>4. ASSUME NEW m \in Lines, SendWrite(m) PROVE \E u : l \in Takers(u, k)
  <2>1. queue' = Delivered(Takers(task[m].to, "write"), "write")
    BY <1>2, <1>4 DEF SendWrite
  <2>2. k = "write" /\ l \in Takers(task[m].to, "write")
    BY <1>1, <2>1, TakesDelivered DEF Kinds
  <2>3. QED
    BY <2>2
<1>5. ASSUME NEW m \in Lines, NEW u \in People, NotifyNewMail(m, u) PROVE \E w : l \in Takers(w, k)
  <2>1. queue' = Delivered(Takers(u, "biff"), "biff")
    BY <1>5 DEF NotifyNewMail
  <2>2. k = "biff" /\ l \in Takers(u, "biff")
    BY <1>1, <2>1, TakesDelivered DEF Kinds
  <2>3. QED
    BY <2>2
<1>6. ASSUME NEW m \in Lines, CmdWall(m) PROVE FALSE
  <2>1. PICK takers : queue' = Delivered(takers, "wall")
    BY <1>6 DEF CmdWall
  <2>2. QED
    BY <1>1, <2>1, TakesDelivered DEF Kinds
<1>7. ASSUME NEW m \in Lines,
             \/ HandleLogin(m) \/ CreateSession(m) \/ TokenEnds(m) \/ LetIn(m) \/ Drop(m) \/ Cancel(m)
             \/ Register(m) \/ RecordLogin(m) \/ LoopEnds(m) \/ RecordLogout(m) \/ SetFlag(m)
             \/ RecordAudit(m) \/ \E u \in People : CmdWrite(m, u)
             \/ \E u \in People, on \in BOOLEAN : SetBanned(m, u, on)
             \/ \E f \in Flags, on \in BOOLEAN : SaveFlag(m, f, on)
      PROVE  queue' = queue
  BY <1>7 DEF HandleLogin, CreateSession, TokenEnds, LetIn, Drop, Cancel, Register, RecordLogin,
     LoopEnds, RecordLogout, SetFlag, RecordAudit, CmdWrite, SetBanned, SaveFlag
<1>8. ASSUME NodeStops PROVE FALSE
  BY <1>2, <1>8 DEF NodeStops
<1>9. QED
  BY <1>2, <1>3, <1>4, <1>5, <1>6, <1>7, <1>8 DEF SessNext, HandleWS, HandleSSH, sessVars

\* Who takes a notice is in an entry whose flag is on.
LEMMA TakerIsOn ==
    ASSUME SessTypeOK, PresenceInv, NEW l \in Lines, NEW k \in {"write", "biff"}, NEW u,
           l \in Takers(u, k)
    PROVE  stage[l] \in Inside /\ entry[IdOf(l)][Gate(k)] = TRUE
<1>1. PICK i \in Live(u) : l = entry[i].line /\ entry[i][Gate(k)]
  BY DEF Takers
<1>2. i \in DOMAIN entry /\ entry[i] # NoEntry
  BY <1>1 DEF Live
<1>3. IdOf(l) = i /\ stage[l] \in Inside
  BY <1>1, <1>2 DEF PresenceInv, EntriesPlaced
<1>4. entry[i] \in Entries
  BY <1>2 DEF SessTypeOK
<1>5. entry[i].mesg \in BOOLEAN /\ entry[i].biff \in BOOLEAN
  BY <1>4 DEF Entries
<1>6. QED
  BY <1>1, <1>3, <1>5 DEF Gate

\* No write and no mail alert is taken by a session that has seen its user's
\* word against them, for any sessions and any interleaving of their commands.
THEOREM OffAlwaysOff == SessSpec => OffMeansOff
<1>1. ASSUME SessTypeOK, PresenceInv, FlagsKnown, [SessNext]_sessVars,
             NEW l \in Lines, NEW k \in {"write", "biff"}, Takes(l, k), Gate(k) \in knows[l],
             l \notin shared, ~SavingFlag(l, Gate(k))
      PROVE  row[Owner[l]][Gate(k)]
  <2>0. PICK u : l \in Takers(u, k)
    BY <1>1, TakesFrom
  <2>1. stage[l] \in Inside /\ entry[IdOf(l)][Gate(k)] = TRUE
    BY <1>1, <2>0, TakerIsOn
  <2>2. FlagTrue(l, Gate(k))
    BY <1>1 DEF FlagsKnown, Gate, Flags
  <2>3. QED
    BY <1>1, <2>1, <2>2 DEF FlagTrue
<1>2. SessTypeOK /\ PresenceInv /\ FlagsKnown /\ [SessNext]_sessVars =>
        [\A l \in Lines, k \in {"write", "biff"} :
            Takes(l, k) /\ Gate(k) \in knows[l] /\ l \notin shared
               /\ ~(task[l] # Nothing /\ task[l].op = "flag" /\ task[l].f = Gate(k))
            => row[Owner[l]][Gate(k)]]_sessVars
  BY <1>1 DEF SavingFlag
<1>3. QED
  BY <1>2, SessionsTypeCorrect, PresenceInvHolds, FlagsKnownHolds, PTL DEF SessSpec, OffMeansOff
=============================================================================

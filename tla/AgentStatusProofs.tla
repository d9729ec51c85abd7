-------------------------- MODULE AgentStatusProofs --------------------------
(***************************************************************************)
(* Proofs about AgentStatus, for any number of handlers, commands and      *)
(* losses of Redis: a command that nothing overlapped holds, and the two   *)
(* locks are taken in one order.                                           *)
(***************************************************************************)
EXTENDS AgentStatus, TLAPS

Jobs == [kind : Kinds \cup {"none", "read"}, target : Statuses \cup {"none"},
         seen : Statuses \cup {"none"}, dirty : BOOLEAN]

Labels == {"idle", "get", "fill", "select", "flush", "cache", "chain", "contain", "commit"}

\* The steps of a command after its UPDATE, and after its first audit event.
Updated  == {"cache", "chain", "contain", "commit"}
Auditing == {"contain", "commit"}

Types ==
  /\ row \in Statuses /\ cache \in Statuses \cup {"none"}
  /\ rowLock \in Handlers \cup {NoHandler} /\ chainLock \in Handlers \cup {NoHandler}
  /\ pc \in [Handlers -> Labels] /\ job \in [Handlers -> Jobs]
  /\ alone \subseteq Handlers /\ settled \in Statuses \cup {"none"}

\* A handler: its label tells what it works on and how far it is.
JobFits(label, j) ==
  /\ label = "idle" => j = NoJob
  /\ label \in {"get", "fill"} => j.kind = "read"
  /\ label \in {"select", "flush", "commit"} => j.kind \in Kinds
  /\ label \in {"cache", "chain", "contain"} => j.kind \in {"quarantine", "restore"}
  /\ j.kind \in Kinds => j.target \in Statuses
  /\ label \in {"fill", "flush"} \cup Updated => j.seen \in Statuses
  /\ label \in Updated => j.dirty = (j.seen # j.target)

JobsFit == \A h \in Handlers : JobFits(pc[h], job[h])

\* Who changes the row locks it, and only a command that writes events locks the chain.
RowLocked ==
  /\ \A h \in Handlers : pc[h] \in Updated /\ job[h].dirty => rowLock = h
  /\ rowLock # NoHandler => pc[rowLock] \in Updated /\ job[rowLock].dirty
ChainLocked ==
  /\ \A h \in Handlers : pc[h] \in Auditing /\ job[h].kind # "patch" => chainLock = h
  /\ chainLock # NoHandler => pc[chainLock] \in Auditing

\* The last command set the key and nobody replaced it.
KeyIsSet(h) ==
  pc[h] \in {"chain", "contain"} \/ (pc[h] = "commit" /\ job[h].kind # "patch")

\* A command that nothing overlaps works on the row as it is.
AloneWorksOnTheRow ==
  \A h \in alone :
    job[h].kind \in Kinds =>
      /\ \A k \in Handlers : job[k].kind \in Kinds => k = h
      /\ pc[h] \in {"flush"} \cup Updated => job[h].seen = row
      /\ KeyIsSet(h) => cache \in {"none", job[h].target}

\* After such a command everybody who will still write the key has read the row it left.
SettledIsSeen ==
  settled # "none" =>
    /\ row = settled /\ cache \in {"none", settled}
    /\ \A k \in Handlers : /\ job[k].kind \notin Kinds
                           /\ pc[k] = "fill" => job[k].seen = settled

StatusInv ==
  Types /\ JobsFit /\ RowLocked /\ ChainLocked /\ AloneWorksOnTheRow /\ SettledIsSeen

-----------------------------------------------------------------------------
(* Every action keeps every part of the invariant.                         *)

(* A command starts: from now on no other is alone.                        *)
LEMMA GiveKeeps ==
  ASSUME StatusInv, NEW h \in Handlers, NEW kind \in Kinds, NEW target \in Statuses, Give(h, kind, target)
  PROVE  StatusInv'
<1> USE NamesAssumption DEF StatusInv, Give, NoJob, Commanding, Goto, stores, locks, bounds, history
<1>1. Types'
  BY DEF Types, Jobs, Labels
<1>2. JobsFit'
  BY DEF Types, JobsFit, JobFits, Updated
<1>3. RowLocked' /\ ChainLocked'
  BY DEF Updated, Auditing, RowLocked, ChainLocked
<1>4. AloneWorksOnTheRow'
  BY DEF Updated, AloneWorksOnTheRow, KeyIsSet
<1>5. SettledIsSeen'
  BY DEF SettledIsSeen
<1> QED BY <1>1, <1>2, <1>3, <1>4, <1>5

(* The command reads the row it will compare with.                         *)
LEMMA SelectKeeps ==
  ASSUME StatusInv, NEW h \in Handlers, SelectAgent(h)
  PROVE  StatusInv'
<1> USE NamesAssumption DEF StatusInv, SelectAgent, Commanding, Goto, stores, locks, bounds, history
<1>1. Types'
  BY DEF Types, Jobs, Labels
<1>2. JobsFit'
  BY DEF Types, JobsFit, JobFits, Updated
<1>3. RowLocked' /\ ChainLocked'
  BY DEF Updated, Auditing, RowLocked, ChainLocked
<1>4. AloneWorksOnTheRow'
  BY DEF Types, AloneWorksOnTheRow, KeyIsSet
<1>5. SettledIsSeen'
  BY DEF SettledIsSeen
<1> QED BY <1>1, <1>2, <1>3, <1>4, <1>5

\* The UPDATE: the changed fields first, then what they mean for each part.
LEMMA FlushKeeps ==
  ASSUME StatusInv, NEW h \in Handlers, FlushStatus(h)
  PROVE  StatusInv'
<1> USE NamesAssumption DEF StatusInv, FlushStatus, Goto, stores, locks, bounds, history
<1> DEFINE dirty == job[h].seen # job[h].target
           next  == [job[h] EXCEPT !.dirty = dirty]
<1>1. job[h] \in Jobs /\ dirty \in BOOLEAN
  BY DEF Types
<1>2. next = [kind |-> job[h].kind, target |-> job[h].target, seen |-> job[h].seen, dirty |-> dirty]
  BY <1>1 DEF Jobs
<1>3. next \in Jobs
  BY <1>1, <1>2 DEF Jobs
<1>4. job' = [job EXCEPT ![h] = next]
  OBVIOUS
<1> HIDE DEF next
<1>5. job'[h] = next /\ \A k \in Handlers \ {h} : job'[k] = job[k] /\ pc'[k] = pc[k]
  BY <1>4 DEF Types
<1>6. /\ pc[h] = "flush" /\ pc'[h] \in {"commit", "cache"}
      /\ job[h].kind # "patch" => pc'[h] = "cache"
      /\ job'[h].kind = job[h].kind /\ job'[h].seen = job[h].seen
      /\ job'[h].target = job[h].target /\ job'[h].dirty = dirty
  BY <1>2, <1>5 DEF Types
<1>7. /\ dirty => rowLock = NoHandler
      /\ rowLock' = IF dirty THEN h ELSE rowLock
  OBVIOUS
<1>8. Types'
  BY <1>3, <1>4, <1>7 DEF Types, Labels
<1>9. JobsFit'
  BY <1>5, <1>6 DEF JobsFit, JobFits, Updated, Kinds
<1>10. RowLocked'
  <2>1. CASE dirty
    <3>1. \A k \in Handlers : ~(pc[k] \in Updated /\ job[k].dirty)
      BY <1>7, <2>1 DEF RowLocked
    <3> QED BY <1>5, <1>6, <1>7, <2>1, <3>1 DEF RowLocked, Updated
  <2>2. CASE ~dirty
    BY <1>5, <1>6, <1>7, <2>2 DEF Types, RowLocked, Updated
  <2> QED BY <2>1, <2>2
<1>11. ChainLocked'
  BY <1>5, <1>6 DEF Types, ChainLocked, Auditing
<1>12. AloneWorksOnTheRow'
  BY <1>5, <1>6 DEF Types, AloneWorksOnTheRow, KeyIsSet, Updated
<1>13. SettledIsSeen'
  BY <1>5, <1>6 DEF SettledIsSeen, JobsFit, JobFits
<1> QED BY <1>8, <1>9, <1>10, <1>11, <1>12, <1>13

(* The key is set before the commit.                                       *)
LEMMA WriteCacheKeeps ==
  ASSUME StatusInv, NEW h \in Handlers, WriteCache(h)
  PROVE  StatusInv'
<1> USE NamesAssumption DEF StatusInv, WriteCache, Goto, stores, locks, bounds, history
<1>1. Types'
  BY DEF Types, Labels, Kinds, JobsFit, JobFits
<1>2. JobsFit'
  BY DEF JobsFit, JobFits, Updated
<1>3. RowLocked' /\ ChainLocked'
  BY DEF Updated, Auditing, RowLocked, ChainLocked
<1>4. AloneWorksOnTheRow'
  BY DEF Kinds, JobsFit, JobFits, Updated, AloneWorksOnTheRow
<1>5. SettledIsSeen'
  BY DEF Kinds, JobsFit, JobFits, SettledIsSeen
<1> QED BY <1>1, <1>2, <1>3, <1>4, <1>5

LEMMA LockChainKeeps ==
  ASSUME StatusInv, NEW h \in Handlers, LockChain(h)
  PROVE  StatusInv'
<1> USE NamesAssumption DEF StatusInv, LockChain, Goto, stores, locks, bounds, history
<1>1. Types'
  BY DEF Types, Labels
<1>2. JobsFit'
  BY DEF Kinds, JobsFit, JobFits, Updated
<1>3. RowLocked' /\ ChainLocked'
  BY DEF Types, Updated, Auditing, RowLocked, ChainLocked
<1>4. AloneWorksOnTheRow'
  BY DEF Updated, AloneWorksOnTheRow, KeyIsSet
<1>5. SettledIsSeen'
  BY DEF SettledIsSeen
<1> QED BY <1>1, <1>2, <1>3, <1>4, <1>5

LEMMA ContainKeeps ==
  ASSUME StatusInv, NEW h \in Handlers, Contain(h)
  PROVE  StatusInv'
<1> USE NamesAssumption DEF StatusInv, Contain, Goto, stores, locks, bounds, history
<1>1. Types'
  BY DEF Types, Labels
<1>2. JobsFit'
  BY DEF Kinds, JobsFit, JobFits, Updated
<1>3. RowLocked' /\ ChainLocked'
  BY DEF Updated, Auditing, RowLocked, ChainLocked
<1>4. AloneWorksOnTheRow'
  BY DEF Updated, AloneWorksOnTheRow, KeyIsSet
<1>5. SettledIsSeen'
  BY DEF SettledIsSeen
<1> QED BY <1>1, <1>2, <1>3, <1>4, <1>5

(* A command that was alone settles: whoever reads meanwhile has read what *)
(* it wrote.                                                               *)
LEMMA CommitKeeps ==
  ASSUME StatusInv, NEW h \in Handlers, Commit(h)
  PROVE  StatusInv'
<1> USE NamesAssumption DEF StatusInv, Commit, Leave, NoJob, Settled, Goto, stores, locks, bounds, history
<1>1. Types'
  BY DEF Types, Jobs, Labels, JobsFit, JobFits
<1>2. JobsFit'
  BY DEF Types, Kinds, JobsFit, JobFits, Updated
<1>3. RowLocked' /\ ChainLocked'
  BY DEF Types, Auditing, RowLocked, ChainLocked
<1>4. AloneWorksOnTheRow'
  BY DEF Types, JobsFit, JobFits, Updated, AloneWorksOnTheRow, KeyIsSet
<1>5. SettledIsSeen'
  BY DEF Types, Kinds, JobsFit, JobFits, Updated, AloneWorksOnTheRow, KeyIsSet, SettledIsSeen
<1> QED BY <1>1, <1>2, <1>3, <1>4, <1>5

(* A crash rolls back the row, but not the key.                            *)
LEMMA CrashKeeps ==
  ASSUME StatusInv, NEW h \in Handlers, Crash(h)
  PROVE  StatusInv'
<1> USE NamesAssumption DEF StatusInv, Crash, Leave, NoJob, Goto, stores, locks, bounds, history
<1>1. Types'
  BY DEF Types, Jobs, Labels
<1>2. JobsFit'
  BY DEF Types, Kinds, JobsFit, JobFits, Updated
<1>3. RowLocked' /\ ChainLocked'
  BY DEF Types, Auditing, RowLocked, ChainLocked
<1>4. AloneWorksOnTheRow'
  BY DEF Kinds, Updated, AloneWorksOnTheRow, KeyIsSet
<1>5. SettledIsSeen'
  BY DEF Types, Kinds, SettledIsSeen
<1> QED BY <1>1, <1>2, <1>3, <1>4, <1>5

-----------------------------------------------------------------------------
(* Readers, which fill the key after a miss, and the loss of the key.      *)

LEMMA StartReadKeeps ==
  ASSUME StatusInv, NEW h \in Handlers, StartRead(h)
  PROVE  StatusInv'
<1> USE NamesAssumption DEF StatusInv, StartRead, NoJob, Goto, stores, locks, bounds, history
<1>1. Types'
  BY DEF Types, Jobs, Labels
<1>2. JobsFit'
  BY DEF Types, Kinds, JobsFit, JobFits, Updated
<1>3. RowLocked' /\ ChainLocked'
  BY DEF Updated, Auditing, RowLocked, ChainLocked
<1>4. AloneWorksOnTheRow'
  BY DEF Kinds, Updated, AloneWorksOnTheRow, KeyIsSet
<1>5. SettledIsSeen'
  BY DEF Kinds, SettledIsSeen
<1> QED BY <1>1, <1>2, <1>3, <1>4, <1>5

LEMMA ReadCacheKeeps ==
  ASSUME StatusInv, NEW h \in Handlers, ReadCache(h)
  PROVE  StatusInv'
<1> USE NamesAssumption DEF StatusInv, ReadCache, Leave, NoJob, Goto, stores, locks, bounds, history
<1>1. Types'
  BY DEF Types, Jobs, Labels
<1>2. JobsFit'
  BY DEF Types, Kinds, JobsFit, JobFits, Updated
<1>3. RowLocked' /\ ChainLocked'
  BY DEF Updated, Auditing, RowLocked, ChainLocked
<1>4. AloneWorksOnTheRow'
  BY DEF Kinds, Updated, AloneWorksOnTheRow, KeyIsSet
<1>5. SettledIsSeen'
  BY DEF Kinds, SettledIsSeen
<1> QED BY <1>1, <1>2, <1>3, <1>4, <1>5

LEMMA MissCacheKeeps ==
  ASSUME StatusInv, NEW h \in Handlers, MissCache(h)
  PROVE  StatusInv'
<1> USE NamesAssumption DEF StatusInv, MissCache, Goto, stores, locks, bounds, history
<1>1. Types'
  BY DEF Types, Jobs, Labels
<1>2. JobsFit'
  BY DEF Types, JobsFit, JobFits, Updated
<1>3. RowLocked' /\ ChainLocked'
  BY DEF Updated, Auditing, RowLocked, ChainLocked
<1>4. AloneWorksOnTheRow'
  BY DEF Updated, AloneWorksOnTheRow
<1>5. SettledIsSeen'
  BY DEF Types, SettledIsSeen
<1> QED BY <1>1, <1>2, <1>3, <1>4, <1>5

LEMMA FillCacheKeeps ==
  ASSUME StatusInv, NEW h \in Handlers, FillCache(h)
  PROVE  StatusInv'
<1> USE NamesAssumption DEF StatusInv, FillCache, Leave, NoJob, Goto, stores, locks, bounds, history
<1>1. Types'
  BY DEF Types, Jobs, Labels
<1>2. JobsFit'
  BY DEF Types, Kinds, JobsFit, JobFits, Updated
<1>3. RowLocked' /\ ChainLocked'
  BY DEF Updated, Auditing, RowLocked, ChainLocked
<1>4. AloneWorksOnTheRow'
  BY DEF Kinds, AloneWorksOnTheRow, KeyIsSet
<1>5. SettledIsSeen'
  BY DEF Types, Kinds, SettledIsSeen
<1> QED BY <1>1, <1>2, <1>3, <1>4, <1>5

LEMMA LoseCacheKeeps == StatusInv /\ LoseCache => StatusInv'
BY DEF StatusInv, LoseCache, stores, locks, history, Types, JobsFit, RowLocked, ChainLocked,
       AloneWorksOnTheRow, KeyIsSet, SettledIsSeen

LEMMA StutterKeeps == StatusInv /\ UNCHANGED vars => StatusInv'
BY DEF StatusInv, vars, stores, locks, bounds, history, Types, JobsFit, RowLocked, ChainLocked,
       AloneWorksOnTheRow, KeyIsSet, SettledIsSeen

-----------------------------------------------------------------------------
LEMMA StatusInvHolds == Spec => []StatusInv
<1>1. Init => StatusInv
  BY NamesAssumption DEF Init, StatusInv, Types, Jobs, Labels, NoJob, Kinds, Statuses, JobsFit, JobFits,
     Updated, Auditing, RowLocked, ChainLocked, AloneWorksOnTheRow, SettledIsSeen
<1>2. StatusInv /\ [Next]_vars => StatusInv'
  <2> SUFFICES ASSUME StatusInv, [Next]_vars PROVE StatusInv'
    OBVIOUS
  <2>1. ASSUME NEW h \in Handlers, StartCommand(h) PROVE StatusInv'
    BY <2>1, GiveKeeps DEF StartCommand, Kinds, Statuses
  <2>2. ASSUME NEW h \in Handlers, StartRead(h) PROVE StatusInv'
    BY <2>2, StartReadKeeps
  <2>3. ASSUME NEW h \in Handlers, Progress(h) PROVE StatusInv'
    BY <2>3, SelectKeeps, FlushKeeps, WriteCacheKeeps, LockChainKeeps, ContainKeeps, CommitKeeps,
       ReadCacheKeeps, MissCacheKeeps, FillCacheKeeps DEF Progress
  <2>4. ASSUME NEW h \in Handlers, Crash(h) PROVE StatusInv'
    BY <2>4, CrashKeeps
  <2>5. CASE LoseCache
    BY <2>5, LoseCacheKeeps
  <2>6. CASE UNCHANGED vars
    BY <2>6, StutterKeeps
  <2> QED BY <2>1, <2>2, <2>3, <2>4, <2>5, <2>6 DEF Next
<1> QED BY <1>1, <1>2, PTL DEF Spec

(* A revocation or restoration that nothing overlapped holds: row and key  *)
(* agree on it until the next command, whoever crashes, whether Kubernetes *)
(* failed, and however often Redis forgets the key (README.md:19).         *)
THEOREM SettledCommandsHold == Spec => []SettledCommandHolds
<1>1. StatusInv => SettledCommandHolds
  BY DEF StatusInv, SettledIsSeen, SettledCommandHolds
<1> QED BY <1>1, StatusInvHolds, PTL

\* Between its UPDATE and its commit a command is the only one that changes
\* the row; who holds the head of the chain waits for no lock, and who holds
\* the row lock can only wait for the head of the chain.
OneWriter ==
  \A h, k \in Handlers :
    pc[h] \in Updated /\ job[h].dirty /\ pc[k] \in Updated /\ job[k].dirty => h = k
LocksInOrder ==
  \A h \in Handlers : /\ chainLock = h => pc[h] \in Auditing
                      /\ rowLock = h => pc[h] \in Updated

(* No two commands hold an uncommitted UPDATE of the agent, and the row    *)
(* lock and the lock of the chain head are taken in one order: no two      *)
(* handlers wait for each other (the row lock of the UPDATE and the        *)
(* SELECT ... FOR UPDATE of the chain head in create_audit_event).         *)
THEOREM CommandsDoNotDeadlock == Spec => [](OneWriter /\ LocksInOrder)
<1>1. StatusInv => OneWriter /\ LocksInOrder
  BY NamesAssumption DEF StatusInv, RowLocked, ChainLocked, OneWriter, LocksInOrder
<1> QED BY <1>1, StatusInvHolds, PTL
=============================================================================

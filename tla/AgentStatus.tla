----------------------------- MODULE AgentStatus -----------------------------
(***************************************************************************)
(* The status of one agent: the row of the table agents, the key in Redis  *)
(* that caches it, and the deployment in Kubernetes. Handlers revoke       *)
(* (POST /revoke and /quarantine), restore and PATCH the agent, and        *)
(* evaluate_request reads the status through the cache.                    *)
(*                                                                         *)
(* The two locks are the row lock of the UPDATE and the head row of the    *)
(* audit chain (AuditChain), which a revocation keeps while it calls       *)
(* Kubernetes.                                                             *)
(***************************************************************************)
EXTENDS Integers, FiniteSets

CONSTANTS
  Handlers,     \* request handlers that may run at the same time
  Commands,     \* commands that operators give: subset of the kinds below
  MaxCommands,  \* bound: commands given
  MaxLosses,    \* bound: times Redis loses its keys
  NoHandler     \* nobody holds a lock

Kinds    == {"quarantine", "restore", "patch"}
Statuses == {"ACTIVE", "REVOKED"}

ASSUME CommandsAssumption == Commands \subseteq Kinds
ASSUME BoundsAssumption   == MaxCommands \in Nat /\ MaxLosses \in Nat
ASSUME NamesAssumption    == NoHandler \notin Handlers

VARIABLES
  row,        \* committed status of the agent
  rowLock,    \* handler whose uncommitted UPDATE locks the row
  chainLock,  \* handler that locks the head of the audit chain
  cache,      \* Redis: status of the agent, "none" when there is no key
  replicas,   \* replicas the deployment of the agent should have
  revoked,    \* committed AGENT_REVOKED events
  pc,         \* what each handler does next
  job,        \* what each handler works on
  answer,     \* status the last read of each handler returned
  given,      \* commands given (only for the bound)
  losses      \* losses of Redis (only for the bound)

\* History: what was so while a handler ran, and since the last revocation.
VARIABLES
  alone,      \* commands that no other command overlapped
  settled,    \* what the last command set, if it was alone and was the last one given
  done        \* a revocation has answered, no other command was given since

stores == <<row, cache, replicas, revoked>>
locks  == <<rowLock, chainLock>>
bounds == <<given, losses>>
history == <<alone, settled, done>>
vars == <<stores, locks, pc, job, answer, bounds, history>>

NoJob == [kind |-> "none", target |-> "none", seen |-> "none", dirty |-> FALSE]

-----------------------------------------------------------------------------
Init ==
  /\ row = "ACTIVE" /\ cache = "none" /\ replicas = 1 /\ revoked = 0
  /\ rowLock = NoHandler /\ chainLock = NoHandler
  /\ pc = [h \in Handlers |-> "idle"]
  /\ job = [h \in Handlers |-> NoJob]
  /\ answer = [h \in Handlers |-> "none"]
  /\ given = 0 /\ losses = 0
  /\ alone = {} /\ settled = "none" /\ done = FALSE

Goto(h, label) == pc' = [pc EXCEPT ![h] = label]

Commanding == {h \in Handlers : job[h].kind \in Kinds}

\* The transaction of h is over and its locks are free.
Leave(h) ==
  /\ Goto(h, "idle")
  /\ job' = [job EXCEPT ![h] = NoJob]
  /\ rowLock'   = IF rowLock = h THEN NoHandler ELSE rowLock
  /\ chainLock' = IF chainLock = h THEN NoHandler ELSE chainLock

-----------------------------------------------------------------------------
(* Commands                                                                *)

Give(h, kind, target) ==
  /\ pc[h] = "idle"
  /\ given < MaxCommands
  /\ given' = given + 1
  /\ Goto(h, "select")
  /\ job' = [job EXCEPT ![h] = [NoJob EXCEPT !.kind = kind, !.target = target]]
  /\ alone' = IF Commanding = {} THEN {h} ELSE {}
  /\ settled' = "none"
  /\ done' = (done /\ kind = "quarantine")
  /\ UNCHANGED <<stores, locks, answer, losses>>

StartCommand(h) ==
  \/ "quarantine" \in Commands /\ Give(h, "quarantine", "REVOKED")
  \/ "restore" \in Commands /\ Give(h, "restore", "ACTIVE")
  \/ "patch" \in Commands /\ \E s \in Statuses : Give(h, "patch", s)

\* The session loads the agent.
SelectAgent(h) ==
  /\ pc[h] = "select" /\ h \in Commanding
  /\ job' = [job EXCEPT ![h].seen = row]
  /\ Goto(h, "flush")
  /\ UNCHANGED <<stores, locks, answer, bounds, history>>

\* The unit of work sends an UPDATE, which locks the row, only when the
\* status differs from the one that was loaded.
FlushStatus(h) ==
  /\ pc[h] = "flush"
  /\ LET dirty == job[h].seen # job[h].target
     IN  /\ dirty => rowLock = NoHandler
         /\ rowLock' = IF dirty THEN h ELSE rowLock
         /\ job' = [job EXCEPT ![h].dirty = dirty]
  /\ Goto(h, IF job[h].kind = "patch" THEN "commit" ELSE "cache")
  /\ UNCHANGED <<stores, chainLock, answer, bounds, history>>

\* Redis gets the new status before the transaction commits.
WriteCache(h) ==
  /\ pc[h] = "cache"
  /\ cache' = job[h].target
  /\ Goto(h, "chain")
  /\ UNCHANGED <<row, replicas, revoked, locks, job, answer, bounds, history>>

\* The first audit event takes the head of the chain.
LockChain(h) ==
  /\ pc[h] = "chain"
  /\ chainLock = NoHandler
  /\ chainLock' = h
  /\ Goto(h, IF job[h].kind = "quarantine" THEN "contain" ELSE "commit")
  /\ UNCHANGED <<stores, rowLock, job, answer, bounds, history>>

\* The deployment is scaled to zero, or Kubernetes fails before or after.
\* Either way the second audit event says so and the transaction goes on.
Contain(h) ==
  /\ pc[h] = "contain"
  /\ replicas' \in {0, replicas}
  /\ Goto(h, "commit")
  /\ UNCHANGED <<row, cache, revoked, locks, job, answer, bounds, history>>

\* A command through Redis that nothing overlapped, also no filling of the key.
Settled(h) ==
  IF h \in alone /\ job[h].kind # "patch" /\ \A k \in Handlers : pc[k] # "fill"
  THEN job[h].target ELSE "none"

\* Mutant: a failed containment rolls the revocation back.
CommitIfContained(h) ==
  /\ pc[h] = "commit"
  /\ Leave(h)
  /\ row' = IF job[h].dirty /\ (job[h].kind = "quarantine" => replicas = 0)
            THEN job[h].target ELSE row
  /\ revoked' = IF job[h].kind = "quarantine" THEN revoked + 1 ELSE revoked
  /\ settled' = Settled(h)
  /\ done' = (done \/ job[h].kind = "quarantine")
  /\ UNCHANGED <<cache, replicas, answer, bounds, alone>>

\* db.commit(): status, events and answer of the command.
Commit(h) ==
  /\ pc[h] = "commit"
  /\ Leave(h)
  /\ row' = IF job[h].dirty THEN job[h].target ELSE row
  /\ revoked' = IF job[h].kind = "quarantine" THEN revoked + 1 ELSE revoked
  /\ settled' = Settled(h)
  /\ done' = (done \/ job[h].kind = "quarantine")
  /\ UNCHANGED <<cache, replicas, answer, bounds, alone>>

\* Mutant: a failing handler leaves its transaction open.
CrashKeepsLocks(h) ==
  /\ pc[h] # "idle"
  /\ Goto(h, "idle")
  /\ job' = [job EXCEPT ![h] = NoJob]
  /\ UNCHANGED <<stores, locks, answer, bounds, history>>

\* The process dies, a database statement or the write to Redis fails: the
\* transaction is rolled back, the key and the deployment stay as they are.
Crash(h) ==
  /\ pc[h] # "idle"
  /\ Leave(h)
  /\ UNCHANGED <<stores, answer, bounds, history>>

-----------------------------------------------------------------------------
(* get_agent_status                                                        *)

StartRead(h) ==
  /\ pc[h] = "idle"
  /\ Goto(h, "get")
  /\ job' = [job EXCEPT ![h] = [NoJob EXCEPT !.kind = "read"]]
  /\ answer' = [answer EXCEPT ![h] = "none"]
  /\ UNCHANGED <<stores, locks, bounds, history>>

\* The key decides; without Redis the agent counts as REVOKED.
ReadCache(h) ==
  /\ pc[h] = "get"
  /\ \E s \in {cache, "REVOKED"} :
       /\ s # "none"
       /\ answer' = [answer EXCEPT ![h] = s]
  /\ Leave(h)
  /\ UNCHANGED <<stores, bounds, history>>

\* There is no key: the row is read.
MissCache(h) ==
  /\ pc[h] = "get"
  /\ cache = "none"
  /\ job' = [job EXCEPT ![h].seen = row]
  /\ Goto(h, "fill")
  /\ UNCHANGED <<stores, locks, answer, bounds, history>>

\* What was read is written to Redis, whatever the key says by now.
FillCache(h) ==
  /\ pc[h] = "fill"
  /\ cache' = job[h].seen
  /\ answer' = [answer EXCEPT ![h] = job[h].seen]
  /\ Leave(h)
  /\ alone' = {k \in alone : pc[k] \in {"select", "flush", "cache"}}
  /\ UNCHANGED <<row, replicas, revoked, bounds, settled, done>>

\* Redis restarts without a volume.
LoseCache ==
  /\ losses < MaxLosses
  /\ cache # "none"
  /\ losses' = losses + 1
  /\ cache' = "none"
  /\ UNCHANGED <<row, replicas, revoked, locks, pc, job, answer, given, history>>

-----------------------------------------------------------------------------
Progress(h) ==
  \/ SelectAgent(h) \/ FlushStatus(h) \/ WriteCache(h) \/ LockChain(h) \/ Contain(h) \/ Commit(h)
  \/ ReadCache(h) \/ MissCache(h) \/ FillCache(h)

Next ==
  \/ \E h \in Handlers : StartCommand(h) \/ StartRead(h) \/ Progress(h) \/ Crash(h)
  \/ LoseCache

Spec == Init /\ [][Next]_vars

\* A handler that runs goes on, and a lock that keeps being released is
\* granted to every waiter in the end (PostgreSQL queues them).
FairSpec == Spec /\ \A h \in Handlers : SF_vars(Progress(h))

-----------------------------------------------------------------------------
(* Properties                                                              *)

(* A revocation or a restoration that no other command overlapped, and     *)
(* behind whose back no request filled the key with what it had read       *)
(* before, holds: whether Kubernetes failed or not, and whatever Redis     *)
(* forgets afterwards, row and key agree on it until another command is    *)
(* given (README.md:19, and :119 without the races RevocationBlocks finds).*)
SettledCommandHolds ==
  settled # "none" => row = settled /\ cache \in {"none", settled}

(* Commands that hold the row lock wait for the chain head and never the   *)
(* other way round, and Kubernetes calls end: every handler finishes.      *)
HandlerFinishes == \A h \in Handlers : pc[h] # "idle" ~> pc[h] = "idle"

-----------------------------------------------------------------------------
(* README.md:119: the status is updated, "immediately blocking all future  *)
(* authorizations": once a revocation has answered and no other command    *)
(* was given, the key never says ACTIVE again.                             *)
RevocationBlocks == done => cache # "ACTIVE"
=============================================================================

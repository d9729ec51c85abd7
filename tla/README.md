# AgentGuard in TLA+

AgentGuard (`src/`) authorises the payments of financial AI agents. A FastAPI
backend (`src/backend/app`, two replicas over one PostgreSQL and one Redis)
decides each request by kill switches, OPA policy, an approval threshold and
budgets, writes every decision into a hash chain, and hands out single-use
execution authorizations. A React console (`src/frontend`) shows its state to
operators and sends their commands; Kubernetes runs the agents.

This directory holds the models of that system, their TLC configurations and
the proofs. `PROJECT.json` maps every definition to the lines it models.

    cd tla
    tlc -workers 2 -config Authorization.cfg MCAuthorization
    tlapm AuthorizationProofs.tla

## 1. Inventory

Paths are relative to `src/backend/app` unless they start with `src/`.

| Component | State | Operations | What is hard |
|---|---|---|---|
| Decision pipeline `services/authorization.py`, `routers/authorize.py` | `audit_events` (decisions, unique per request id), `execution_authorizations`, `approval_requests` | `evaluate_request`, `_deny` | Concurrent copies of one request; Redis deducted and the transaction lost; gates read long before the commit |
| Approval workflow `routers/approvals.py`, `services/approval.py` | `approval_requests` | approve, deny, expire | Row lock given back by a commit in a callee; denial against a unique index; 15-minute expiry |
| Execution gate `routers/execution.py` | `execution_authorizations`, `AUTHORIZATION_CONSUMED` events | verify, consume, expire | Two gateways at once; expiry while waiting for the lock |
| Audit chain writer `services/audit.py` | `audit_events`, `audit_chain_head` | `create_audit_event` | The head row lock held up to the commit; the race for GENESIS; rollback and crash |
| Audit verification `services/audit.py`, `routers/audit.py` | none | `verify_chain` | Two statements under READ COMMITTED; rows outside the chain; rounding |
| Agent status `services/agent_state.py`, `routers/agents.py` | `agents.status`, its Redis key | read-through, revoke, restore, PATCH | Stale fill of the key; Redis written before the commit |
| Quarantine `services/quarantine.py` | the deployment's replicas, two events | revoke and contain | A remote call inside a transaction that holds two locks |
| Fleet switch `routers/fleet.py` | one Redis key, no row; its events | stop, resume | Key lost with Redis; key set before the event is recorded |
| Budgets `redis_client.py`, `services/budget.py`, `routers/budgets.py` | `budgets` rows, Redis counters | reserve (Lua), check, create, PATCH | All-or-nothing over several keys; missing keys; minor units |
| Policy `src/policies/authz.rego`, `services/policy.py`, `services/permission.py` | `agent_permissions` | decide, threshold, create, delete | Null against undefined; two queries around a call of OPA |
| Policy store `routers/policies.py` | `policies`, `policy_versions` | create, update | `max + 1` under concurrency |
| Agent runtime and gateway `agent/` | one run per request | authorize, verify, execute | Calls given up that are executed later |
| Console: shared `api/client.ts`, `App.tsx` | requests under way | send, give up after 10 s | Answers in any order; a command outlives the page |
| Console: `Emergency.tsx` | banner, lock of the controls | poll, stop, resume | Late polls; a command left over from an earlier visit |
| Console: `Approvals.tsx` | list, filter, dialog, toast | poll, approve, deny | An outcome read from words of an error message |
| Console: `Agents.tsx` | roster, dialog, report | fetch, quarantine, restore | No polling; half a quarantine |
| Console: `FleetOverview.tsx`, `StaleIndicator.tsx` | resources, health, time of success | fetch all, refresh | Old and new fetch functions at once |
| Console: `Audit.tsx` | filter, page of events, verification | filter, turn pages, verify | Answers for an earlier filter |
| Console: `Simulator.tsx` | request id, last result | dry run, submit | A retry under the same request id |
| Console: `Policies.tsx` | list, selection | fetch, select | |
| Analytics, authentication, seed, manifests | none that changes | | |

How they interact. `authorize`, `approve` and `deny` call `evaluate_request`
in the caller's database session; it reads the gates through `agent_state`,
asks OPA, runs the Lua script in Redis and writes decision, authorization or
approval request together with a chained event, in one transaction that it
commits itself. `verify` consumes an authorization in a transaction of its own.
Everything that writes an event takes the row lock of the chain head up to its
commit. Revocation also calls Kubernetes inside that transaction. A run of an
agent is an HTTP client of `authorize` and `verify`. A page of the console is one
of the endpoints it shows and of the commands it sends; the pages share nothing
but the client, and one of them is mounted at a time.

What makes each component correct:

- pipeline: what was answered is what is recorded; closed gates block; above
  the threshold an operator decides; no budget is overspent;
- approvals: one approval, one authorization; nothing behind an outcome;
- execution gate: consumed at most once and never late;
- chain: one gap-free chain that grows only at its tip;
- verification: no false alarms, no missed change;
- agent status: a revocation holds; row and key agree;
- policy: what gets past it one enabled permission grants;
- policy store: versions without a gap;
- runtime: what a run reports agrees with what the server recorded; every run
  ends;
- console: one command at a time; what a page says of the server was so, is so,
  or will be so once it is left to its polls;
- all handlers: no deadlock, no lock left behind.

`PROJECT.json` lists under `hazards` where each of these bites.

## 2. Modules

| Module | Models | Composes |
|---|---|---|
| `AuditChain` | `create_audit_event` in the transactions of concurrent handlers | |
| `AuditVerify` | `verify_chain` beside them | `AuditChain` |
| `AuditTamper` | one change to the table behind the code's back | `AuditVerify` |
| `DecisionLedger` | abstract: entries decided once, used at most once | |
| `Authorization` | authorize, approve, deny, verify over PostgreSQL and Redis | implements `DecisionLedger` |
| `BudgetReserve` | budget rows, Redis keys, the Lua script, `check_budgets` | |
| `AgentStatus` | status row, Redis key, deployment | |
| `AuthzPolicy` | `authz.rego`, permissions, the two queries of an evaluation | |
| `AgentRuntime` | runs of agents and their two calls | `DecisionLedger` as the server |
| `AgentInvocation` | runs whose requests the policy decides | `AgentRuntime`, `AuthzPolicy` |
| `ApiClient` | requests under way, the client's errors, leaving a page | |
| `EmergencyPage`, `ApprovalsPage`, `AgentsPage`, `OverviewPage`, `AuditPage`, `SimulatorPage`, `PoliciesPage` | one page each, with the endpoints behind it | `ApiClient` |
| `Console` | `App.tsx`: the operator moves between the pages | the seven pages |
| `AuditProofs`, `AuthorizationProofs`, `BudgetReserveProofs`, `AgentStatusProofs`, `InvocationProofs`, `ViewProofs`, `PageProofs`, `ConsoleProofs` | theorems | what they are named for; `ViewProofs` has the lemmas about requests under way and three pages, `PageProofs` the other four |
| `MC...` | instances for TLC | |

### AuditChain, AuditVerify, AuditTamper

A hash is the sequence of the contents it was computed over, which is SHA-256
taken as injective. `events` and `head` are the committed rows; `tx[w]` is what
the transaction of handler `w` sees and has flushed. `LockHead` is the
`SELECT ... FOR UPDATE` of audit.py:66; `MissHead`, `InsertHead` and
`HeadConflict` are its miss and the insert of the GENESIS row, which the primary
key decides. `Stored` says what the columns give back of a content:
`Numeric(18, 2)` may not return the amount as it was hashed. `InsertUnchained`
is the event of the budget endpoints, which bypasses the chain.

`verify_chain` is two actions, because it is two statements with two
snapshots: `ReadEvents` (audit.py:143) and `ReadHead` (audit.py:192).
`AuditTamper` deletes, edits, inserts or swaps rows once; it models no code, but
the docstring of `verify_chain` promises to notice it. A deletion leaves
`MinLeft` = 1 row at least: an empty table is answered "valid" by audit.py:144
without a look at the head. An insertion at the very end is left out, since
with hashes as contents it would equal the next genuine event.

### Authorization

One agent, its budgets, any number of handlers. An id `<<r, 1>>` is the agent's
request id, `<<r, n>>` the `reval_...` id of a re-evaluation; agents are assumed
not to send ids of that form. The unique index on decisions (models.py:79) is
`Recorded`. Every handler walks through the stages of `evaluate_request`, each
of them a separate action, since other handlers run between them: idempotency,
fleet gate, agent gate, policy, budget (one Lua script, hence one step, whose
answer may get lost), record and commit. `approve_request` first takes the row
lock (`ClaimToApprove`), evaluates, loses the lock to the commit in `Record`,
and writes APPROVED in a transaction of its own (`CloseApproval`). `verify` takes
the row of the authorization, checks it and consumes it. `Crash` ends a handler
between any two steps: PostgreSQL rolls back, Redis does not. `lapsed` is the
15 minutes of a row gone by. The policy answers anything (`PolicyDenies`,
`PolicyAllows`): what it does answer is `AuthzPolicy`. `simulate=true` writes
nothing and is modelled where its answer is shown, in `SimulatorPage`.

`DecisionLedger` is what all this promises, without handlers, locks or Redis: an
entry per id, decided once for one payload, used at most once if it was allowed,
expired or not. `Authorization` implements it: `RefinesLedger` maps the three
tables it writes, decisions, authorizations and consumptions, to one entry.

Every transaction here commits right behind its event, so the chain head's lock
lies inside one action; what happens inside is `AuditChain`.

The gates are open or closed as `evaluate_request` reads them: how the agent's
status gets there is `AgentStatus`, which is why `ClosedGateBlocks` starts from
a gate that reads closed.

### AgentStatus

The row of `agents`, its row lock, the chain head's lock, the Redis key and the
deployment. A command loads the row, flushes an UPDATE only when the status
changes (that is what SQLAlchemy does, so only then is the row locked), writes
Redis, takes the chain head, calls Kubernetes, which may fail before or after
its effect, and commits. PATCH does only the first two and commits. A reader
takes the key, or reads the row and fills the key in a later step. Redis may
lose its keys, and answers REVOKED when it cannot be reached.

### BudgetReserve

The single step `Reserve` of `Authorization` in detail. `FindBudget` and
`FindNoBudget` are the two queries for the rows, of which there may be several
per scope, since nothing makes them unique; `Consume`, `Exceed` and
`CheckBudgets` are the calls of Redis. The script creates missing keys from the
limits the request read earlier, budget by budget up to the first that does not
suffice. PATCH changes rows and leaves keys alone; `LoseKeys` is a Redis without
a volume. Amounts are written in fractions of a minor unit and `Minor` drops
them, as `int(Decimal * 100)` does. The history variables `granted`, `lost` and
`base` keep the books since a key was created; a lost key starts new ones, which
is all that renews a "daily" budget.

### AuthzPolicy

The rules are translated with Rego's two kinds of nothing: a key that is missing
is undefined, of which `not` holds, and `null` is a value, of which it does not.
`null` is smaller than every number and counts as nothing, so a permission whose
`max_amount`, `allowed_currencies` or `allowed_accounts` is NULL grants nothing
(permission.py:11 sends every key). `ReadPermissions` and `CheckThreshold` are
two queries, with the call of OPA between them, and permissions are created and
deleted around each. `Thresholds` is the `.first()` of permission.py:19: any row
of the action, enabled or not. `seen` and `stayed` are history: the contents
that were in the table during the evaluation, and the rows that were there all
the time.

### AgentRuntime, AgentInvocation

`run[i]` is where a run stands and what it has reported, `wire[i]` its call: a
path and, once the server is through, an answer. `GiveUp` is the timeout of five
seconds or a connection that fails; the call stays on the wire and may still be
executed. The server is `DecisionLedger`; a 500 (`Broken`) may come before the
commit (`FailCall`) or instead of the answer behind it. `Rounded` transfers have
more than two decimals: their authorization holds another amount than the
gateway sends, and is refused.

`AgentInvocation` puts `AuthzPolicy` between the call and the entry: the verdict
that is recorded is the one the rules gave (or DENY, from the gates before them
or the budgets behind them). An evaluation goes on when the run that waits for
it has given up, dies with its handler, and takes its turn with re-evaluations of
approved requests. The two gates are `Authorization`'s business: here they deny or
do not.

### ApiClient and the pages, Console

A page is its state hooks (the record `page`) and one action per handler,
effect, interval and answer. `calls` holds the requests under way with the
stage the server has reached; answers are heard in any order, and a call may be
given up while the server still works on it. Leaving a page forgets its hooks and
turns its calls into calls of nobody, which the server still executes
(`isMountedRef`); `Remount` comes back to them. Other operators' commands are
calls of nobody, too.

Each page module has the endpoints behind it, as far as the page can tell them
apart: `EmergencyPage` the key in Redis, the event recorded behind it and a
Redis that loses its key or is down; `ApprovalsPage` the rows of approvals with
the two commits of an approval; `AgentsPage` row and deployment with a
quarantine in two steps, its verification and its report; `OverviewPage`
resources in versions, read one after another by one fetch; `AuditPage` the log,
its filter and pages, and a verification; `SimulatorPage` decisions by request
id, with the unlocked idempotency check; `PoliciesPage` an update that reads the
highest version and inserts the next. The texts a page shows are modelled where
a property is about them: the banner of `Emergency`, the toast of `Approvals`,
the badge of `FleetOverview`, the report of `Agents`.

`Console` mounts one page at a time and models its part of the server in full
while the parts of the others rest. This is a sum and not a product, which is
sound because no two pages share state: the other pages' endpoints can do nothing
that the mounted page shows.

## 3. Runs

| Run | Instance | Shows |
|---|---|---|
| `audit_chain` | 3 handlers, 4 transactions of up to 2 events each, 1 row beside the chain | `TypeOK`, `ChainIntegrity`, `CommitsExtendTip`, `WriterFinishes` |
| `audit_verify` | 2 handlers, 2 transactions, 3 contents of which one is rounded, 1 budget row, 1 change | `HonestAlarmsAreExplained`, `TamperingIsReported` |
| `authorization` | 2 handlers, 1 request id, a small and a large payload, 3 attempts, 2 budgets, both gates | `TypeOK`, `AnswersMatchTheLog`, `AuthorizationsAreDecided`, `SingleUse`, `NoOverspend`, `HighValueNeedsOperator`, `ClosedGateBlocks`, `LateCallsAreRefused`, `ApprovedHasAuthorization`, `NoAttemptAfterOutcome`, and that it implements `DecisionLedger` (`RefinesLedger`) |
| `authorization_live` | 2 handlers, 2 attempts, 1 gate | `HandlerFinishes` |
| `agent_status` | 2 handlers, 2 commands, 2 losses of Redis | `SettledCommandHolds`, `HandlerFinishes` |
| `budget_reserve` | 2 handlers, fleet and 1 agent, limits 1 and 2, amounts of 1 and 2½ minor units; no other bound | `TypeOK`, `EveryGrantIsPaid` |
| `agent_invocation` | 1 run with a whole or a rounded amount, 2 rows, 5 contents of permissions, 3 contents seen by one evaluation, re-evaluations | `PolicyFollowsPermissions`, `ReportsAgreeWithLedger`, `ExecutionsAreGranted`, `RunsEnd` |
| `console` | every page; 2 requests under way, 1 approval, 1 agent, 1 policy with 2 revisions, 2 resources in 2 versions, 2 events on pages of 1, 2 request ids with 2 payloads | of all pages `ConsoleTypeOK`, `OneCommandAtATime`; `Emergency` `FleetKeyIsRecorded`, `FleetViewSettles`; `Approvals` `NoticesAreTrue`, `InboxSettles`; `Agents` `RosterIsExplained`, `ReportIsTrue`, `StoppedIsExplained`; `FleetOverview` `NeverGoesBack`, `DashboardSettles`; `Audit` `EventsAreExplained`; `Simulator` `SandboxResultIsRecorded`; `Policies` `VersionsAreConsecutive` |

Runs that end in a counterexample, each on one sentence of the repository:

| Run | Property | What happens |
|---|---|---|
| `authorization_approvals` | `OneAuthorizationPerApproval` | The commit inside `evaluate_request` frees the row lock while the row is PENDING; a second approval gets a second authorization |
| `authorization_denial` | `OperatorDenialTakesEffect` | The denial event reuses the request id of the PENDING_APPROVAL event; the unique index rejects it |
| `audit_verify_amount` | `UntamperedChainVerifies` | `100.0` is hashed as written and read back as `100.00` |
| `agent_status_race` | `RevocationBlocks` | A reader fills the key with the ACTIVE it read before the revocation |

The two other causes of an alarm of `verify_chain` on an untouched log are
disjuncts of `AlarmsAreExplained`: a budget row (permanent) and a commit between
its two statements (gone at the next verification).

**Bounds.** Two handlers are what a race needs; three are used for the chain,
where one holds the lock, one waits for it and one races for GENESIS. Two
contents tell an edit from the original, the third is the rounded one. Three
attempts let two approvals overlap behind the agent's own request; limits of 4
and 3 minor units against amounts of 1 and 2 let one budget run out before the
other. Two commands are one that leaves row and key apart and one that settles
them, and two losses empty the key before and after. Two rows let two
permissions grant in common what neither grants, one be exchanged for another
between the queries, and the threshold come from the wrong one; the five contents
hold a limit that is too small, one that is NULL, a wrong currency and account, a
disabled row and the one that grants above a threshold. Runs share nothing but
the permissions, so one run beside re-evaluations is enough (the theorem is for
any number). Two requests under way are a command beside a poll, or two polls
that overtake each other; two versions, events or revisions are an old and a new
one; one row is enough where a page treats rows alike. Handlers
are interchangeable, so the safety runs of `Authorization` and `BudgetReserve`
and the violation runs of `AgentStatus` use symmetry; the runs with liveness do not.
`CHECK_DEADLOCK FALSE` appears only with `AuditChain` and what extends it, whose
bound `MaxTx` lets it stop; the other models can always accept another request,
another command or another change of a permission.

**Fairness.** A handler thread that can run its next statement does so (weak
fairness), and a lock that is released again and again is given to every waiter
in the end, since PostgreSQL queues the waiters of a row (strong fairness of the
steps that wait). Arrivals, crashes, operators, time and losses are not fair. In
`AgentStatus` one strong fairness condition covers all steps of a handler.
`HandlerFinishes` and `WriterFinishes` then say that no circle of locks and no
lock of a vanished handler exists; statement timeouts, which the code does not
set, play no part.

In `AgentInvocation` only the timer of a run's call is fair (`RunTimer`): httpx is
called with `timeout=5.0`, so a run ends although no server ever answers, and
nothing is assumed of the server. In the console the interval fires, the oldest
request is served and heard, and React runs a due effect; clicks, failures and
other operators are not fair. The three properties that end in "settles" speak of
a console that is left to its polls: from some moment on nothing but polls and
their answers happens. That premise is part of the property and not of the
specification, and the runs before that moment are unrestricted.

Every property of a passing run has a mutant, a variant of one definition with
a comment that starts with "Mutant:", under which TLC finds it violated.

## 4. Proofs

| Module | Theorem | For all |
|---|---|---|
| `AuditProofs` | `TypeCorrect`, `CommittedLogIsOneChain`, `LogOnlyGrowsAtItsTip`, `HonestLogsRaiseNoFalseAlarm`, `TamperingIsDetected` | handlers, contents, storage functions, bounds, changes to the table |
| `BudgetReserveProofs` | `TypeCorrect`, `GrantsArePaid` | handlers, agents, limits, amounts, fractions |
| `AuthorizationProofs` | `TypeCorrect`, `ToldIsRecorded`, `IssuedByDecisions`, `ConsumedOnce`, `HighValueIsApproved`, `ClosedGatesHold`, `LateIsRefused`, `ApprovedIsAuthorized`, `NoAttemptBehindOutcome`, `BudgetsAreNotOverspent`, `HandlersDoNotDeadlock`, `DenialsChangeNothing`, `HandlersKeepTheLedger` | handlers, requests, payloads, amounts, limits, attempts |
| `AgentStatusProofs` | `SettledCommandsHold`, `CommandsDoNotDeadlock` | handlers, commands, losses of Redis |
| `ConsoleProofs`, over `PageProofs` and `ViewProofs` | `TheConsoleTypeIsInvariant`, `TheHandlersRunOneAtATime`, `TheFleetKeyIsRecorded`, `TheNoticesAreTrue`, `TheReportIsTrue`, `StoppedAgentsAreExplained`, `TheRosterIsExplained`, `TheEventsAreExplained`, `TheSandboxResultIsRecorded`, `TheVersionsAreConsecutive`, `TheDashboardNeverGoesBack` | rows, events, requests under way, versions |
| `InvocationProofs` | `ReportsAgree`, `PolicyIsFollowed`, `InvocationsAreRuns`, `InvocationsFollowThePolicy`, `InvocationsReportTheLedger`, `ExecutedIsGranted` | runs, transfers, rows, permissions, requests |

Every invariant and every action property that a run checks is stated by one of
these theorems. The only assumptions are the named ones on the constants; TLC
evaluates them in the runs. `TamperingIsDetected` needs `MinLeft > 0` as well: a
table that was emptied verifies (audit.py:144). `PayloadsAssumption` says that the
form of the simulator has something to ask for.

`ChainIntegrity` is not inductive: it says nothing of uncommitted rows. The
strengthening adds that only the owner of the head's lock has an open
transaction, that its view starts at the committed head, and that its rows
continue the committed chain to its own head. A commit then replaces one chain
by a longer one, and `CommitsExtendTip` follows from the same facts.

The verification rests on one observation: a hash is as long as its row's place
in the chain (`Sized`), so in an honest log two rows never claim the same place
and none claims a later one. `HonestLogsRaiseNoFalseAlarm` reads the rows in
order; by least counterexample the row at place `n` is the one whose hash has
length `n` (`ChainIsReadInOrder`), so a link can only break at a row without
hashes. For `TamperingIsDetected` every change leaves a scar (`Scarred`): a row
whose hash is not over its fields, two rows behind one predecessor, a row out of
its order, one whose predecessor is gone, or a head that no row carries. Handlers
only append behind the head, so a scar stays a scar, and the loop or the
comparison with the head finds it.

For `Authorization` the inductive invariant relates stages to rows: what each
stage implies for the verdict and the id of the job (`Phases`), that a handler
between claim and close owns its row lock, that the lock protects the status
that was checked, and that a decision to ALLOW and its authorization are one
step. Single use needs the lock of the authorization; that no attempt is
recorded behind an outcome needs that the row lock is still held when `Record`
writes the attempt, although it is given back by that same step.
`DenialsChangeNothing` shows, for every instance, what the run
`authorization_denial` shows on one: while the denial waits, the decision of the
same id has always been recorded.

`NoOverspend` is strengthened to `BudgetsCover`: what is left of a budget, what is
authorised, and what handlers have taken and neither recorded nor given back never
exceed the limit. A decision moves an amount from the second sum to the first; a
conflict or a crash only lets it go.

For `AgentStatus` the invariant ties every label to the locks and to what its
handler has read (`RowLocked`, `ChainLocked`, `AloneWorksOnTheRow`). After a command
that nothing overlapped, everybody who will still write the key has read the row
it left (`SettledIsSeen`).

For `BudgetReserve` the books balance only because a request knows every budget
that existed when it arrived (`DueIsFound`): rows are never removed, and each is
looked up before the script runs.

`HandlersKeepTheLedger` proves the refinement: initial states map to an empty
ledger, and every step of a handler maps to a decision, a use or an expiry of one
entry, or to none. It uses the inductive invariant of `Authorization`, since an
unlocked write could decide or use an entry twice.

For the console, `ViewProofs` has the lemmas about sequences of calls: what
sending, serving, hearing, giving up and abandoning do to the set of calls and
to the newest call of a kind. Each page then has an inductive invariant of its own.

- One command at a time (`OneAwaited`): exactly one call is awaited by a handler
  while the page says so, and none otherwise.
- Fleet switch (`FleetLedger`): without an excuse the key is what every
  unrecorded command has set it to and, when there is none, what the log says.
- Approvals (`CallIsTrue`, `Closed`): an answer under way is true of the rows, and
  stays so, because no closed row becomes pending again.
- Agents (`Contained`, `Explained`): a quarantine behind its verification has
  stopped the deployment, and a stopped deployment with an active row belongs to
  an excuse or to a quarantine before its commit.
- Registry (`RosterFresh`): an answered command waits to be heard and will fetch,
  or the newest fetch, once answered, was answered with the table, and so is what
  is shown when none is under way, unless the history variable says otherwise.
- Investigation (`ScreenIsCurrent`): the newest fetch asks for what the screen
  says, and every answer is what the server would answer now.
- Simulator (`ShownIsRecorded`, `ToldIsRecorded`): a decision shown, or told and not
  heard yet, is in the table, and none there is recorded over.
- Dashboard (`DashboardInv`): exactly while `isFetching`, one fetch is under way, and
  what it has seen lies between what is shown and what there is.
- Policies (`NumbersAreBounded`): a version number that was read is at most one
  above what is there, and the unique constraint (models.py:52) lets it in once.

`ConsoleInv` is the invariant of the mounted page and, for the others, that
their parts rest in a state in which they can be mounted.

For runs, `ReportsAgreeWithLedger` is strengthened to one predicate on a run, its
entry and its call (`RunHolds`): what an answer says was so, a verification that
has not been answered has not used its entry, and a run that ended left no call
behind that could change what it reported. Every step concerns one run
(`OneRunChanges`).

For the policy, `PolicyInv` follows a permission from the table (`TableSeen`) into
the answer of the query (`QuerySeen`), the verdict (`VerdictSeen`) and the
comparison with the threshold (`ThresholdSeen`); `RulesGrant` shows that the rules
of `authz.rego` and the direct reading `Grants` agree about an enabled permission.
`ExecutedIsGranted` composes the two: `GrantInv` says that the request under
evaluation is the transfer of the run it is evaluated for, even when the run has
given up, and that whatever the ledger allows was granted. `InvocationsAreRuns` shows
that the composition implements `AgentRuntime`.

`HandlersDoNotDeadlock` is what can be proved of `HandlerFinishes`: the holder of a
row lock is at a step that asks for no lock, so nobody waits behind a waiter. That
the lock is then released and granted rests on fairness and stays with TLC.

Only model-checked: the liveness properties (`WriterFinishes`, the two
`HandlerFinishes`, `RunsEnd`, and the three that end in "settles"), which are out of
the prover's reach, since it handles neither fairness conditions with ENABLED nor
well-founded arguments about them; and the four runs that end in a counterexample,
whose business is one behaviour and not all.

## 5. Divergences without a run

What the models show of the code, where the repository promises nothing that a
counterexample could refute, or where what it promises is of small weight:

- A repeated request that was denied or is pending is answered 409: the event
  has no authorization id, which `AuthorizeResponse` (authorize.py:26) does not
  take, and its `ValidationError` is a `ValueError` (authorize.py:42). `Replay` of
  `Authorization` and `AnswerFromLog` of `SimulatorPage` do so.
- PATCH of an agent's status leaves the key in Redis (agents.py:46): the gate
  goes by the old status until the key goes.
- The approval threshold is taken from the first row of the action, enabled or
  not (permission.py:15), and not from the permission that grants the request: an
  ALLOW may exceed the threshold of every permission that grants it, against the
  sense of `src/README.md:16`. `PolicyFollowsPermissions` states what does hold.
- A permission without a limit grants nothing, although `authz.rego:24` says
  "Check amount limit if present" and `src/backend/seed.py:59` creates such
  permissions; likewise one with NULL for currencies or accounts.
- The dashboard polls back to back and not every five seconds
  (`FleetOverview.tsx:76`): every success makes a new `fetchData`
  (`FleetOverview.tsx:70`), whose effect fetches at once. An interval of the old
  function can also show OFFLINE although a fetch has succeeded since.
- `Approvals.tsx:98` tells the operator "already been processed" of a denial
  that failed with a 500 and left the request PENDING.
- `Audit.tsx:366` says that no records match also after a fetch that failed, and
  on a page beyond the last one.
- A dry run shows the id of an authorization that was never issued
  (`Simulator.tsx:401`, against `Simulator.tsx:203`).
- `Emergency.tsx:238` calls a stop atomic and in-flight requests closed: the key
  is set before the event is recorded, and a request that has passed the gate
  goes on.
- An amount with more than two decimals is authorised, and its verification is
  refused (`Rounded`); a 500 without JSON raises out of the run
  (runtime.py:147); an approved PENDING request is executed by no run.

## 6. Not modelled

- The language model (any transfer or none), the wording of messages, layout and
  formatting, form fields other than the request id.
- Analytics: read-only sums, which `OverviewPage` reads as resources with
  versions.
- HTTP and JWT handling, roles, configuration, migrations, seed data, manifests:
  no state that changes. `onAuthFailure` (client.ts) is registered by nobody.
- The fallback of `verify` for authorizations without a row, which writes
  nothing: no decision to ALLOW lacks a row (`AuthorizationsAreDecided`).
- Currencies: a budget's key names none, so requests in different currencies
  draw on one number, in the code as in the model.
- The name mapping of deployments: two agents may map to one deployment, while
  the models give each its own.
- Events are ordered by sequence number where the code orders by timestamp.
- The text of a policy: nothing but OPA reads it.

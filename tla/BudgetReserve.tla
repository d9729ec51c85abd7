---------------------------- MODULE BudgetReserve ---------------------------
(***************************************************************************)
(* The budget check of evaluate_request in detail: the limits are rows in  *)
(* PostgreSQL that operators add and change, what is left of them is a key *)
(* per budget in Redis, which the Lua script creates on its first use and  *)
(* deducts from together with the other budget of the request or not at    *)
(* all. Authorization has the same check as one step on remaining[b].      *)
(***************************************************************************)
EXTENDS Integers

CONSTANTS
  Handlers,  \* request handlers that may run at the same time
  Agents,    \* agents: scope AGENT_DAILY, a budget each
  Fleet,     \* scope FLEET_DAILY
  Limits,    \* limit_amount of a row, in minor units
  Amounts,   \* amounts of requests, in fractions of a minor unit
  Fine,      \* fractions of a minor unit an amount may be written in
  None       \* no row, no key

ASSUME ScopesAssumption  == Fleet \notin Agents
ASSUME NumbersAssumption == Limits \subseteq Nat /\ Amounts \subseteq Nat /\ Fine \in Nat \ {0}
ASSUME NoneAssumption    == None \notin Nat

Budgets == {Fleet} \cup Agents

VARIABLES
  rows,    \* limits of the rows of each budget (nothing makes them unique)
  keys,    \* Redis: what is left of each budget
  pc,      \* what each handler does next
  job,     \* what each handler works on
  answer   \* last result of reserve_budgets per handler

\* History, since the key of a budget was created.
VARIABLES
  base,    \* limit it was created from
  granted, \* minor units of the requests it applies to that were told TRUE
  lost     \* minor units deducted for requests whose answer was lost

ledger == <<base, granted, lost>>
vars == <<rows, keys, pc, job, answer, ledger>>

NoRow == [b \in Budgets |-> None]
NoJob == [agent |-> Fleet, amount |-> 0, simulate |-> FALSE, due |-> {}, found |-> NoRow]

Jobs == [agent : Budgets, amount : Amounts \cup {0}, simulate : BOOLEAN,
         due : SUBSET Budgets, found : [Budgets -> Limits \cup {None}]]

\* int(Decimal(amount) * 100) drops what is below a minor unit.
Minor(m) == m \div Fine

-----------------------------------------------------------------------------
Init ==
  /\ rows = [b \in Budgets |-> {}]
  /\ keys = [b \in Budgets |-> None]
  /\ pc = [h \in Handlers |-> "idle"]
  /\ job = [h \in Handlers |-> NoJob]
  /\ answer = [h \in Handlers |-> "none"]
  /\ base = [b \in Budgets |-> 0]
  /\ granted = [b \in Budgets |-> 0]
  /\ lost = [b \in Budgets |-> 0]

Goto(h, label) == pc' = [pc EXCEPT ![h] = label]

Return(h, result) ==
  /\ Goto(h, "idle")
  /\ answer' = [answer EXCEPT ![h] = result]
  /\ job' = [job EXCEPT ![h] = NoJob]

\* f with the amount of h added for the budgets in S.
Book(f, h, S) == [b \in Budgets |-> IF b \in S THEN f[b] + Minor(job[h].amount) ELSE f[b]]

-----------------------------------------------------------------------------
(* Operators                                                               *)

CreateBudget(b, l) ==
  /\ rows' = [rows EXCEPT ![b] = @ \cup {l}]
  /\ UNCHANGED <<keys, pc, job, answer, ledger>>

\* The key, if there is one, stays as it is.
UpdateBudget(b, k, l) ==
  /\ k \in rows[b]
  /\ rows' = [rows EXCEPT ![b] = (@ \ {k}) \cup {l}]
  /\ UNCHANGED <<keys, pc, job, answer, ledger>>

-----------------------------------------------------------------------------
(* reserve_budgets                                                         *)

\* due: the budgets that exist when the request arrives.
StartReserve(h, a, m, simulate) ==
  /\ pc[h] = "idle"
  /\ Goto(h, "fleet")
  /\ answer' = [answer EXCEPT ![h] = "none"]
  /\ job' = [job EXCEPT ![h] = [agent |-> a, amount |-> m, simulate |-> simulate,
               due |-> {b \in {Fleet, a} : rows[b] # {}}, found |-> NoRow]]
  /\ UNCHANGED <<rows, keys, ledger>>

Scope(h) == IF pc[h] = "fleet" THEN Fleet ELSE job[h].agent

\* One statement per scope; first() takes any of several rows.
FindBudget(h, l) ==
  /\ pc[h] \in {"fleet", "agent"}
  /\ l \in rows[Scope(h)]
  /\ job' = [job EXCEPT ![h].found = [@ EXCEPT ![Scope(h)] = l]]
  /\ Goto(h, IF pc[h] = "fleet" THEN "agent" ELSE "redis")
  /\ UNCHANGED <<rows, keys, answer, ledger>>

Found(h) == {b \in Budgets : job[h].found[b] # None}

\* Mutant: without a row for the fleet there is nothing to reserve.
FindNoBudgetAndStop(h) ==
  /\ pc[h] \in {"fleet", "agent"}
  /\ rows[Scope(h)] = {}
  /\ IF Found(h) = {}
     THEN /\ Return(h, "TRUE")
          /\ granted' = IF job[h].simulate THEN granted ELSE Book(granted, h, job[h].due)
     ELSE Goto(h, "redis") /\ UNCHANGED <<job, answer, granted>>
  /\ UNCHANGED <<rows, keys, base, lost>>

\* No row: the scope is not restricted. No row at all: nothing is reserved.
FindNoBudget(h) ==
  /\ pc[h] \in {"fleet", "agent"}
  /\ rows[Scope(h)] = {}
  /\ IF pc[h] = "fleet" THEN Goto(h, "agent") /\ UNCHANGED <<job, answer, granted>>
     ELSE IF Found(h) # {} THEN Goto(h, "redis") /\ UNCHANGED <<job, answer, granted>>
     ELSE /\ Return(h, "TRUE")
          /\ granted' = IF job[h].simulate THEN granted ELSE Book(granted, h, job[h].due)
  /\ UNCHANGED <<rows, keys, base, lost>>

Left(h, b) == IF keys[b] = None THEN job[h].found[b] ELSE keys[b]
Enough(h, b) == Minor(job[h].amount) <= Left(h, b)

\* Keys that are missing are created from the limits that were read, up to
\* the first budget that does not suffice; the fleet comes first.
Visited(h) == IF Fleet \in Found(h) /\ ~Enough(h, Fleet) THEN {Fleet} ELSE Found(h)
Opened(h) == [b \in Budgets |-> IF b \in Visited(h) THEN Left(h, b) ELSE keys[b]]
OpenKeys(h) ==
  base' = [b \in Budgets |->
             IF b \in Visited(h) /\ keys[b] = None THEN job[h].found[b] ELSE base[b]]

\* Mutant: the second pass does not wait for the first one.
ConsumeUnchecked(h) ==
  /\ pc[h] = "redis" /\ ~job[h].simulate
  /\ OpenKeys(h)
  /\ keys' = [b \in Budgets |->
                IF b \in Visited(h) THEN Left(h, b) - Minor(job[h].amount) ELSE keys[b]]
  /\ Return(h, "TRUE")
  /\ granted' = Book(granted, h, Found(h) \cup job[h].due)
  /\ UNCHANGED <<rows, lost>>

\* The script deducts from every budget; its answer may get lost, which
\* reserve_budgets takes for a refusal.
Consume(h) ==
  /\ pc[h] = "redis" /\ ~job[h].simulate
  /\ \A b \in Found(h) : Enough(h, b)
  /\ OpenKeys(h)
  /\ keys' = [b \in Budgets |->
                IF b \in Found(h) THEN Left(h, b) - Minor(job[h].amount) ELSE keys[b]]
  /\ \/ /\ Return(h, "TRUE")
        /\ granted' = Book(granted, h, Found(h) \cup job[h].due)
        /\ UNCHANGED lost
     \/ /\ Return(h, "FALSE")
        /\ lost' = Book(lost, h, Found(h))
        /\ UNCHANGED granted
  /\ UNCHANGED rows

\* Some budget does not suffice: no key is deducted from.
Exceed(h) ==
  /\ pc[h] = "redis" /\ ~job[h].simulate
  /\ \E b \in Found(h) : ~Enough(h, b)
  /\ OpenKeys(h)
  /\ keys' = Opened(h)
  /\ Return(h, "FALSE")
  /\ UNCHANGED <<rows, granted, lost>>

\* check_budgets: one MGET, a missing key counts as its limit.
CheckBudgets(h) ==
  /\ pc[h] = "redis" /\ job[h].simulate
  /\ Return(h, IF \A b \in Found(h) : Enough(h, b) THEN "TRUE" ELSE "FALSE")
  /\ UNCHANGED <<rows, keys, ledger>>

\* A statement fails, Redis is not reached, or the process dies.
Fail(h) ==
  /\ pc[h] # "idle"
  /\ Return(h, "FALSE")
  /\ UNCHANGED <<rows, keys, ledger>>

\* Redis restarts without a volume.
LoseKeys ==
  /\ keys' = [b \in Budgets |-> None]
  /\ base' = [b \in Budgets |-> 0]
  /\ granted' = [b \in Budgets |-> 0]
  /\ lost' = [b \in Budgets |-> 0]
  /\ UNCHANGED <<rows, pc, job, answer>>

-----------------------------------------------------------------------------
Administer ==
  \E b \in Budgets, l \in Limits :
    CreateBudget(b, l) \/ \E k \in Limits : UpdateBudget(b, k, l)

Serve(h) ==
  \/ \E a \in Agents, m \in Amounts, s \in BOOLEAN : StartReserve(h, a, m, s)
  \/ \E l \in Limits : FindBudget(h, l)
  \/ FindNoBudget(h) \/ Consume(h) \/ Exceed(h) \/ CheckBudgets(h) \/ Fail(h)

Next == Administer \/ LoseKeys \/ \E h \in Handlers : Serve(h)

Spec == Init /\ [][Next]_vars

-----------------------------------------------------------------------------
(* Type invariant; in particular no key goes below zero.                   *)
TypeOK ==
  /\ rows \in [Budgets -> SUBSET Limits]
  /\ keys \in [Budgets -> Nat \cup {None}]
  /\ pc \in [Handlers -> {"idle", "fleet", "agent", "redis"}]
  /\ job \in [Handlers -> Jobs]
  /\ answer \in [Handlers -> {"none", "TRUE", "FALSE"}]
  /\ base \in [Budgets -> Nat] /\ granted \in [Budgets -> Nat] /\ lost \in [Budgets -> Nat]

(* Every request that was told TRUE has been paid for out of every budget  *)
(* that existed when it arrived, and nothing but these and the requests    *)
(* whose answer was lost has been: what was granted since a key was made   *)
(* and what is left of it add up to the limit it was made from, however    *)
(* requests interleave with each other, with operators and with refusals   *)
(* halfway through the script (README.md:108, "Atomic Budget Reservation").*)
EveryGrantIsPaid ==
  \A b \in Budgets :
    granted[b] + lost[b] = IF keys[b] = None THEN 0 ELSE base[b] - keys[b]
=============================================================================

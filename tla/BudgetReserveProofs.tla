------------------------ MODULE BudgetReserveProofs -------------------------
(***************************************************************************)
(* Proofs about BudgetReserve: for all handlers, agents, limits, amounts   *)
(* and fractions, the keys in Redis account for what was granted.          *)
(***************************************************************************)
EXTENDS BudgetReserve, TLAPS

\* A budget that existed when a request arrived still has a row, and the
\* request finds it when it gets to its scope.
DueIsFound ==
  \A h \in Handlers :
    /\ pc[h] = "idle" => job[h].due = {}
    /\ pc[h] # "idle" => job[h].agent \in Agents
    /\ job[h].due \subseteq {Fleet, job[h].agent}
    /\ \A b \in job[h].due : rows[b] # {}
    /\ pc[h] \in {"agent", "redis"} /\ Fleet \in job[h].due => job[h].found[Fleet] # None
    /\ pc[h] = "redis" /\ job[h].agent \in job[h].due => job[h].found[job[h].agent] # None

IInv == TypeOK /\ DueIsFound /\ EveryGrantIsPaid

-----------------------------------------------------------------------------
(* Arithmetic                                                              *)

LEMMA MinorIsNat ==
  ASSUME NEW m \in Nat
  PROVE  Minor(m) \in Nat
BY NumbersAssumption, SMT DEF Minor

\* The parts of a job.
LEMMA JobParts ==
  ASSUME TypeOK, NEW h \in Handlers
  PROVE  /\ job[h] \in Jobs
         /\ job[h].amount \in Nat
         /\ job[h].due \subseteq Budgets
         /\ job[h].found \in [Budgets -> Limits \cup {None}]
         /\ \A b \in Budgets : job[h].found[b] # None => job[h].found[b] \in Nat
<1>1. job[h] \in Jobs
  BY DEF TypeOK
<1>2. job[h].amount \in Amounts \cup {0} /\ job[h].due \subseteq Budgets
  BY <1>1 DEF Jobs
<1>3. job[h].found \in [Budgets -> Limits \cup {None}]
  BY <1>1 DEF Jobs
<1>4. \A b \in Budgets : job[h].found[b] # None => job[h].found[b] \in Nat
  BY <1>3, NumbersAssumption
<1>5. job[h].amount \in Nat
  <2>1. \A m \in Amounts \cup {0} : m \in Nat
    BY NumbersAssumption
  <2>2. QED
    BY <1>2, <2>1
<1>6. QED
  BY <1>1, <1>2, <1>3, <1>4, <1>5

\* What a handler asks for is a number of minor units.
LEMMA AmountIsNat ==
  ASSUME TypeOK, NEW h \in Handlers
  PROVE  Minor(job[h].amount) \in Nat
<1>1. job[h].amount \in Nat
  BY JobParts
<1>2. QED
  BY <1>1, MinorIsNat

\* Booking an amount keeps an account an account.
LEMMA BookIsNat ==
  ASSUME TypeOK, NEW h \in Handlers, NEW f \in [Budgets -> Nat], NEW S
  PROVE  Book(f, h, S) \in [Budgets -> Nat]
<1>1. Minor(job[h].amount) \in Nat
  BY AmountIsNat
<1>2. QED
  BY <1>1 DEF Book

\* What is left of a budget that was found is a number.
LEMMA LeftIsNat ==
  ASSUME TypeOK, NEW h \in Handlers, NEW b \in Found(h)
  PROVE  Left(h, b) \in Nat /\ b \in Budgets
<1>1. b \in Budgets /\ job[h].found[b] # None
  BY DEF Found
<1>2. job[h].found[b] \in Nat
  BY <1>1, JobParts
<1>3. keys[b] \in Nat \cup {None}
  BY <1>1 DEF TypeOK
<1>4. QED
  BY <1>1, <1>2, <1>3 DEF Left

\* Keys are created from limits that were found.
LEMMA OpenKeysIsNat ==
  ASSUME TypeOK, NEW h \in Handlers, OpenKeys(h)
  PROVE  base' \in [Budgets -> Nat]
<1>1. \A b \in Budgets : b \in Visited(h) => job[h].found[b] \in Nat
  <2>1. SUFFICES ASSUME NEW b \in Budgets, b \in Visited(h)
                 PROVE  job[h].found[b] \in Nat
    OBVIOUS
  <2>2. b \in Found(h)
    BY <2>1 DEF Visited
  <2>3. job[h].found[b] # None
    BY <2>2 DEF Found
  <2>4. QED
    BY <2>3, JobParts
<1>2. base \in [Budgets -> Nat]
  BY DEF TypeOK
<1>3. QED
  BY <1>1, <1>2 DEF OpenKeys

\* A request that has read its rows knows every budget that is due.
LEMMA DueAtRedis ==
  ASSUME TypeOK, DueIsFound, NEW h \in Handlers, pc[h] = "redis"
  PROVE  job[h].due \subseteq Found(h)
<1>1. SUFFICES ASSUME NEW b \in job[h].due
               PROVE  b \in Found(h)
  OBVIOUS
<1>2. b \in Budgets
  BY <1>1, JobParts
<1>3. b \in {Fleet, job[h].agent}
  BY DEF DueIsFound
<1>4. job[h].found[b] # None
  BY <1>1, <1>3 DEF DueIsFound
<1>5. QED
  BY <1>2, <1>4 DEF Found

-----------------------------------------------------------------------------
(* Steps                                                                   *)

\* A handler that returns leaves nothing due.
LEMMA ReturnKeepsDue ==
  ASSUME TypeOK, DueIsFound, NEW h \in Handlers, NEW result \in {"TRUE", "FALSE"},
         Return(h, result), UNCHANGED rows
  PROVE  /\ DueIsFound'
         /\ pc' \in [Handlers -> {"idle", "fleet", "agent", "redis"}]
         /\ job' \in [Handlers -> Jobs]
         /\ answer' \in [Handlers -> {"none", "TRUE", "FALSE"}]
<1>1. NoJob \in Jobs
  BY DEF NoJob, NoRow, Budgets, Jobs
<1>2. DueIsFound'
  <2>1. SUFFICES ASSUME NEW k \in Handlers
                 PROVE  /\ pc'[k] = "idle" => job'[k].due = {}
                        /\ pc'[k] # "idle" => job'[k].agent \in Agents
                        /\ job'[k].due \subseteq {Fleet, job'[k].agent}
                        /\ \A b \in job'[k].due : rows'[b] # {}
                        /\ pc'[k] \in {"agent", "redis"} /\ Fleet \in job'[k].due =>
                             job'[k].found[Fleet] # None
                        /\ pc'[k] = "redis" /\ job'[k].agent \in job'[k].due =>
                             job'[k].found[job'[k].agent] # None
    BY DEF DueIsFound
  <2>2. CASE k = h
    <3>1. pc'[k] = "idle" /\ job'[k] = NoJob
      BY <2>2 DEF Return, Goto, TypeOK
    <3>2. QED
      BY <3>1 DEF NoJob
  <2>3. CASE k # h
    <3>1. pc'[k] = pc[k] /\ job'[k] = job[k]
      BY <2>3 DEF Return, Goto, TypeOK
    <3>2. QED
      BY <3>1 DEF DueIsFound
  <2>4. QED
    BY <2>2, <2>3
<1>3. QED
  BY <1>1, <1>2 DEF Return, Goto, TypeOK

\* A handler that goes on keeps its due budgets in view.
LEMMA MoveKeepsDue ==
  ASSUME TypeOK, DueIsFound, NEW h \in Handlers, NEW label \in {"agent", "redis"},
         pc[h] # "idle", Goto(h, label), UNCHANGED <<rows, answer>>,
         NEW f \in [Budgets -> Limits \cup {None}],
         job' = [job EXCEPT ![h].found = f],
         Fleet \in job[h].due => f[Fleet] # None,
         label = "redis" /\ job[h].agent \in job[h].due => f[job[h].agent] # None
  PROVE  /\ DueIsFound'
         /\ pc' \in [Handlers -> {"idle", "fleet", "agent", "redis"}]
         /\ job' \in [Handlers -> Jobs]
         /\ answer' \in [Handlers -> {"none", "TRUE", "FALSE"}]
<1>1. /\ pc'[h] = label
      /\ job'[h] = [job[h] EXCEPT !.found = f]
      /\ \A k \in Handlers \ {h} : pc'[k] = pc[k] /\ job'[k] = job[k]
  BY DEF Goto, TypeOK
<1>2. DueIsFound'
  <2>1. SUFFICES ASSUME NEW k \in Handlers
                 PROVE  /\ pc'[k] = "idle" => job'[k].due = {}
                        /\ pc'[k] # "idle" => job'[k].agent \in Agents
                        /\ job'[k].due \subseteq {Fleet, job'[k].agent}
                        /\ \A b \in job'[k].due : rows'[b] # {}
                        /\ pc'[k] \in {"agent", "redis"} /\ Fleet \in job'[k].due =>
                             job'[k].found[Fleet] # None
                        /\ pc'[k] = "redis" /\ job'[k].agent \in job'[k].due =>
                             job'[k].found[job'[k].agent] # None
    BY DEF DueIsFound
  <2>2. CASE k = h
    <3>1. job'[k].due = job[h].due /\ job'[k].agent = job[h].agent /\ job'[k].found = f
      BY <1>1, <2>2 DEF TypeOK
    <3>2. QED
      BY <1>1, <2>2, <3>1 DEF DueIsFound
  <2>3. CASE k # h
    BY <1>1, <2>3 DEF DueIsFound
  <2>4. QED
    BY <2>2, <2>3
<1>3. [job[h] EXCEPT !.found = f] \in Jobs
  BY JobParts DEF Jobs
<1>4. job' \in [Handlers -> Jobs]
  BY <1>3 DEF TypeOK
<1>5. QED
  BY <1>2, <1>4 DEF Goto, TypeOK

\* Rows are added and changed, never removed.
LEMMA AdministerKeeps ==
  ASSUME IInv, Administer
  PROVE  IInv'
<1>1. PICK b \in Budgets, l \in Limits :
        CreateBudget(b, l) \/ \E k \in Limits : UpdateBudget(b, k, l)
  BY DEF Administer
<1>2. PICK S \in SUBSET Limits :
        /\ l \in S
        /\ rows' = [rows EXCEPT ![b] = S]
        /\ UNCHANGED <<keys, pc, job, answer, ledger>>
  <2>1. rows[b] \in SUBSET Limits
    BY DEF IInv, TypeOK
  <2>2. CASE CreateBudget(b, l)
    <3>1. rows[b] \cup {l} \in SUBSET Limits
      BY <2>1
    <3>2. QED
      BY <2>2, <3>1 DEF CreateBudget
  <2>3. CASE \E k \in Limits : UpdateBudget(b, k, l)
    <3>1. PICK k \in Limits : UpdateBudget(b, k, l)
      BY <2>3
    <3>2. (rows[b] \ {k}) \cup {l} \in SUBSET Limits
      BY <2>1
    <3>3. QED
      BY <3>1, <3>2 DEF UpdateBudget
  <2>4. QED
    BY <1>1, <2>2, <2>3
<1>3. TypeOK'
  BY <1>2 DEF IInv, TypeOK, ledger
<1>4. \A c \in Budgets : rows[c] # {} => rows'[c] # {}
  BY <1>2 DEF IInv, TypeOK
<1>5. DueIsFound'
  <2>1. \A h \in Handlers : job[h].due \subseteq Budgets
    BY JobParts DEF IInv
  <2>2. QED
    BY <1>2, <1>4, <2>1 DEF IInv, DueIsFound
<1>6. EveryGrantIsPaid'
  BY <1>2 DEF IInv, EveryGrantIsPaid, ledger
<1>7. QED
  BY <1>3, <1>5, <1>6 DEF IInv

\* A request arrives: only what is due is new.
LEMMA StartKeeps ==
  ASSUME IInv, NEW h \in Handlers, NEW a \in Agents, NEW m \in Amounts, NEW s \in BOOLEAN,
         StartReserve(h, a, m, s)
  PROVE  IInv'
<1> DEFINE new == [agent |-> a, amount |-> m, simulate |-> s,
                   due |-> {b \in {Fleet, a} : rows[b] # {}}, found |-> NoRow]
<1>1. /\ pc' = [pc EXCEPT ![h] = "fleet"]
      /\ job' = [job EXCEPT ![h] = new]
      /\ answer' = [answer EXCEPT ![h] = "none"]
      /\ UNCHANGED <<rows, keys, ledger>>
  BY DEF StartReserve, Goto
<1>2. new \in Jobs
  <2>1. {b \in {Fleet, a} : rows[b] # {}} \subseteq Budgets
    BY DEF Budgets
  <2>2. NoRow \in [Budgets -> Limits \cup {None}] /\ a \in Budgets
    BY DEF NoRow, Budgets
  <2>3. QED
    BY <2>1, <2>2 DEF Jobs
<1>3. TypeOK'
  <2> HIDE DEF new
  <2>1. QED
    BY <1>1, <1>2 DEF IInv, TypeOK, ledger
<1>4. DueIsFound'
  <2>1. /\ pc'[h] = "fleet" /\ job'[h] = new
        /\ \A k \in Handlers \ {h} : pc'[k] = pc[k] /\ job'[k] = job[k]
    <3> HIDE DEF new
    <3>1. QED
      BY <1>1 DEF IInv, TypeOK
  <2>2. QED
    BY <1>1, <2>1 DEF IInv, DueIsFound
<1>5. EveryGrantIsPaid'
  BY <1>1 DEF IInv, EveryGrantIsPaid, ledger
<1>6. QED
  BY <1>3, <1>4, <1>5 DEF IInv

\* A row is found for the scope that is looked up.
LEMMA FindKeeps ==
  ASSUME IInv, NEW h \in Handlers, NEW l \in Limits, FindBudget(h, l)
  PROVE  IInv'
<1> DEFINE f == [job[h].found EXCEPT ![Scope(h)] = l]
           label == IF pc[h] = "fleet" THEN "agent" ELSE "redis"
<1>1. /\ pc[h] \in {"fleet", "agent"} /\ Goto(h, label)
      /\ UNCHANGED <<rows, keys, answer, ledger>>
  BY DEF FindBudget
<1>2. job' = [job EXCEPT ![h].found = f]
  BY DEF FindBudget
<1>3. job[h].found \in [Budgets -> Limits \cup {None}] /\ job[h].agent \in Agents
  BY <1>1, JobParts DEF IInv, DueIsFound
<1>4. f \in [Budgets -> Limits \cup {None}]
  BY <1>3
<1>5. l # None /\ Fleet \in Budgets /\ job[h].agent \in Budgets /\ job[h].agent # Fleet
  BY <1>3, NumbersAssumption, NoneAssumption, ScopesAssumption DEF Budgets
<1>6. f[Scope(h)] = l /\ \A b \in Budgets : b # Scope(h) => f[b] = job[h].found[b]
  BY <1>3, <1>5 DEF Scope
<1>7. Fleet \in job[h].due => f[Fleet] # None
  BY <1>1, <1>5, <1>6 DEF IInv, DueIsFound, Scope
<1>8. label = "redis" => f[job[h].agent] # None
  BY <1>1, <1>5, <1>6 DEF Scope
<1>9. /\ DueIsFound'
      /\ pc' \in [Handlers -> {"idle", "fleet", "agent", "redis"}]
      /\ job' \in [Handlers -> Jobs]
      /\ answer' \in [Handlers -> {"none", "TRUE", "FALSE"}]
  <2>1. label \in {"agent", "redis"} /\ pc[h] # "idle"
    BY <1>1
  <2>2. TypeOK /\ DueIsFound
    BY DEF IInv
  <2> HIDE DEF f, label
  <2>3. QED
    BY <1>1, <1>2, <1>4, <1>7, <1>8, <2>1, <2>2, MoveKeepsDue
<1>10. TypeOK' /\ EveryGrantIsPaid'
  BY <1>1, <1>9 DEF IInv, TypeOK, EveryGrantIsPaid, ledger
<1>11. QED
  BY <1>9, <1>10 DEF IInv

\* No row is found: nothing was due, or the request goes on with what it has.
LEMMA FindNoneKeeps ==
  ASSUME IInv, NEW h \in Handlers, FindNoBudget(h)
  PROVE  IInv'
<1>1. /\ pc[h] \in {"fleet", "agent"} /\ rows[Scope(h)] = {}
      /\ UNCHANGED <<rows, keys, base, lost>>
  BY DEF FindNoBudget
<1>2. Scope(h) \notin job[h].due
  BY <1>1 DEF IInv, DueIsFound
<1>3. CASE pc[h] = "agent" /\ Found(h) = {}
  <2>1. job[h].due = {}
    <3>1. SUFFICES ASSUME NEW b \in job[h].due
                   PROVE  FALSE
      OBVIOUS
    <3>2. b \in Budgets /\ b \in {Fleet, job[h].agent}
      BY <3>1, JobParts DEF IInv, DueIsFound
    <3>3. b = Fleet
      BY <1>2, <1>3, <3>1, <3>2 DEF Scope
    <3>4. job[h].found[Fleet] # None
      BY <1>3, <3>1, <3>3 DEF IInv, DueIsFound
    <3>5. QED
      BY <1>3, <3>2, <3>3, <3>4 DEF Found
  <2>2. Return(h, "TRUE")
    BY <1>3 DEF FindNoBudget
  <2>3. granted' = granted
    <3>1. Book(granted, h, {}) = granted
      BY DEF Book, IInv, TypeOK
    <3>2. QED
      BY <1>3, <2>1, <3>1 DEF FindNoBudget
  <2>4. /\ DueIsFound'
        /\ pc' \in [Handlers -> {"idle", "fleet", "agent", "redis"}]
        /\ job' \in [Handlers -> Jobs]
        /\ answer' \in [Handlers -> {"none", "TRUE", "FALSE"}]
    BY <1>1, <2>2, ReturnKeepsDue DEF IInv
  <2>5. QED
    BY <1>1, <2>3, <2>4 DEF IInv, TypeOK, EveryGrantIsPaid
<1>4. CASE ~(pc[h] = "agent" /\ Found(h) = {})
  <2> DEFINE label == IF pc[h] = "fleet" THEN "agent" ELSE "redis"
  <2>1. Goto(h, label) /\ UNCHANGED <<job, answer, granted>>
    BY <1>1, <1>4 DEF FindNoBudget
  <2>2. job' = [job EXCEPT ![h].found = job[h].found]
    <3>1. [job[h] EXCEPT !.found = job[h].found] = job[h]
      BY JobParts DEF IInv, Jobs
    <3>2. QED
      BY <2>1, <3>1 DEF IInv, TypeOK
  <2>3. Fleet \in job[h].due => job[h].found[Fleet] # None
    BY <1>1, <1>2 DEF IInv, DueIsFound, Scope
  <2>4. label = "redis" => job[h].agent \notin job[h].due
    BY <1>1, <1>2 DEF Scope
  <2>5. job[h].found \in [Budgets -> Limits \cup {None}]
    BY JobParts DEF IInv
  <2>6. label \in {"agent", "redis"} /\ pc[h] # "idle"
    BY <1>1
  <2>7. TypeOK /\ DueIsFound
    BY DEF IInv
  <2>8. /\ DueIsFound'
        /\ pc' \in [Handlers -> {"idle", "fleet", "agent", "redis"}]
        /\ job' \in [Handlers -> Jobs]
        /\ answer' \in [Handlers -> {"none", "TRUE", "FALSE"}]
    <3> HIDE DEF label
    <3>1. QED
      BY <1>1, <2>1, <2>2, <2>3, <2>4, <2>5, <2>6, <2>7, MoveKeepsDue
  <2>9. QED
    BY <1>1, <2>1, <2>8 DEF IInv, TypeOK, EveryGrantIsPaid
<1>5. QED
  BY <1>3, <1>4

\* The script deducts from every budget found, and either grants the request
\* or loses its answer.
LEMMA ConsumeKeeps ==
  ASSUME IInv, NEW h \in Handlers, Consume(h)
  PROVE  IInv'
<1> DEFINE a == Minor(job[h].amount)
<1>1. /\ pc[h] = "redis" /\ OpenKeys(h) /\ UNCHANGED rows
      /\ \A b \in Found(h) : Enough(h, b)
      /\ keys' = [b \in Budgets |-> IF b \in Found(h) THEN Left(h, b) - a ELSE keys[b]]
  BY DEF Consume
<1>2. a \in Nat
  BY AmountIsNat DEF IInv
<1>3. \A b \in Found(h) : Left(h, b) \in Nat /\ a <= Left(h, b) /\ b \in Budgets
  BY <1>1, LeftIsNat DEF IInv, Enough
<1>4. Found(h) \cup job[h].due = Found(h)
  BY <1>1, DueAtRedis DEF IInv
<1>5. Visited(h) = Found(h)
  BY <1>1 DEF Visited
<1>6. PICK result \in {"TRUE", "FALSE"} :
        /\ Return(h, result)
        /\ \/ granted' = Book(granted, h, Found(h)) /\ lost' = lost
           \/ granted' = granted /\ lost' = Book(lost, h, Found(h))
  BY <1>4 DEF Consume
<1>7. granted' \in [Budgets -> Nat] /\ lost' \in [Budgets -> Nat]
  BY <1>6, BookIsNat DEF IInv, TypeOK
<1>8. base' \in [Budgets -> Nat]
  BY <1>1, OpenKeysIsNat DEF IInv
<1>9. keys' \in [Budgets -> Nat \cup {None}]
  <2>1. \A b \in Found(h) : Left(h, b) - a \in Nat
    BY <1>2, <1>3
  <2>2. keys \in [Budgets -> Nat \cup {None}]
    BY DEF IInv, TypeOK
  <2> HIDE DEF a
  <2>3. QED
    BY <1>1, <2>1, <2>2
<1>10. /\ DueIsFound'
       /\ pc' \in [Handlers -> {"idle", "fleet", "agent", "redis"}]
       /\ job' \in [Handlers -> Jobs]
       /\ answer' \in [Handlers -> {"none", "TRUE", "FALSE"}]
  BY <1>1, <1>6, ReturnKeepsDue DEF IInv
<1>11. TypeOK'
  BY <1>1, <1>7, <1>8, <1>9, <1>10 DEF IInv, TypeOK
<1>12. EveryGrantIsPaid'
  <2>1. SUFFICES ASSUME NEW b \in Budgets
                 PROVE  granted'[b] + lost'[b] =
                          IF keys'[b] = None THEN 0 ELSE base'[b] - keys'[b]
    BY DEF EveryGrantIsPaid
  <2>2. /\ granted[b] \in Nat /\ lost[b] \in Nat /\ base[b] \in Nat
        /\ granted[b] + lost[b] = IF keys[b] = None THEN 0 ELSE base[b] - keys[b]
    BY DEF IInv, TypeOK, EveryGrantIsPaid
  <2>3. CASE b \in Found(h)
    <3>1. granted'[b] + lost'[b] = granted[b] + lost[b] + a
      BY <1>2, <1>6, <2>2, <2>3 DEF Book
    <3>2. keys'[b] = Left(h, b) - a /\ keys'[b] \in Nat /\ Left(h, b) \in Nat
      BY <1>1, <1>2, <1>3, <2>3
    <3>3. base'[b] = IF keys[b] = None THEN job[h].found[b] ELSE base[b]
      BY <1>1, <1>5, <2>3 DEF OpenKeys
    <3>4. keys'[b] # None
      BY <3>2, NoneAssumption
    <3>5. CASE keys[b] = None
      <4>1. base'[b] = Left(h, b) /\ granted[b] + lost[b] = 0
        BY <2>2, <3>3, <3>5 DEF Left
      <4> HIDE DEF a
      <4>2. QED
        BY <1>2, <2>2, <3>1, <3>2, <3>4, <4>1
    <3>6. CASE keys[b] # None
      <4>1. base'[b] = base[b] /\ keys[b] = Left(h, b) /\ granted[b] + lost[b] = base[b] - keys[b]
        BY <2>2, <3>3, <3>6 DEF Left
      <4> HIDE DEF a
      <4>2. QED
        BY <1>2, <2>2, <3>1, <3>2, <3>4, <4>1
    <3>7. QED
      BY <3>5, <3>6
  <2>4. CASE b \notin Found(h)
    <3>1. granted'[b] = granted[b] /\ lost'[b] = lost[b]
      BY <1>6, <2>4 DEF Book
    <3>2. keys'[b] = keys[b] /\ base'[b] = base[b]
      BY <1>1, <1>5, <2>4 DEF OpenKeys
    <3>3. QED
      BY <2>2, <3>1, <3>2
  <2>5. QED
    BY <2>3, <2>4
<1>13. QED
  BY <1>10, <1>11, <1>12 DEF IInv

\* A refusal creates keys and deducts nothing.
LEMMA ExceedKeeps ==
  ASSUME IInv, NEW h \in Handlers, Exceed(h)
  PROVE  IInv'
<1>1. /\ pc[h] = "redis" /\ OpenKeys(h) /\ keys' = Opened(h)
      /\ Return(h, "FALSE") /\ UNCHANGED <<rows, granted, lost>>
  BY DEF Exceed
<1>2. Visited(h) \subseteq Found(h)
  BY DEF Visited
<1>3. \A b \in Visited(h) : Left(h, b) \in Nat
  BY <1>2, LeftIsNat DEF IInv
<1>4. keys' \in [Budgets -> Nat \cup {None}]
  <2>1. keys \in [Budgets -> Nat \cup {None}]
    BY DEF IInv, TypeOK
  <2>2. QED
    BY <1>1, <1>3, <2>1 DEF Opened
<1>5. base' \in [Budgets -> Nat]
  BY <1>1, OpenKeysIsNat DEF IInv
<1>6. /\ DueIsFound'
      /\ pc' \in [Handlers -> {"idle", "fleet", "agent", "redis"}]
      /\ job' \in [Handlers -> Jobs]
      /\ answer' \in [Handlers -> {"none", "TRUE", "FALSE"}]
  BY <1>1, ReturnKeepsDue DEF IInv
<1>7. TypeOK'
  BY <1>1, <1>4, <1>5, <1>6 DEF IInv, TypeOK
<1>8. EveryGrantIsPaid'
  <2>1. SUFFICES ASSUME NEW b \in Budgets
                 PROVE  granted[b] + lost[b] =
                          IF keys'[b] = None THEN 0 ELSE base'[b] - keys'[b]
    BY <1>1 DEF EveryGrantIsPaid
  <2>2. granted[b] + lost[b] = IF keys[b] = None THEN 0 ELSE base[b] - keys[b]
    BY DEF IInv, EveryGrantIsPaid
  <2>3. CASE b \in Visited(h) /\ keys[b] = None
    <3>1. keys'[b] = Left(h, b) /\ base'[b] = Left(h, b)
      BY <1>1, <2>3 DEF Opened, OpenKeys, Left
    <3>2. Left(h, b) \in Nat
      BY <1>3, <2>3
    <3>3. QED
      BY <2>2, <2>3, <3>1, <3>2, NoneAssumption
  <2>4. CASE ~(b \in Visited(h) /\ keys[b] = None)
    <3>1. keys'[b] = keys[b] /\ base'[b] = base[b]
      BY <1>1, <2>4 DEF Opened, OpenKeys, Left
    <3>2. QED
      BY <2>2, <3>1
  <2>5. QED
    BY <2>3, <2>4
<1>9. QED
  BY <1>6, <1>7, <1>8 DEF IInv

\* A dry run and a failure change no account.
LEMMA IdleKeeps ==
  ASSUME IInv, NEW h \in Handlers, CheckBudgets(h) \/ Fail(h)
  PROVE  IInv'
<1>1. PICK result \in {"TRUE", "FALSE"} :
        Return(h, result) /\ UNCHANGED <<rows, keys, ledger>>
  BY DEF CheckBudgets, Fail
<1>2. /\ DueIsFound'
      /\ pc' \in [Handlers -> {"idle", "fleet", "agent", "redis"}]
      /\ job' \in [Handlers -> Jobs]
      /\ answer' \in [Handlers -> {"none", "TRUE", "FALSE"}]
  BY <1>1, ReturnKeepsDue DEF IInv
<1>3. QED
  BY <1>1, <1>2 DEF IInv, TypeOK, EveryGrantIsPaid, ledger

-----------------------------------------------------------------------------
(* The invariant of BudgetReserve: types, what requests know, accounts.    *)
THEOREM InductiveInvariant == Spec => []IInv
<1>1. Init => IInv
  <2>1. SUFFICES ASSUME Init
                 PROVE  IInv
    OBVIOUS
  <2>2. NoJob \in Jobs
    BY DEF NoJob, NoRow, Budgets, Jobs
  <2>3. TypeOK
    BY <2>1, <2>2 DEF Init, TypeOK
  <2>4. DueIsFound
    BY <2>1 DEF Init, DueIsFound, NoJob
  <2>5. EveryGrantIsPaid
    BY <2>1 DEF Init, EveryGrantIsPaid
  <2>6. QED
    BY <2>3, <2>4, <2>5 DEF IInv
<1>2. IInv /\ [Next]_vars => IInv'
  <2>1. SUFFICES ASSUME IInv, [Next]_vars
                 PROVE  IInv'
    OBVIOUS
  <2>2. CASE Administer
    BY <2>1, <2>2, AdministerKeeps
  <2>3. CASE LoseKeys
    BY <2>1, <2>3 DEF LoseKeys, IInv, TypeOK, DueIsFound, EveryGrantIsPaid
  <2>4. ASSUME NEW h \in Handlers, Serve(h)
        PROVE  IInv'
    <3>1. CASE \E a \in Agents, m \in Amounts, s \in BOOLEAN : StartReserve(h, a, m, s)
      BY <2>1, <3>1, StartKeeps
    <3>2. CASE \E l \in Limits : FindBudget(h, l)
      BY <2>1, <3>2, FindKeeps
    <3>3. CASE FindNoBudget(h)
      BY <2>1, <3>3, FindNoneKeeps
    <3>4. CASE Consume(h)
      BY <2>1, <3>4, ConsumeKeeps
    <3>5. CASE Exceed(h)
      BY <2>1, <3>5, ExceedKeeps
    <3>6. CASE CheckBudgets(h) \/ Fail(h)
      BY <2>1, <3>6, IdleKeeps
    <3>7. QED
      BY <2>4, <3>1, <3>2, <3>3, <3>4, <3>5, <3>6 DEF Serve
  <2>5. CASE UNCHANGED vars
    BY <2>1, <2>5 DEF vars, ledger, IInv, TypeOK, DueIsFound, EveryGrantIsPaid
  <2>6. QED
    BY <2>1, <2>2, <2>3, <2>4, <2>5 DEF Next
<1>3. QED
  BY <1>1, <1>2, PTL DEF Spec

(* Keys, limits and jobs keep their types: no budget is ever overdrawn.    *)
THEOREM TypeCorrect == Spec => []TypeOK
<1>1. IInv => TypeOK
  BY DEF IInv
<1>2. QED
  BY <1>1, InductiveInvariant, PTL

(* Grants, lost answers and what is left add up to the limit a key was     *)
(* made from, for any agents, operators and interleavings of requests.     *)
THEOREM GrantsArePaid == Spec => []EveryGrantIsPaid
<1>1. IInv => EveryGrantIsPaid
  BY DEF IInv
<1>2. QED
  BY <1>1, InductiveInvariant, PTL
=============================================================================

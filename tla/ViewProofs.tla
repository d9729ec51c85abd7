----------------------------- MODULE ViewProofs -----------------------------
(***************************************************************************)
(* Lemmas about the requests under way (ApiClient), on which every proof   *)
(* about a page of the console rests: what sending, serving, hearing,      *)
(* giving up and leaving the page do to the calls, to those that a handler *)
(* of the page awaits and to the newest of a kind. Then the proofs about   *)
(* the three pages that show and ask but never change an agent, a request  *)
(* or the fleet: OverviewPage (what is shown never goes back), AuditPage   *)
(* (the events on screen) and SimulatorPage (the verdict on screen).       *)
(* PageProofs has the other four pages, ConsoleProofs composes all seven.  *)
(***************************************************************************)
EXTENDS OverviewPage, AuditPage, SimulatorPage, FunctionTheorems, FiniteSetTheorems, TLAPS

Callers == {"page", "handler", "nobody"}

Stages == {"sent", "keySet", "allowed", "refused", "contained", "uncontained", "numbered",
           "evaluated", "served"}

CallSet(O, A, R) == [op : O, arg : A, by : Callers, stage : Stages, answer : R]

\* Texts of errors.
Texts == {"timeout of 10000ms exceeded", "Request failed with status code 500",
          "Cannot approve request with status", "Cannot deny request with status",
          "Approval request has expired", "Approval re-evaluation resulted in DENY",
          "IDEMPOTENCY_CONFLICT"}

Replies(V) == [ok : {TRUE}, value : V] \cup [ok : {FALSE}, value : Texts]

Awaited(s) == {i \in DOMAIN s : s[i].by = "handler"}

\* A handler awaits one call while flag is set, and none otherwise.
OneAwaited(s, flag) ==
  /\ \A i, j \in Awaited(s) : i = j
  /\ flag <=> Awaited(s) # {}

-----------------------------------------------------------------------------
LEMMA ReplyTypes ==
  ASSUME NEW V
  PROVE  /\ NoResponse \in Replies(V) /\ ServerError \in Replies(V)
         /\ \A v \in V : Ok(v) \in Replies(V)
         /\ \A m \in Texts : Failed(m) \in Replies(V)
         /\ \A a \in Replies(V) : a.ok \in BOOLEAN /\ (a.ok => a.value \in V)
         /\ ~NoResponse.ok /\ ~ServerError.ok
<1>1. /\ ErrorMessage(0, "none", "timeout of 10000ms exceeded") = "timeout of 10000ms exceeded"
      /\ ErrorMessage(500, "none", "Request failed with status code 500")
           = "Request failed with status code 500"
  BY DEF ErrorMessage
<1>2. NoResponse = Failed("timeout of 10000ms exceeded")
      /\ ServerError = Failed("Request failed with status code 500")
  BY <1>1 DEF NoResponse, ServerError
<1>3. \A m \in Texts : Failed(m) \in Replies(V) /\ ~Failed(m).ok
  BY DEF Replies, Failed
<1>4. \A v \in V : Ok(v) \in Replies(V)
  BY DEF Replies, Ok
<1>5. \A a \in Replies(V) : a.ok \in BOOLEAN /\ (a.ok => a.value \in V)
  BY DEF Replies, Failed, Ok
<1>6. "timeout of 10000ms exceeded" \in Texts /\ "Request failed with status code 500" \in Texts
  BY DEF Texts
<1>7. QED BY <1>2, <1>3, <1>4, <1>5, <1>6

LEMMA RequestType ==
  ASSUME NEW O, NEW A, NEW V, NEW op \in O, NEW arg \in A, NEW by \in Callers
  PROVE  /\ Request(op, arg, by) \in CallSet(O, A, Replies(V))
         /\ Request(op, arg, by).by = by /\ Request(op, arg, by).op = op
         /\ Request(op, arg, by).arg = arg /\ Request(op, arg, by).stage = "sent"
         /\ Request(op, arg, by).answer = NoResponse
<1>1. NoResponse \in Replies(V) BY ReplyTypes
<1>2. "sent" \in Stages BY DEF Stages
<1>3. QED BY <1>1, <1>2 DEF Request, CallSet

(* A call is sent.                                                         *)
LEMMA AppendCall ==
  ASSUME NEW S, NEW s \in Seq(S), NEW c \in S
  PROVE  /\ Append(s, c) \in Seq(S)
         /\ Len(s) \in Nat /\ DOMAIN s = 1..Len(s)
         /\ DOMAIN Append(s, c) = 1..(Len(s) + 1)
         /\ \A j \in DOMAIN s : Append(s, c)[j] = s[j]
         /\ Append(s, c)[Len(s) + 1] = c
OBVIOUS

LEMMA FunctionIsSequence ==
  ASSUME NEW S, NEW n \in Nat, NEW f \in [1..n -> S]
  PROVE  f \in Seq(S)
OBVIOUS

(* A call is over: the others keep their order.                            *)
Before(i, j) == IF j < i THEN j ELSE j + 1

LEMMA WithoutCall ==
  ASSUME NEW S, NEW s \in Seq(S), NEW i \in DOMAIN s
  PROVE  /\ Without(s, i) \in Seq(S)
         /\ DOMAIN Without(s, i) = 1..(Len(s) - 1)
         /\ \A j \in DOMAIN Without(s, i) :
              Before(i, j) \in DOMAIN s \ {i} /\ Without(s, i)[j] = s[Before(i, j)]
         /\ \A j, k \in DOMAIN Without(s, i) : Before(i, j) = Before(i, k) => j = k
         /\ \A k \in DOMAIN s \ {i} : \E j \in DOMAIN Without(s, i) : Before(i, j) = k
<1>1. Len(s) \in Nat /\ DOMAIN s = 1..Len(s) /\ i \in 1..Len(s) /\ Len(s) - 1 \in Nat
  OBVIOUS
<1>2. DOMAIN Without(s, i) = 1..(Len(s) - 1)
  BY DEF Without
<1>3. \A j \in 1..(Len(s) - 1) : Before(i, j) \in DOMAIN s \ {i} /\ Without(s, i)[j] = s[Before(i, j)]
  BY <1>1 DEF Without, Before
<1>4. \A j \in 1..(Len(s) - 1) : Without(s, i)[j] \in S
  BY <1>1, <1>3
<1>5. Without(s, i) \in Seq(S)
  <2>1. Without(s, i) = [j \in 1..(Len(s) - 1) |-> Without(s, i)[j]]
    BY DEF Without
  <2>2. Without(s, i) \in [1..(Len(s) - 1) -> S]
    BY <1>4, <2>1
  <2>3. QED BY <1>1, <2>2
<1>6. \A j, k \in 1..(Len(s) - 1) : Before(i, j) = Before(i, k) => j = k
  BY <1>1 DEF Before
<1>7. ASSUME NEW k \in DOMAIN s \ {i} PROVE \E j \in 1..(Len(s) - 1) : Before(i, j) = k
  <2>1. CASE k < i
    <3>1. k \in 1..(Len(s) - 1) /\ Before(i, k) = k BY <1>1, <2>1 DEF Before
    <3>2. QED BY <3>1
  <2>2. CASE k > i
    <3>1. k - 1 \in 1..(Len(s) - 1) /\ Before(i, k - 1) = k BY <1>1, <2>2 DEF Before
    <3>2. QED BY <3>1
  <2>3. QED BY <1>1, <2>1, <2>2
<1>8. QED BY <1>2, <1>3, <1>5, <1>6, <1>7

(* What is left of the calls of a page that is left.                       *)
LEMMA AbandonedCalls ==
  ASSUME NEW O, NEW A, NEW R, calls \in Seq(CallSet(O, A, R)), NEW rest \in Abandoned
  PROVE  /\ rest \in Seq(CallSet(O, A, R))
         /\ \A n \in DOMAIN rest :
              \E i \in DOMAIN calls :
                /\ calls[i].op \in Commands /\ calls[i].stage # "served"
                /\ rest[n] = [calls[i] EXCEPT !.by = "nobody"]
         /\ \A i \in DOMAIN calls : calls[i].op \in Commands /\ calls[i].stage # "served" =>
              \E n \in DOMAIN rest : rest[n] = [calls[i] EXCEPT !.by = "nobody"]
<1> DEFINE kept == {i \in DOMAIN calls : calls[i].op \in Commands /\ calls[i].stage # "served"}
<1>1. Len(calls) \in Nat /\ DOMAIN calls = 1..Len(calls)
  OBVIOUS
<1>2. IsFiniteSet(kept) /\ Cardinality(kept) \in Nat
  <2>1. IsFiniteSet(1..Len(calls)) BY <1>1, FS_Interval
  <2>2. QED BY <1>1, <2>1, FS_Subset, FS_CardinalityType
<1>3. PICK f \in [1..Cardinality(kept) -> kept] :
        /\ \A m, n \in DOMAIN f : m < n => f[m] < f[n]
        /\ rest = [n \in DOMAIN f |-> [calls[f[n]] EXCEPT !.by = "nobody"]]
  BY DEF Abandoned
<1>4. DOMAIN rest = 1..Cardinality(kept) /\ \A n \in DOMAIN rest :
        f[n] \in kept /\ rest[n] = [calls[f[n]] EXCEPT !.by = "nobody"]
  BY <1>3
<1>5. \A i \in DOMAIN calls : [calls[i] EXCEPT !.by = "nobody"] \in CallSet(O, A, R)
  <2>1. \A i \in DOMAIN calls : calls[i] \in CallSet(O, A, R)
    BY <1>1
  <2>2. QED BY <2>1 DEF CallSet, Callers
<1>6. rest \in Seq(CallSet(O, A, R))
  <2>1. \A n \in 1..Cardinality(kept) : rest[n] \in CallSet(O, A, R)
    BY <1>4, <1>5
  <2>2. rest \in [1..Cardinality(kept) -> CallSet(O, A, R)]
    BY <1>3, <1>4, <2>1
  <2>3. QED BY <1>2, <2>2, FunctionIsSequence
<1>7. \A i \in kept : \E n \in 1..Cardinality(kept) : f[n] = i
  <2>1. f \in Injection(1..Cardinality(kept), kept)
    <3>1. \A m, n \in 1..Cardinality(kept) : f[m] = f[n] => m = n
      <4>1. SUFFICES ASSUME NEW m \in 1..Cardinality(kept), NEW n \in 1..Cardinality(kept), m # n
                     PROVE  f[m] # f[n]
        OBVIOUS
      <4>2. m < n \/ n < m BY <1>2, <4>1
      <4>3. f[m] \in 1..Len(calls) /\ f[n] \in 1..Len(calls) BY <1>1
      <4>4. f[m] < f[n] \/ f[n] < f[m] BY <1>3, <4>2
      <4>5. QED BY <1>1, <4>3, <4>4
    <3>2. QED BY <1>3, <3>1 DEF Injection, IsInjective
  <2>2. Cardinality(1..Cardinality(kept)) = Cardinality(kept)
    <3>1. 0 <= Cardinality(kept) BY <1>2
    <3>2. QED BY <1>2, <3>1, FS_Interval
  <2>3. f \in Surjection(1..Cardinality(kept), kept)
    BY <1>2, <2>1, <2>2, FS_Injection
  <2>4. QED BY <2>3 DEF Surjection
<1>8. QED BY <1>4, <1>6, <1>7

-----------------------------------------------------------------------------
(* Each of these changes sends one call, changes one, or forgets some.     *)

InFlight(s) == {s[j] : j \in DOMAIN s}

Answered(c, a) == [c EXCEPT !.stage = "served", !.answer = a]
Orphaned(c) == [c EXCEPT !.by = "nobody"]
Changed(s, i, c) == [s EXCEPT ![i] = c]

LEMMA SentCalls ==
  ASSUME NEW S, NEW s \in Seq(S), NEW c \in S
  PROVE  /\ Append(s, c) \in Seq(S)
         /\ InFlight(Append(s, c)) = InFlight(s) \cup {c}
BY AppendCall DEF InFlight

LEMMA HeardCalls ==
  ASSUME NEW S, NEW s \in Seq(S), NEW i \in DOMAIN s
  PROVE  /\ Without(s, i) \in Seq(S)
         /\ InFlight(Without(s, i)) \subseteq InFlight(s)
         /\ \A k \in DOMAIN s \ {i} : s[k] \in InFlight(Without(s, i))
BY WithoutCall DEF InFlight

LEMMA ChangedCalls ==
  ASSUME NEW S, NEW s \in Seq(S), NEW i \in DOMAIN s, NEW c \in S
  PROVE  /\ Changed(s, i, c) \in Seq(S)
         /\ InFlight(Changed(s, i, c)) \subseteq InFlight(s) \cup {c}
         /\ c \in InFlight(Changed(s, i, c))
         /\ \A k \in DOMAIN s \ {i} : s[k] \in InFlight(Changed(s, i, c))
<1>1. DOMAIN [s EXCEPT ![i] = c] = DOMAIN s
  OBVIOUS
<1>2. [s EXCEPT ![i] = c][i] = c /\ \A k \in DOMAIN s \ {i} : [s EXCEPT ![i] = c][k] = s[k]
  OBVIOUS
<1>3. [s EXCEPT ![i] = c] \in Seq(S)
  OBVIOUS
<1>4. QED BY <1>1, <1>2, <1>3 DEF InFlight, Changed

LEMMA ServedCalls ==
  ASSUME NEW O, NEW A, NEW R, calls \in Seq(CallSet(O, A, R)), NEW i \in DOMAIN calls, NEW a \in R
  PROVE  /\ Served(i, a) \in Seq(CallSet(O, A, R))
         /\ InFlight(Served(i, a)) \subseteq InFlight(calls) \cup
              (IF calls[i].by = "nobody" THEN {} ELSE {Answered(calls[i], a)})
         /\ \A k \in DOMAIN calls \ {i} : calls[k] \in InFlight(Served(i, a))
<1>1. CASE calls[i].by = "nobody"
  BY <1>1, HeardCalls DEF Served
<1>2. CASE calls[i].by # "nobody"
  <2>1. Answered(calls[i], a) \in CallSet(O, A, R)
    <3>1. calls[i] \in CallSet(O, A, R) OBVIOUS
    <3>2. QED BY <3>1 DEF Answered, CallSet, Stages
  <2>2. Served(i, a) = Changed(calls, i, Answered(calls[i], a))
    BY <1>2 DEF Served, Answered, Changed
  <2>3. QED BY <1>2, <2>1, <2>2, ChangedCalls
<1>3. QED BY <1>1, <1>2

LEMMA GivenUpCalls ==
  ASSUME NEW O, NEW A, NEW R, calls \in Seq(CallSet(O, A, R)), NEW i \in DOMAIN calls
  PROVE  /\ GivenUp(i) \in Seq(CallSet(O, A, R))
         /\ InFlight(GivenUp(i)) \subseteq InFlight(calls) \cup
              (IF calls[i].op \in Commands /\ calls[i].stage # "served"
               THEN {Orphaned(calls[i])} ELSE {})
         /\ \A k \in DOMAIN calls \ {i} : calls[k] \in InFlight(GivenUp(i))
         /\ calls[i].op \in Commands /\ calls[i].stage # "served" =>
              Orphaned(calls[i]) \in InFlight(GivenUp(i))
<1>1. CASE calls[i].op \in Commands /\ calls[i].stage # "served"
  <2>1. Orphaned(calls[i]) \in CallSet(O, A, R)
    <3>1. calls[i] \in CallSet(O, A, R) OBVIOUS
    <3>2. QED BY <3>1 DEF Orphaned, CallSet, Callers
  <2>2. GivenUp(i) = Changed(calls, i, Orphaned(calls[i]))
    <3>1. calls \in [DOMAIN calls -> CallSet(O, A, R)] OBVIOUS
    <3>2. QED BY <1>1, <3>1 DEF GivenUp, Orphaned, Changed
  <2>3. QED BY <1>1, <2>1, <2>2, ChangedCalls
<1>2. CASE ~(calls[i].op \in Commands /\ calls[i].stage # "served")
  BY <1>2, HeardCalls DEF GivenUp
<1>3. QED BY <1>1, <1>2

LEMMA LeftCalls ==
  ASSUME NEW O, NEW A, NEW R, calls \in Seq(CallSet(O, A, R)), NEW rest \in Abandoned
  PROVE  /\ rest \in Seq(CallSet(O, A, R))
         /\ \A c \in InFlight(rest) :
              \E d \in InFlight(calls) : c = Orphaned(d) /\ d.op \in Commands /\ d.stage # "served"
         /\ \A d \in InFlight(calls) :
              d.op \in Commands /\ d.stage # "served" => Orphaned(d) \in InFlight(rest)
BY AbandonedCalls DEF InFlight, Orphaned

-----------------------------------------------------------------------------
(* What they do to the call that a handler awaits.                         *)

LEMMA AwaitedSend ==
  ASSUME NEW S, NEW s \in Seq(S), NEW c \in S, NEW flag
  PROVE  /\ c.by # "handler" /\ OneAwaited(s, flag) => OneAwaited(Append(s, c), flag)
         /\ c.by = "handler" /\ Awaited(s) = {} => OneAwaited(Append(s, c), TRUE)
<1>1. CASE c.by # "handler"
  <2>1. Awaited(Append(s, c)) = Awaited(s)
    BY <1>1, AppendCall DEF Awaited
  <2>2. QED BY <1>1, <2>1 DEF OneAwaited
<1>2. CASE c.by = "handler"
  <2>1. Awaited(s) = {} => Awaited(Append(s, c)) = {Len(s) + 1}
    BY <1>2, AppendCall DEF Awaited
  <2>2. QED BY <1>2, <2>1 DEF OneAwaited
<1>3. QED BY <1>1, <1>2

LEMMA AwaitedHear ==
  ASSUME NEW S, NEW s \in Seq(S), NEW i \in DOMAIN s, NEW flag, OneAwaited(s, flag)
  PROVE  /\ s[i].by # "handler" => OneAwaited(Without(s, i), flag)
         /\ s[i].by = "handler" => Awaited(Without(s, i)) = {}
<1>1. ASSUME NEW j \in Awaited(Without(s, i)) PROVE Before(i, j) \in Awaited(s) /\ Before(i, j) # i
  <2>1. j \in DOMAIN Without(s, i) /\ Without(s, i)[j].by = "handler" BY DEF Awaited
  <2>2. Before(i, j) \in DOMAIN s \ {i} /\ Without(s, i)[j] = s[Before(i, j)] BY <2>1, WithoutCall
  <2>3. QED BY <2>1, <2>2 DEF Awaited
<1>2. CASE s[i].by # "handler"
  <2>1. \A j, k \in Awaited(Without(s, i)) : j = k
    <3>1. SUFFICES ASSUME NEW j \in Awaited(Without(s, i)), NEW k \in Awaited(Without(s, i))
                   PROVE  j = k
      OBVIOUS
    <3>2. Before(i, j) = Before(i, k) BY <1>1 DEF OneAwaited
    <3>3. j \in DOMAIN Without(s, i) /\ k \in DOMAIN Without(s, i) BY DEF Awaited
    <3>4. QED BY <3>2, <3>3, WithoutCall
  <2>2. Awaited(s) # {} => Awaited(Without(s, i)) # {}
    <3>1. SUFFICES ASSUME NEW k \in Awaited(s) PROVE \E j \in DOMAIN Without(s, i) : Without(s, i)[j].by = "handler"
      BY DEF Awaited
    <3>2. k \in DOMAIN s \ {i} /\ s[k].by = "handler" BY <1>2 DEF Awaited
    <3>3. PICK j \in DOMAIN Without(s, i) : Before(i, j) = k BY <3>2, WithoutCall
    <3>4. Without(s, i)[j] = s[k] BY <3>3, WithoutCall
    <3>5. QED BY <3>2, <3>4
  <2>3. QED BY <1>1, <1>2, <2>1, <2>2 DEF OneAwaited
<1>3. CASE s[i].by = "handler"
  <2>1. i \in Awaited(s) BY <1>3 DEF Awaited
  <2>2. QED BY <1>1, <1>3, <2>1 DEF OneAwaited
<1>4. QED BY <1>2, <1>3

LEMMA AwaitedChange ==
  ASSUME NEW S, NEW s \in Seq(S), NEW i \in DOMAIN s, NEW c \in S, NEW flag, OneAwaited(s, flag)
  PROVE  /\ c.by = s[i].by => OneAwaited(Changed(s, i, c), flag)
         /\ s[i].by = "handler" /\ c.by # "handler" => Awaited(Changed(s, i, c)) = {}
         /\ s[i].by # "handler" /\ c.by # "handler" => OneAwaited(Changed(s, i, c), flag)
<1>1. DOMAIN [s EXCEPT ![i] = c] = DOMAIN s
  OBVIOUS
<1>2. [s EXCEPT ![i] = c][i] = c /\ \A k \in DOMAIN s \ {i} : [s EXCEPT ![i] = c][k] = s[k]
  OBVIOUS
<1>3. QED BY <1>1, <1>2 DEF OneAwaited, Awaited, Changed

LEMMA AwaitedServe ==
  ASSUME NEW O, NEW A, NEW R, calls \in Seq(CallSet(O, A, R)), NEW i \in DOMAIN calls, NEW a \in R,
         NEW flag, OneAwaited(calls, flag)
  PROVE  OneAwaited(Served(i, a), flag)
<1>1. CASE calls[i].by = "nobody"
  BY <1>1, AwaitedHear DEF Served
<1>2. CASE calls[i].by # "nobody"
  <2>1. calls[i] \in CallSet(O, A, R) OBVIOUS
  <2>2. Answered(calls[i], a) \in CallSet(O, A, R) /\ Answered(calls[i], a).by = calls[i].by
    BY <2>1 DEF Answered, CallSet, Stages
  <2>3. Served(i, a) = Changed(calls, i, Answered(calls[i], a))
    BY <1>2 DEF Served, Answered, Changed
  <2>4. QED BY <2>2, <2>3, AwaitedChange
<1>3. QED BY <1>1, <1>2

LEMMA AwaitedGiveUp ==
  ASSUME NEW O, NEW A, NEW R, calls \in Seq(CallSet(O, A, R)), NEW i \in DOMAIN calls,
         NEW flag, OneAwaited(calls, flag)
  PROVE  /\ calls[i].by # "handler" => OneAwaited(GivenUp(i), flag)
         /\ calls[i].by = "handler" => Awaited(GivenUp(i)) = {}
<1>1. CASE calls[i].op \in Commands /\ calls[i].stage # "served"
  <2>1. calls[i] \in CallSet(O, A, R) /\ calls \in [DOMAIN calls -> CallSet(O, A, R)] OBVIOUS
  <2>2. Orphaned(calls[i]) \in CallSet(O, A, R) /\ Orphaned(calls[i]).by = "nobody"
    BY <2>1 DEF Orphaned, CallSet, Callers
  <2>3. GivenUp(i) = Changed(calls, i, Orphaned(calls[i]))
    BY <1>1, <2>1 DEF GivenUp, Orphaned, Changed
  <2>4. QED BY <1>1, <2>2, <2>3, AwaitedChange
<1>2. CASE ~(calls[i].op \in Commands /\ calls[i].stage # "served")
  BY <1>2, AwaitedHear DEF GivenUp
<1>3. QED BY <1>1, <1>2

(* The handlers of a page that was left await nothing.                     *)
LEMMA AwaitedLeave ==
  ASSUME NEW O, NEW A, NEW R, calls \in Seq(CallSet(O, A, R)), NEW rest \in Abandoned
  PROVE  Awaited(rest) = {}
<1>1. \A i \in DOMAIN calls : calls[i] \in CallSet(O, A, R)
  OBVIOUS
<1>2. \A i \in DOMAIN calls : [calls[i] EXCEPT !.by = "nobody"].by = "nobody"
  BY <1>1 DEF CallSet
<1>3. ASSUME NEW n \in DOMAIN rest PROVE rest[n].by = "nobody"
  <2>1. PICK i \in DOMAIN calls : rest[n] = [calls[i] EXCEPT !.by = "nobody"]
    BY AbandonedCalls
  <2>2. QED BY <1>2, <2>1
<1>4. QED BY <1>3 DEF Awaited
-----------------------------------------------------------------------------
(* The newest of the calls of one kind: pages compare the answers that     *)
(* come with what they asked for last.                                     *)

IsLast(s, op, i) ==
  i \in DOMAIN s /\ s[i].op = op /\ \A j \in DOMAIN s : s[j].op = op => j <= i

Sent(s, c) == Append(s, c)

LEMMA LastSent ==
  ASSUME NEW S, NEW s \in Seq(S), NEW c \in S, NEW op, NEW k, IsLast(Sent(s, c), op, k)
  PROVE  /\ c.op = op => Sent(s, c)[k] = c
         /\ c.op # op => IsLast(s, op, k) /\ Sent(s, c)[k] = s[k]
<1>1. /\ Len(s) \in Nat /\ DOMAIN s = 1..Len(s)
      /\ DOMAIN Sent(s, c) = 1..(Len(s) + 1)
      /\ \A j \in DOMAIN s : Sent(s, c)[j] = s[j]
      /\ Sent(s, c)[Len(s) + 1] = c
  BY AppendCall DEF Sent
<1>2. CASE c.op = op
  <2>1. k \in 1..(Len(s) + 1) /\ Len(s) + 1 <= k
    BY <1>1, <1>2 DEF IsLast
  <2>2. k = Len(s) + 1 BY <1>1, <2>1
  <2>3. QED BY <1>1, <1>2, <2>2
<1>3. CASE c.op # op
  <2>1. k \in DOMAIN s BY <1>1, <1>3 DEF IsLast
  <2>2. QED BY <1>1, <1>3, <2>1 DEF IsLast
<1>4. QED BY <1>2, <1>3

(* After one call is over, the newest was the newest before, unless the    *)
(* call that is over was newer.                                            *)
LEMMA LastHeard ==
  ASSUME NEW S, NEW s \in Seq(S), NEW i \in DOMAIN s, NEW op, NEW k, IsLast(Without(s, i), op, k)
  PROVE  /\ Before(i, k) \in DOMAIN s \ {i} /\ Without(s, i)[k] = s[Before(i, k)]
         /\ s[Before(i, k)].op = op
         /\ IsLast(s, op, Before(i, k)) \/ (s[i].op = op /\ Before(i, k) < i)
<1>1. /\ Len(s) \in Nat /\ DOMAIN s = 1..Len(s) /\ i \in Nat
      /\ DOMAIN Without(s, i) = 1..(Len(s) - 1)
  BY WithoutCall
<1>2. \A m \in DOMAIN Without(s, i) :
        Before(i, m) \in DOMAIN s \ {i} /\ Without(s, i)[m] = s[Before(i, m)]
  BY WithoutCall
<1>3. /\ k \in DOMAIN Without(s, i) /\ Before(i, k) \in DOMAIN s \ {i}
      /\ Without(s, i)[k] = s[Before(i, k)] /\ s[Before(i, k)].op = op
  BY <1>2 DEF IsLast
<1>4. ASSUME NEW j \in DOMAIN s \ {i}, s[j].op = op PROVE j <= Before(i, k)
  <2>1. PICK m \in DOMAIN Without(s, i) : Before(i, m) = j BY WithoutCall
  <2>2. Without(s, i)[m].op = op BY <1>2, <1>4, <2>1
  <2>3. m <= k BY <2>2 DEF IsLast
  <2>4. QED BY <1>1, <1>3, <2>1, <2>3 DEF Before
<1>5. s[i].op # op \/ i < Before(i, k) => IsLast(s, op, Before(i, k))
  BY <1>1, <1>3, <1>4 DEF IsLast
<1>6. QED BY <1>1, <1>3, <1>5

(* The only call of its kind is the newest.                                *)
LEMMA LastOne ==
  ASSUME NEW S, NEW s \in Seq(S), NEW i \in DOMAIN s, NEW op, s[i].op = op,
         \A c \in InFlight(Without(s, i)) : c.op # op
  PROVE  IsLast(s, op, i)
<1>1. \A k \in DOMAIN s \ {i} : s[k].op # op
  BY HeardCalls
<1>2. i \in 1..Len(s) /\ i <= i OBVIOUS
<1>3. QED BY <1>1, <1>2 DEF IsLast

LEMMA LastChanged ==
  ASSUME NEW S, NEW s \in Seq(S), NEW i \in DOMAIN s, NEW c \in S, c.op = s[i].op,
         NEW op, NEW k, IsLast(Changed(s, i, c), op, k)
  PROVE  IsLast(s, op, k) /\ Changed(s, i, c)[k] = (IF k = i THEN c ELSE s[k])
<1>1. DOMAIN [s EXCEPT ![i] = c] = DOMAIN s
  OBVIOUS
<1>2. [s EXCEPT ![i] = c][i] = c /\ \A j \in DOMAIN s \ {i} : [s EXCEPT ![i] = c][j] = s[j]
  OBVIOUS
<1>3. QED BY <1>1, <1>2 DEF IsLast, Changed

-----------------------------------------------------------------------------
(* The dashboard.                                                          *)

Snapshots == [Resources -> 0..MaxVersion]
FetchCalls == CallSet({"fetchData"}, BOOLEAN, [ok : {TRUE}, value : Snapshots])

DashboardPages ==
  [shown : Snapshots, lastSuccessfulUpdate : BOOLEAN, healthStatus : {"LIVE", "STALE", "OFFLINE"},
   errorMsg : BOOLEAN, isRefreshing : BOOLEAN]

\* What the server has answered lies between what is shown and what there is.
Between(shown, seen, current) ==
  \A r \in Resources : seen[r] = 0 \/ (shown[r] <= seen[r] /\ seen[r] <= current[r])

\* One fetch at a time is under way, and the flag knows.
DashboardInv ==
  /\ page \in DashboardPages /\ published \in [Resources -> Versions]
  /\ isFetching \in BOOLEAN /\ effectDue \in BOOLEAN /\ timerSynced \in BOOLEAN
  /\ \A r \in Resources : page.shown[r] <= published[r]
  /\ IF isFetching
     THEN \E c \in FetchCalls :
            calls = <<c>> /\ Between(page.shown, c.answer.value, published)
     ELSE calls = <<>>

-----------------------------------------------------------------------------
LEMMA UnseenType ==
  /\ Unseen \in Snapshots
  /\ \A shown, current : Between(shown, Unseen, current)
BY MaxVersionAssumption DEF Unseen, Snapshots, Between

LEMMA FetchAllType ==
  ASSUME NEW synced \in BOOLEAN
  PROVE  /\ FetchAll(synced) \in FetchCalls
         /\ FetchAll(synced).answer.value = Unseen
<1> DEFINE q == Request("fetchData", synced, "page")
           a == Ok(Unseen)
<1>1. FetchAll(synced) = [q EXCEPT !.answer = a]
  BY DEF FetchAll
<1>2. a \in [ok : {TRUE}, value : Snapshots] /\ a.value = Unseen
  BY UnseenType DEF Ok
<1>3. q \in CallSet({"fetchData"}, BOOLEAN, Replies({}))
  BY RequestType DEF Callers
<1> HIDE DEF q, a
<1>4. [q EXCEPT !.answer = a] \in FetchCalls /\ [q EXCEPT !.answer = a].answer = a
  BY <1>2, <1>3 DEF FetchCalls, CallSet
<1>5. QED BY <1>1, <1>2, <1>4

LEMMA OnlyFetch ==
  ASSUME DashboardInv, NEW i \in DOMAIN calls
  PROVE  /\ isFetching /\ i = 1
         /\ \E c \in FetchCalls :
              calls = <<c>> /\ calls[i] = c /\ Between(page.shown, c.answer.value, published)
BY DEF DashboardInv

(* No command is sent: what is left or given up is forgotten.              *)
LEMMA OverviewForgets ==
  ASSUME DashboardInv
  PROVE  /\ \A i \in DOMAIN calls : GivenUp(i) = <<>> /\ Heard(i) = <<>>
         /\ \A rest \in Abandoned : rest = <<>>
<1>1. calls \in Seq(FetchCalls) /\ \A i \in DOMAIN calls : calls[i].op \notin Commands
  <2>1. CASE isFetching
    <3>1. PICK c \in FetchCalls : calls = <<c>> BY <2>1 DEF DashboardInv
    <3>2. c.op \notin Commands BY DEF FetchCalls, CallSet, Commands
    <3>3. QED BY <3>1, <3>2
  <2>2. CASE ~isFetching BY <2>2 DEF DashboardInv
  <2>3. QED BY <2>1, <2>2
<1>2. ASSUME NEW i \in DOMAIN calls PROVE Without(calls, i) = <<>>
  BY <1>1, OnlyFetch, WithoutCall
<1>3. ASSUME NEW rest \in Abandoned PROVE rest = <<>>
  <2>1. rest \in Seq(FetchCalls) /\ DOMAIN rest = {}
    BY <1>1, AbandonedCalls DEF FetchCalls
  <2>2. QED BY <2>1
<1>4. QED BY <1>1, <1>2, <1>3 DEF GivenUp, Heard

LEMMA PublishStep ==
  ASSUME DashboardInv, NEW r \in Resources, Publish(r)
  PROVE  DashboardInv'
<1>1. /\ page' = page /\ calls' = calls /\ UNCHANGED overviewHooks
      /\ published' = [published EXCEPT ![r] = @ + 1] /\ published[r] < MaxVersion
  BY DEF Publish
<1>2. /\ published' \in [Resources -> Versions]
      /\ \A q \in Resources : published[q] \in Nat /\ published[q] <= published'[q]
  BY <1>1, MaxVersionAssumption DEF DashboardInv, Versions
<1>3. \A q \in Resources : page.shown[q] \in Nat
  BY DEF DashboardInv, DashboardPages, Snapshots
<1>4. \A q \in Resources : page.shown[q] <= published'[q]
  BY <1>2, <1>3 DEF DashboardInv, Versions
<1>5. ASSUME NEW c \in FetchCalls, Between(page.shown, c.answer.value, published)
      PROVE  Between(page.shown, c.answer.value, published')
  <2>1. c.answer.value \in Snapshots BY DEF FetchCalls, CallSet
  <2>2. QED BY <1>2, <1>5, <2>1 DEF Between, Snapshots, Versions
<1>6. QED BY <1>1, <1>2, <1>4, <1>5 DEF DashboardInv, overviewHooks

LEMMA ServeResourceStep ==
  ASSUME DashboardInv, NEW i \in DOMAIN calls, NEW r \in Resources, ServeResource(i, r)
  PROVE  DashboardInv'
<1>1. PICK c \in FetchCalls :
        /\ calls = <<c>> /\ calls[i] = c /\ i = 1 /\ isFetching
        /\ Between(page.shown, c.answer.value, published)
  BY OnlyFetch
<1>2. c.answer \in [ok : {TRUE}, value : Snapshots] /\ c.answer.value \in Snapshots
  BY DEF FetchCalls, CallSet
<1> DEFINE seen == [c.answer.value EXCEPT ![r] = published[r]]
           a == [c.answer EXCEPT !.value = seen]
           d == [c EXCEPT !.answer = a]
<1>3. seen \in Snapshots
  BY <1>2 DEF DashboardInv, Snapshots, Versions
<1>4. Between(page.shown, seen, published)
  BY <1>1, <1>2, <1>3 DEF DashboardInv, Between, Snapshots, Versions
<1>5. a \in [ok : {TRUE}, value : Snapshots] /\ a.value = seen
  BY <1>2, <1>3
<1>6. calls' = <<d>>
  BY <1>1 DEF ServeResource
<1> HIDE DEF a, seen
<1>7. d \in FetchCalls /\ d.answer = a
  BY <1>5 DEF FetchCalls, CallSet
<1> HIDE DEF d
<1>8. /\ page' = page /\ published' = published /\ UNCHANGED overviewHooks
  BY DEF ServeResource
<1>9. QED BY <1>1, <1>4, <1>5, <1>6, <1>7, <1>8 DEF DashboardInv, overviewHooks

LEMMA FetchDataStep ==
  ASSUME DashboardInv, NEW synced \in BOOLEAN, FetchData(synced), published' = published,
         effectDue' \in BOOLEAN, timerSynced' \in BOOLEAN
  PROVE  DashboardInv' /\ page'.shown = page.shown
<1>1. CASE isFetching
  BY <1>1 DEF FetchData, DashboardInv
<1>2. CASE ~isFetching
  <2>1. page' = [page EXCEPT !.isRefreshing = TRUE] /\ isFetching' = TRUE
    BY <1>2 DEF FetchData
  <2>2. page' \in DashboardPages /\ page'.shown = page.shown
    BY <2>1 DEF DashboardInv, DashboardPages
  <2>3. calls' = <<FetchAll(synced)>>
    BY <1>2 DEF FetchData, DashboardInv
  <2>4. QED BY <2>1, <2>2, <2>3, FetchAllType, UnseenType DEF DashboardInv
<1>3. QED BY <1>1, <1>2 DEF DashboardInv

LEMMA RefreshSteps ==
  ASSUME DashboardInv, RunEffect \/ IntervalFires \/ ManualRefresh
  PROVE  DashboardInv' /\ page'.shown = page.shown
<1>1. page.lastSuccessfulUpdate \in BOOLEAN /\ timerSynced \in BOOLEAN /\ effectDue \in BOOLEAN
  BY DEF DashboardInv, DashboardPages
<1>2. QED BY <1>1, FetchDataStep DEF RunEffect, IntervalFires, ManualRefresh

LEMMA FetchSucceedsStep ==
  ASSUME DashboardInv, NEW i \in DOMAIN calls, FetchSucceeds(i)
  PROVE  DashboardInv' /\ \A r \in Resources : page.shown[r] <= page'.shown[r]
<1>1. PICK c \in FetchCalls :
        calls[i] = c /\ Between(page.shown, c.answer.value, published)
  BY OnlyFetch
<1>2. c.answer.value \in Snapshots /\ \A r \in Resources : c.answer.value[r] # 0
  BY <1>1 DEF FetchSucceeds, FetchCalls, CallSet
<1>3. page' \in DashboardPages /\ page'.shown = c.answer.value
  BY <1>1, <1>2 DEF FetchSucceeds, DashboardPages
<1>4. \A r \in Resources : page.shown[r] <= page'.shown[r] /\ page'.shown[r] <= published[r]
  BY <1>1, <1>2, <1>3 DEF Between
<1>5. calls' = <<>> /\ UNCHANGED <<published, timerSynced>> /\ isFetching' = FALSE /\ effectDue' = TRUE
  BY OverviewForgets DEF FetchSucceeds
<1>6. QED BY <1>3, <1>4, <1>5 DEF DashboardInv

LEMMA FetchFailsStep ==
  ASSUME DashboardInv, NEW i \in DOMAIN calls, FetchFails(i)
  PROVE  DashboardInv' /\ page'.shown = page.shown
<1>1. page' \in DashboardPages /\ page'.shown = page.shown
  BY DEF FetchFails, DashboardInv, DashboardPages
<1>2. calls' = <<>> /\ UNCHANGED <<published, effectDue, timerSynced>> /\ isFetching' = FALSE
  BY OverviewForgets DEF FetchFails
<1>3. QED BY <1>1, <1>2 DEF DashboardInv

OverviewStarts ==
  /\ page = OverviewMounted /\ calls = <<FetchAll(FALSE)>>
  /\ isFetching = TRUE /\ effectDue = FALSE /\ timerSynced = FALSE
  /\ published \in [Resources -> Versions]

LEMMA OverviewMountInv == OverviewStarts => DashboardInv
<1> SUFFICES ASSUME OverviewStarts PROVE DashboardInv
  OBVIOUS
<1>1. page \in DashboardPages /\ page.shown = Unseen
  BY UnseenType DEF OverviewStarts, OverviewMounted, DashboardPages
<1>2. \A r \in Resources : page.shown[r] <= published[r]
  BY <1>1, MaxVersionAssumption DEF OverviewStarts, Unseen, Versions
<1>3. QED BY <1>1, <1>2, FetchAllType, UnseenType DEF OverviewStarts, DashboardInv

LEMMA OverviewReturnStep ==
  ASSUME DashboardInv, ReturnToOverview
  PROVE  DashboardInv'
<1>1. PICK rest \in Abandoned :
        /\ calls' = Append(rest, FetchAll(FALSE)) /\ page' = OverviewMounted
        /\ isFetching' = TRUE /\ effectDue' = FALSE /\ timerSynced' = FALSE /\ UNCHANGED published
  BY DEF ReturnToOverview, Remount
<1>2. calls' = <<FetchAll(FALSE)>>
  <2>1. rest = <<>> BY OverviewForgets
  <2>2. QED BY <1>1, <2>1
<1>3. OverviewStarts'
  BY <1>1, <1>2 DEF DashboardInv, OverviewStarts
<1>4. OverviewStarts' => DashboardInv'
  BY OverviewMountInv, PTL
<1>5. QED BY <1>3, <1>4

LEMMA OverviewNextInv ==
  ASSUME DashboardInv, OverviewNext
  PROVE  /\ DashboardInv'
         /\ ReturnToOverview \/ \A r \in Resources : page.shown[r] <= page'.shown[r]
<1>1. \A r \in Resources : page.shown[r] <= page.shown[r]
  BY DEF DashboardInv, DashboardPages, Snapshots
<1>2. ASSUME NEW r \in Resources, Publish(r) PROVE DashboardInv' /\ page'.shown = page.shown
  BY <1>2, PublishStep DEF Publish
<1>3. ASSUME NEW i \in DOMAIN calls, NEW r \in Resources, ServeResource(i, r)
      PROVE  DashboardInv' /\ page'.shown = page.shown
  BY <1>3, ServeResourceStep DEF ServeResource
<1>4. CASE RunEffect \/ IntervalFires \/ ManualRefresh
  BY <1>1, <1>4, RefreshSteps
<1>5. CASE ReturnToOverview
  BY <1>5, OverviewReturnStep
<1>6. ASSUME NEW i \in DOMAIN calls, FetchSucceeds(i)
      PROVE  DashboardInv' /\ \A r \in Resources : page.shown[r] <= page'.shown[r]
  BY <1>6, FetchSucceedsStep
<1>7. ASSUME NEW i \in DOMAIN calls, FetchFails(i)
      PROVE  DashboardInv' /\ page'.shown = page.shown
  BY <1>7, FetchFailsStep
<1>8. QED BY <1>1, <1>2, <1>3, <1>4, <1>5, <1>6, <1>7 DEF OverviewNext

LEMMA DashboardInvImplies ==
  ASSUME DashboardInv
  PROVE  OverviewTypeOK
BY DEF DashboardInv, OverviewTypeOK, DashboardPages, Snapshots

-----------------------------------------------------------------------------
(* The investigation page.                                                 *)

\* What the server answers, of a log.
MatchingIn(l, filter) == {n \in DOMAIN l : filter = AnyDecision \/ l[n] = filter}
EventsIn(l, filter, p) ==
  {n \in MatchingIn(l, filter) :
     Cardinality({m \in MatchingIn(l, filter) : m > n}) \div PageSize = p - 1}
TotalIn(l, filter) == Cardinality(MatchingIn(l, filter))

PageNumbers == {1} \cup 1..MaxEvents
Queries == [filter : Filters, page : PageNumbers]
Listings == [items : SUBSET Nat, total : Nat]
ChainVerdicts == {"valid", "CHAIN_HEAD_MISMATCH", "tampered"}
EventCalls ==
  CallSet({"getAuditEvents", "verifyAuditChain"}, Queries, Replies(Listings \cup ChainVerdicts))

EventPages(l) ==
  [events : SUBSET DOMAIN l, totalCount : 0..Len(l), currentPage : PageNumbers,
   loading : BOOLEAN, filters : Filters, isVerifying : BOOLEAN,
   verificationResult : {"none"} \cup ChainVerdicts, selectedEvent : {0} \cup DOMAIN l]

\* Nothing is executed for nobody; an answer is about events of the log.
EventCallFits(c, l) ==
  /\ c.by # "nobody"
  /\ c.op = "getAuditEvents" /\ c.answer.ok =>
       c.answer.value.items \subseteq DOMAIN l /\ c.answer.value.total \in 0..Len(l)
  /\ c.op = "verifyAuditChain" /\ c.answer.ok => c.answer.value \in ChainVerdicts

\* An answer to a fetch is what the server would answer now.
AnswerIsCurrent(c, l) ==
  c.op = "getAuditEvents" /\ c.stage = "served" =>
    /\ c.answer.ok
    /\ c.answer.value.items = EventsIn(l, c.arg.filter, c.arg.page)
    /\ c.answer.value.total = TotalIn(l, c.arg.filter)

\* The newest fetch asks for what the screen says, every answer is what the
\* server would answer now, and so is the table when no fetch is under way.
ScreenIsCurrent(screen, s, l) ==
  /\ \A k : IsLast(s, "getAuditEvents", k) =>
       s[k].arg = [filter |-> screen.filters, page |-> screen.currentPage]
  /\ \A c \in InFlight(s) : AnswerIsCurrent(c, l)
  /\ (\A c \in InFlight(s) : c.op # "getAuditEvents") =>
       /\ screen.events = EventsIn(l, screen.filters, screen.currentPage)
       /\ screen.totalCount = TotalIn(l, screen.filters)

AuditInv ==
  /\ page \in EventPages(log) /\ calls \in Seq(EventCalls)
  /\ log \in Seq(Decisions) /\ Len(log) <= MaxEvents
  /\ intact \in BOOLEAN /\ eventsStale \in BOOLEAN
  /\ \A c \in InFlight(calls) : EventCallFits(c, log)
  /\ eventsStale \/ ScreenIsCurrent(page, calls, log)

-----------------------------------------------------------------------------
LEMMA ServerAnswers ==
  /\ \A f : Matching(f) = MatchingIn(log, f)
  /\ \A f, p : EventsOf(f, p) = EventsIn(log, f, p)
BY DEF Matching, MatchingIn, EventsOf, EventsIn

LEMMA ListingTypes ==
  ASSUME NEW l \in Seq(Decisions), NEW f, NEW p
  PROVE  EventsIn(l, f, p) \subseteq DOMAIN l /\ TotalIn(l, f) \in 0..Len(l)
<1>1. Len(l) \in Nat /\ DOMAIN l = 1..Len(l) /\ MatchingIn(l, f) \subseteq 1..Len(l)
  BY DEF MatchingIn
<1>2. IsFiniteSet(1..Len(l)) /\ Cardinality(1..Len(l)) = Len(l)
  <2>1. ASSUME NEW n \in Nat PROVE IsFiniteSet(1..n) /\ Cardinality(1..n) = n
    BY FS_Interval
  <2>2. QED BY <1>1, <2>1
<1>3. Cardinality(MatchingIn(l, f)) \in Nat /\ Cardinality(MatchingIn(l, f)) <= Len(l)
  BY <1>1, <1>2, FS_Subset, FS_CardinalityType
<1>4. QED BY <1>1, <1>3 DEF EventsIn, TotalIn

LEMMA EventCallTypes ==
  ASSUME AuditInv, NEW i \in DOMAIN calls
  PROVE  /\ calls[i] \in EventCalls /\ calls[i] \in InFlight(calls)
         /\ calls[i].op \in {"getAuditEvents", "verifyAuditChain"} /\ calls[i].arg \in Queries
         /\ calls[i].answer \in Replies(Listings \cup ChainVerdicts)
         /\ EventCallFits(calls[i], log)
<1>1. calls[i] \in EventCalls BY DEF AuditInv
<1>2. QED BY <1>1 DEF AuditInv, EventCalls, CallSet, InFlight

(* Nothing is executed for a page that was left.                           *)
LEMMA NoCommands ==
  ASSUME AuditInv
  PROVE  /\ \A i \in DOMAIN calls : GivenUp(i) = Without(calls, i)
         /\ \A rest \in Abandoned : rest = <<>>
<1>1. \A i \in DOMAIN calls : calls[i].op \notin Commands
  BY EventCallTypes DEF Commands
<1>2. ASSUME NEW rest \in Abandoned PROVE rest = <<>>
  <2>1. rest \in Seq(EventCalls) /\ DOMAIN rest = {}
    BY <1>1, AbandonedCalls DEF AuditInv, EventCalls
  <2>2. QED BY <2>1
<1>3. QED BY <1>1, <1>2 DEF GivenUp

LEMMA EventRequest ==
  ASSUME NEW op \in {"getAuditEvents", "verifyAuditChain"}, NEW q \in Queries, NEW by \in Callers \ {"nobody"},
         NEW l
  PROVE  /\ Request(op, q, by) \in EventCalls /\ EventCallFits(Request(op, q, by), l)
         /\ AnswerIsCurrent(Request(op, q, by), l)
         /\ Request(op, q, by).op = op /\ Request(op, q, by).arg = q
<1>1. /\ Request(op, q, by) \in EventCalls
      /\ Request(op, q, by).op = op /\ Request(op, q, by).arg = q /\ Request(op, q, by).by = by
      /\ Request(op, q, by).stage = "sent" /\ Request(op, q, by).answer = NoResponse
  BY RequestType DEF EventCalls
<1>2. ~NoResponse.ok BY ReplyTypes
<1>3. QED BY <1>1, <1>2 DEF EventCallFits, AnswerIsCurrent

LEMMA FetchRequest ==
  ASSUME NEW f \in Filters, NEW p \in PageNumbers, NEW l
  PROVE  /\ FetchEvents(f, p) \in EventCalls /\ EventCallFits(FetchEvents(f, p), l)
         /\ AnswerIsCurrent(FetchEvents(f, p), l)
         /\ FetchEvents(f, p).op = "getAuditEvents"
         /\ FetchEvents(f, p).arg = [filter |-> f, page |-> p]
<1>1. [filter |-> f, page |-> p] \in Queries BY DEF Queries
<1>2. QED BY <1>1, EventRequest DEF FetchEvents, Callers

(* A step that leaves the log alone.                                       *)
LEMMA AuditKept ==
  ASSUME AuditInv, UNCHANGED auditRows, page' \in EventPages(log), calls' \in Seq(EventCalls),
         eventsStale' \in BOOLEAN,
         \A c \in InFlight(calls') : c \in InFlight(calls) \/ EventCallFits(c, log),
         eventsStale' \/ ScreenIsCurrent(page', calls', log)
  PROVE  AuditInv'
BY DEF AuditInv, auditRows

\* What the screen says of the table.
SameScreen ==
  /\ page'.filters = page.filters /\ page'.currentPage = page.currentPage
  /\ page'.events = page.events /\ page'.totalCount = page.totalCount

LEMMA ScreenKept ==
  ASSUME AuditInv, UNCHANGED <<auditRows, calls, eventsStale>>, page' \in EventPages(log), SameScreen
  PROVE  AuditInv'
<1>1. eventsStale' \/ ScreenIsCurrent(page', calls', log)
  BY DEF AuditInv, ScreenIsCurrent, SameScreen
<1>2. QED BY <1>1, AuditKept DEF AuditInv

-----------------------------------------------------------------------------
(* Steps of the server.                                                    *)

LEMMA AnsweredEventCall ==
  ASSUME NEW c \in EventCalls, NEW a \in Replies(Listings \cup ChainVerdicts)
  PROVE  /\ Answered(c, a) \in EventCalls /\ Answered(c, a).op = c.op /\ Answered(c, a).by = c.by
         /\ Answered(c, a).arg = c.arg
         /\ Answered(c, a).stage = "served" /\ Answered(c, a).answer = a
<1>1. Answered(c, a) \in EventCalls
  BY DEF Answered, EventCalls, CallSet, Stages
<1>2. QED BY <1>1 DEF Answered, EventCalls, CallSet

LEMMA AuditServed ==
  ASSUME AuditInv, NEW i \in DOMAIN calls, NEW a \in Replies(Listings \cup ChainVerdicts),
         calls' = Served(i, a),
         UNCHANGED <<page, auditRows, eventsStale>>,
         EventCallFits(Answered(calls[i], a), log), AnswerIsCurrent(Answered(calls[i], a), log)
  PROVE  AuditInv'
<1> DEFINE c == Answered(calls[i], a)
<1>1. calls' = Changed(calls, i, c) /\ c \in EventCalls /\ c.op = calls[i].op /\ c.arg = calls[i].arg
  <2>1. calls[i] \in EventCalls BY EventCallTypes
  <2>2. c \in EventCalls /\ c.op = calls[i].op /\ c.by = calls[i].by /\ c.arg = calls[i].arg
    BY <2>1, AnsweredEventCall
  <2>3. calls[i].by # "nobody"
    <3>1. c.by # "nobody" BY DEF EventCallFits
    <3>2. QED BY <2>2, <3>1
  <2>4. calls' = Changed(calls, i, c)
    BY <2>3 DEF Served, Answered, Changed
  <2>5. QED BY <2>2, <2>4
<1>2. /\ calls' \in Seq(EventCalls) /\ InFlight(calls') \subseteq InFlight(calls) \cup {c}
      /\ c \in InFlight(calls') /\ \A k \in DOMAIN calls \ {i} : calls[k] \in InFlight(calls')
  BY <1>1, ChangedCalls DEF AuditInv
<1>3. ASSUME ScreenIsCurrent(page, calls, log) PROVE ScreenIsCurrent(page, calls', log)
  <2>1. ASSUME NEW k, IsLast(calls', "getAuditEvents", k)
        PROVE  calls'[k].arg = [filter |-> page.filters, page |-> page.currentPage]
    <3>1. IsLast(calls, "getAuditEvents", k) /\ calls'[k].arg = calls[k].arg
      BY <1>1, <2>1, LastChanged DEF AuditInv
    <3>2. QED BY <1>3, <3>1 DEF ScreenIsCurrent
  <2>2. \A d \in InFlight(calls') : AnswerIsCurrent(d, log)
    BY <1>2, <1>3 DEF ScreenIsCurrent
  <2>3. (\A d \in InFlight(calls') : d.op # "getAuditEvents") =>
          \A d \in InFlight(calls) : d.op # "getAuditEvents"
    BY <1>1, <1>2 DEF InFlight
  <2>4. QED BY <1>3, <2>1, <2>2, <2>3 DEF ScreenIsCurrent
<1>4. QED BY <1>2, <1>3, AuditKept DEF AuditInv

LEMMA ServeEventsStep ==
  ASSUME AuditInv, NEW i \in DOMAIN calls, ServeEvents(i)
  PROVE  AuditInv'
<1> DEFINE q == calls[i].arg
           v == [items |-> EventsIn(log, q.filter, q.page), total |-> TotalIn(log, q.filter)]
<1>1. calls[i].op = "getAuditEvents" /\ q \in Queries
  BY EventCallTypes DEF ServeEvents
<1>2. /\ EventsIn(log, q.filter, q.page) \subseteq DOMAIN log /\ TotalIn(log, q.filter) \in 0..Len(log)
  BY ListingTypes DEF AuditInv
<1>3. DOMAIN log \subseteq Nat /\ Len(log) \in Nat BY DEF AuditInv
<1>4. v \in Listings BY <1>2, <1>3 DEF Listings
<1>5. PICK a \in Replies(Listings \cup ChainVerdicts) : a = Ok(v) BY <1>4, ReplyTypes
<1>6. a.ok /\ a.value = v BY <1>5 DEF Ok
<1>7. calls' = Served(i, a)
  BY <1>5, ServerAnswers DEF ServeEvents, TotalIn
<1>8. EventCallFits(Answered(calls[i], a), log) /\ AnswerIsCurrent(Answered(calls[i], a), log)
  <2>1. calls[i] \in EventCalls /\ calls[i].by # "nobody"
    BY EventCallTypes DEF EventCallFits
  <2> DEFINE c == Answered(calls[i], a)
  <2>2. c.op = "getAuditEvents" /\ c.by # "nobody" /\ c.arg = q /\ c.answer = a
    BY <1>1, <2>1, AnsweredEventCall
  <2> HIDE DEF c
  <2>3. EventCallFits(c, log) /\ AnswerIsCurrent(c, log)
    BY <1>2, <1>6, <2>2 DEF EventCallFits, AnswerIsCurrent
  <2>4. QED BY <2>3 DEF c
<1>9. QED BY <1>1, <1>7, <1>8, AuditServed DEF ServeEvents

LEMMA ServeVerificationStep ==
  ASSUME AuditInv, NEW i \in DOMAIN calls, ServeVerification(i)
  PROVE  AuditInv'
<1>1. calls[i].op = "verifyAuditChain" BY DEF ServeVerification
<1>2. PICK verdict \in ChainVerdicts : calls' = Served(i, Ok(verdict))
  BY DEF ServeVerification, ChainVerdicts
<1>3. PICK a \in Replies(Listings \cup ChainVerdicts) : a = Ok(verdict) BY ReplyTypes
<1>4. a.value = verdict BY <1>3 DEF Ok
<1>5. EventCallFits(Answered(calls[i], a), log) /\ AnswerIsCurrent(Answered(calls[i], a), log)
  <2>1. calls[i] \in EventCalls /\ calls[i].by # "nobody"
    BY EventCallTypes DEF EventCallFits
  <2> DEFINE c == Answered(calls[i], a)
  <2>2. c.op = "verifyAuditChain" /\ c.by # "nobody" /\ c.answer = a
    BY <1>1, <2>1, AnsweredEventCall
  <2> HIDE DEF c
  <2>3. EventCallFits(c, log) /\ AnswerIsCurrent(c, log)
    BY <1>4, <2>2 DEF EventCallFits, AnswerIsCurrent
  <2>4. QED BY <2>3 DEF c
<1>6. QED BY <1>2, <1>3, <1>5, AuditServed DEF ServeVerification

LEMMA EventRecordedStep ==
  ASSUME AuditInv, RecordEvent
  PROVE  AuditInv'
<1>1. PICK d \in Decisions : log' = Append(log, d) /\ Len(log) < MaxEvents
  BY DEF RecordEvent
<1>2. /\ log' \in Seq(Decisions) /\ Len(log') = Len(log) + 1 /\ Len(log) \in Nat
      /\ DOMAIN log \subseteq DOMAIN log' /\ 0..Len(log) \subseteq 0..Len(log')
  BY <1>1 DEF AuditInv
<1>3. Len(log') <= MaxEvents
  BY <1>1, <1>2, MaxEventsAssumption
<1>4. page' = page /\ calls' = calls /\ eventsStale' = TRUE /\ intact' = intact
  BY DEF RecordEvent
<1>5. page \in EventPages(log')
  BY <1>2 DEF AuditInv, EventPages
<1>6. \A c \in InFlight(calls) : EventCallFits(c, log')
  BY <1>2 DEF AuditInv, EventCallFits
<1>7. QED BY <1>2, <1>3, <1>4, <1>5, <1>6 DEF AuditInv

LEMMA TamperStep ==
  ASSUME AuditInv, Tamper
  PROVE  AuditInv'
BY DEF AuditInv, Tamper

-----------------------------------------------------------------------------
(* Steps of the page.                                                      *)

LEMMA FetchKeeps ==
  ASSUME AuditInv, NEW f \in Filters, NEW p \in PageNumbers, Fetch(f, p)
  PROVE  AuditInv'
<1> DEFINE c == FetchEvents(f, p)
<1>1. /\ c \in EventCalls /\ EventCallFits(c, log) /\ AnswerIsCurrent(c, log)
      /\ c.op = "getAuditEvents" /\ c.arg = [filter |-> f, page |-> p]
  BY FetchRequest
<1> HIDE DEF c
<1>2. calls' = Sent(calls, c) /\ UNCHANGED auditRows
  BY DEF Fetch, c, Sent
<1>3. calls' \in Seq(EventCalls) /\ InFlight(calls') = InFlight(calls) \cup {c}
  BY <1>1, <1>2, SentCalls DEF AuditInv, Sent
<1>4. page' \in EventPages(log) /\ page'.filters = f /\ page'.currentPage = p
  BY DEF Fetch, AuditInv, EventPages
<1>5. eventsStale' = (eventsStale /\ CallsOf("getAuditEvents") # {})
  BY DEF Fetch
<1>6. ASSUME ~eventsStale' PROVE ScreenIsCurrent(page', calls', log)
  <2>1. ASSUME NEW k, IsLast(calls', "getAuditEvents", k) PROVE calls'[k].arg = c.arg
    BY <1>1, <1>2, <2>1, LastSent DEF AuditInv
  <2>2. \A d \in InFlight(calls) : AnswerIsCurrent(d, log)
    <3>1. CASE ~eventsStale BY <3>1 DEF AuditInv, ScreenIsCurrent
    <3>2. CASE CallsOf("getAuditEvents") = {}
      BY <3>2 DEF CallsOf, InFlight, AnswerIsCurrent
    <3>3. QED BY <1>5, <1>6, <3>1, <3>2 DEF AuditInv
  <2>3. QED BY <1>1, <1>3, <1>4, <2>1, <2>2 DEF ScreenIsCurrent
<1>7. eventsStale' \in BOOLEAN BY <1>5
<1>8. QED BY <1>1, <1>2, <1>3, <1>4, <1>6, <1>7, AuditKept

(* There are no more pages than events.                                    *)
LEMMA PagesNumbered ==
  ASSUME AuditInv, page.currentPage < TotalPages
  PROVE  page.currentPage + 1 \in PageNumbers
<1>1. page.totalCount \in 0..Len(log) /\ page.currentPage \in PageNumbers /\ Len(log) \in Nat
  BY DEF AuditInv, EventPages
<1>2. CASE page.totalCount = 0
  BY <1>1, <1>2, MaxEventsAssumption DEF TotalPages, PageNumbers
<1>3. CASE page.totalCount # 0
  <2> DEFINE t == page.totalCount
             n == (t + PageSize - 1) \div PageSize
  <2>1. TotalPages = n BY <1>3 DEF TotalPages
  <2>2. t \in Nat /\ t >= 1 /\ PageSize \in Nat /\ PageSize >= 1 /\ t <= MaxEvents
    BY <1>1, <1>3, PageSizeAssumption, MaxEventsAssumption DEF AuditInv
  <2>3. n <= t
    BY <2>2
  <2>4. QED BY <1>1, <2>1, <2>2, <2>3, MaxEventsAssumption DEF PageNumbers
<1>4. QED BY <1>2, <1>3

LEMMA PagingSteps ==
  ASSUME AuditInv, ChangeAuditFilter \/ PreviousPage \/ NextPage
  PROVE  AuditInv'
<1>1. page.filters \in Filters /\ page.currentPage \in PageNumbers /\ 1 \in PageNumbers
  BY DEF AuditInv, EventPages, PageNumbers
<1>2. CASE ChangeAuditFilter
  BY <1>1, <1>2, FetchKeeps DEF ChangeAuditFilter
<1>3. CASE PreviousPage
  <2>1. page.currentPage - 1 \in PageNumbers
    BY <1>1, <1>3, MaxEventsAssumption DEF PreviousPage, PageNumbers
  <2>2. QED BY <1>1, <1>3, <2>1, FetchKeeps DEF PreviousPage
<1>4. CASE NextPage
  BY <1>1, <1>4, PagesNumbered, FetchKeeps DEF NextPage
<1>5. QED BY <1>2, <1>3, <1>4

LEMMA RunVerificationStep ==
  ASSUME AuditInv, RunVerification
  PROVE  AuditInv'
<1> DEFINE c == Request("verifyAuditChain", [filter |-> AnyDecision, page |-> 1], "handler")
<1>1. /\ c \in EventCalls /\ EventCallFits(c, log) /\ AnswerIsCurrent(c, log)
      /\ c.op = "verifyAuditChain"
  <2>1. [filter |-> AnyDecision, page |-> 1] \in Queries BY DEF Queries, Filters, PageNumbers
  <2>2. QED BY <2>1, EventRequest DEF Callers
<1> HIDE DEF c
<1>2. calls' = Sent(calls, c) /\ UNCHANGED <<auditRows, eventsStale>>
  BY DEF RunVerification, c, Sent
<1>3. calls' \in Seq(EventCalls) /\ InFlight(calls') = InFlight(calls) \cup {c}
  BY <1>1, <1>2, SentCalls DEF AuditInv, Sent
<1>4. page' \in EventPages(log) /\ SameScreen
  BY DEF RunVerification, AuditInv, EventPages, SameScreen
<1>5. ASSUME ~eventsStale PROVE ScreenIsCurrent(page', calls', log)
  <2>1. ASSUME NEW k, IsLast(calls', "getAuditEvents", k)
        PROVE  calls'[k].arg = [filter |-> page.filters, page |-> page.currentPage]
    <3>1. IsLast(calls, "getAuditEvents", k) /\ calls'[k] = calls[k]
      BY <1>1, <1>2, <2>1, LastSent DEF AuditInv
    <3>2. QED BY <1>5, <3>1 DEF AuditInv, ScreenIsCurrent
  <2>2. QED BY <1>1, <1>3, <1>4, <1>5, <2>1 DEF AuditInv, ScreenIsCurrent, SameScreen
<1>6. QED BY <1>1, <1>2, <1>3, <1>4, <1>5, AuditKept DEF AuditInv

LEMMA InspectSteps ==
  ASSUME AuditInv, InspectEvent \/ CloseEvent
  PROVE  AuditInv'
<1>1. page' \in EventPages(log) /\ SameScreen
  BY DEF InspectEvent, CloseEvent, AuditInv, EventPages, SameScreen
<1>2. UNCHANGED <<auditRows, calls, eventsStale>>
  BY DEF InspectEvent, CloseEvent
<1>3. QED BY <1>1, <1>2, ScreenKept

(* The table is shown. When it is current, the answer belongs to the       *)
(* oldest fetch, and if that was the only one, to the newest.              *)
LEMMA EventsAnsweredStep ==
  ASSUME AuditInv, NEW i \in DOMAIN calls, NEW a \in Replies(Listings \cup ChainVerdicts),
         EventsAnswered(i, a, Without(calls, i)),
         a.ok => a = calls[i].answer /\ calls[i].stage = "served"
  PROVE  AuditInv'
<1>1. /\ calls[i].op = "getAuditEvents" /\ calls' = Without(calls, i) /\ UNCHANGED auditRows
      /\ eventsStale' = (eventsStale \/ ~a.ok \/ EventsOvertake(i))
  BY DEF EventsAnswered
<1>2. calls' \in Seq(EventCalls) /\ InFlight(calls') \subseteq InFlight(calls)
  BY <1>1, HeardCalls DEF AuditInv
<1>3. a.ok => a.value.items \subseteq DOMAIN log /\ a.value.total \in 0..Len(log)
  BY <1>1, EventCallTypes DEF EventCallFits
<1>4. page' \in EventPages(log)
  BY <1>3 DEF EventsAnswered, AuditInv, EventPages
<1>5. /\ page'.filters = page.filters /\ page'.currentPage = page.currentPage
      /\ a.ok => page'.events = a.value.items /\ page'.totalCount = a.value.total
  BY DEF EventsAnswered, AuditInv, EventPages
<1>6. ASSUME ~eventsStale' PROVE ScreenIsCurrent(page', calls', log)
  <2>1. ~eventsStale /\ a.ok /\ ~EventsOvertake(i) /\ ScreenIsCurrent(page, calls, log)
    BY <1>1, <1>6, ReplyTypes DEF AuditInv
  <2>2. ASSUME NEW k, IsLast(calls', "getAuditEvents", k)
        PROVE  calls'[k].arg = [filter |-> page.filters, page |-> page.currentPage]
    <3>1. /\ Before(i, k) \in DOMAIN calls /\ calls[Before(i, k)].op = "getAuditEvents"
          /\ calls'[k] = calls[Before(i, k)]
          /\ IsLast(calls, "getAuditEvents", Before(i, k)) \/ Before(i, k) < i
      BY <1>1, <2>2, LastHeard DEF AuditInv
    <3>2. ~(Before(i, k) < i)
      BY <2>1, <3>1 DEF EventsOvertake, CallsOf
    <3>3. QED BY <2>1, <3>1, <3>2 DEF ScreenIsCurrent
  <2>3. ASSUME \A c \in InFlight(calls') : c.op # "getAuditEvents"
        PROVE  /\ a.value.items = EventsIn(log, page.filters, page.currentPage)
               /\ a.value.total = TotalIn(log, page.filters)
    <3>1. IsLast(calls, "getAuditEvents", i)
      BY <1>1, <2>3, LastOne DEF AuditInv
    <3>2. calls[i].arg = [filter |-> page.filters, page |-> page.currentPage]
      BY <2>1, <3>1 DEF ScreenIsCurrent
    <3>3. AnswerIsCurrent(calls[i], log)
      BY <2>1, EventCallTypes DEF ScreenIsCurrent
    <3>4. QED BY <1>1, <2>1, <3>2, <3>3 DEF AnswerIsCurrent
  <2>4. \A c \in InFlight(calls') : AnswerIsCurrent(c, log)
    BY <1>2, <2>1 DEF ScreenIsCurrent
  <2>5. QED BY <1>5, <2>1, <2>2, <2>3, <2>4 DEF ScreenIsCurrent
<1>7. eventsStale' \in BOOLEAN
  BY <1>1, ReplyTypes DEF AuditInv, EventsOvertake
<1>8. QED BY <1>1, <1>2, <1>4, <1>6, <1>7, AuditKept

LEMMA VerificationAnsweredStep ==
  ASSUME AuditInv, NEW i \in DOMAIN calls, NEW a \in Replies(Listings \cup ChainVerdicts),
         VerificationAnswered(i, a, Without(calls, i)), a.ok => a = calls[i].answer
  PROVE  AuditInv'
<1>1. /\ calls[i].op = "verifyAuditChain" /\ calls' = Without(calls, i)
      /\ UNCHANGED <<auditRows, eventsStale>>
  BY DEF VerificationAnswered
<1>2. /\ calls' \in Seq(EventCalls) /\ InFlight(calls') \subseteq InFlight(calls)
      /\ \A k \in DOMAIN calls \ {i} : calls[k] \in InFlight(calls')
  BY <1>1, HeardCalls DEF AuditInv
<1>3. a.ok => a.value \in ChainVerdicts
  BY <1>1, EventCallTypes DEF EventCallFits
<1>4. page' \in EventPages(log) /\ SameScreen
  BY <1>3 DEF VerificationAnswered, AuditInv, EventPages, SameScreen
<1>5. ASSUME ~eventsStale PROVE ScreenIsCurrent(page', calls', log)
  <2>1. ScreenIsCurrent(page, calls, log) BY <1>5 DEF AuditInv
  <2>2. ASSUME NEW k, IsLast(calls', "getAuditEvents", k)
        PROVE  calls'[k].arg = [filter |-> page.filters, page |-> page.currentPage]
    <3>1. /\ calls'[k] = calls[Before(i, k)]
          /\ IsLast(calls, "getAuditEvents", Before(i, k))
      BY <1>1, <2>2, LastHeard DEF AuditInv
    <3>2. QED BY <2>1, <3>1 DEF ScreenIsCurrent
  <2>3. \A c \in InFlight(calls') : AnswerIsCurrent(c, log)
    BY <1>2, <2>1 DEF ScreenIsCurrent
  <2>4. (\A c \in InFlight(calls') : c.op # "getAuditEvents") =>
          \A c \in InFlight(calls) : c.op # "getAuditEvents"
    BY <1>1, <1>2 DEF InFlight
  <2>5. QED BY <1>4, <2>1, <2>2, <2>3, <2>4 DEF ScreenIsCurrent, SameScreen
<1>6. QED BY <1>1, <1>2, <1>4, <1>5, AuditKept DEF AuditInv

LEMMA AuditAnswerStep ==
  ASSUME AuditInv, NEW i \in DOMAIN calls, HearAudit(i) \/ GiveUpAudit(i)
  PROVE  AuditInv'
<1>1. /\ calls[i].answer \in Replies(Listings \cup ChainVerdicts)
      /\ NoResponse \in Replies(Listings \cup ChainVerdicts) /\ ~NoResponse.ok
  BY EventCallTypes, ReplyTypes
<1>2. Heard(i) = Without(calls, i) /\ GivenUp(i) = Without(calls, i)
  BY NoCommands DEF Heard
<1>3. CASE HearAudit(i)
  BY <1>1, <1>2, <1>3, EventsAnsweredStep, VerificationAnsweredStep DEF HearAudit
<1>4. CASE GiveUpAudit(i)
  BY <1>1, <1>2, <1>4, EventsAnsweredStep, VerificationAnsweredStep DEF GiveUpAudit
<1>5. QED BY <1>3, <1>4

AuditStarts ==
  /\ calls = <<FetchEvents(AnyDecision, 1)>> /\ page = AuditMounted
  /\ log \in Seq(Decisions) /\ Len(log) <= MaxEvents
  /\ intact \in BOOLEAN /\ eventsStale = FALSE

LEMMA AuditFirstFetch == AuditStarts => AuditInv
<1> SUFFICES ASSUME AuditStarts PROVE AuditInv
  OBVIOUS
<1> USE DEF AuditStarts
<1> DEFINE c == FetchEvents(AnyDecision, 1)
<1>1. /\ c \in EventCalls /\ EventCallFits(c, log) /\ AnswerIsCurrent(c, log)
      /\ c.op = "getAuditEvents" /\ c.arg = [filter |-> AnyDecision, page |-> 1]
  BY FetchRequest DEF Filters, PageNumbers
<1> HIDE DEF c
<1>2. calls = <<c>> BY DEF c
<1>3. /\ calls \in Seq(EventCalls) /\ InFlight(calls) = {c}
      /\ \A k : IsLast(calls, "getAuditEvents", k) => calls[k] = c
  BY <1>1, <1>2 DEF InFlight, IsLast
<1>4. page \in EventPages(log)
  <2>1. 0 \in 0..Len(log) BY DEF AuditInv
  <2>2. QED BY <2>1 DEF AuditMounted, EventPages, PageNumbers, Filters
<1>5. page.filters = AnyDecision /\ page.currentPage = 1
  BY DEF AuditMounted
<1>6. ScreenIsCurrent(page, calls, log)
  BY <1>1, <1>3, <1>5 DEF ScreenIsCurrent
<1>7. QED BY <1>1, <1>3, <1>4, <1>6 DEF AuditInv

LEMMA AuditFirstFetchAfterAStep == AuditStarts' => AuditInv'
BY AuditFirstFetch, PTL

LEMMA AuditReturnStep ==
  ASSUME AuditInv, ReturnToAudit
  PROVE  AuditInv'
<1>1. PICK rest \in Abandoned :
        /\ calls' = Append(rest, FetchEvents(AnyDecision, 1)) /\ page' = AuditMounted
        /\ eventsStale' = FALSE /\ UNCHANGED auditRows
  BY DEF ReturnToAudit, Remount
<1>2. calls' = <<FetchEvents(AnyDecision, 1)>>
  <2>1. rest = <<>> BY NoCommands
  <2>2. QED BY <1>1, <2>1
<1>3. QED BY <1>1, <1>2, AuditFirstFetchAfterAStep DEF AuditInv, auditRows, AuditStarts

LEMMA AuditMountInv ==
  ASSUME page = AuditMounted, calls = <<FetchEvents(AnyDecision, 1)>>,
         AuditServerInit \/ (log = <<>> /\ intact = TRUE /\ eventsStale = FALSE)
  PROVE  AuditInv
<1>1. log \in Seq(Decisions) /\ Len(log) <= MaxEvents
  <2>1. CASE log = <<>> BY <2>1, MaxEventsAssumption
  <2>2. CASE AuditServerInit
    <3>1. PICK n \in 0..MaxEvents : log \in [1..n -> Decisions] BY <2>2 DEF AuditServerInit
    <3>2. log \in Seq(Decisions) /\ Len(log) = n BY <3>1
    <3>3. QED BY <3>1, <3>2, MaxEventsAssumption
  <2>3. QED BY <2>1, <2>2
<1>2. QED BY <1>1, AuditFirstFetch DEF AuditServerInit, AuditStarts

LEMMA AuditNextInv ==
  ASSUME AuditInv, AuditNext
  PROVE  AuditInv'
<1>1. CASE RecordEvent BY <1>1, EventRecordedStep
<1>2. CASE Tamper BY <1>2, TamperStep
<1>3. CASE ReturnToAudit BY <1>3, AuditReturnStep
<1>4. CASE ChangeAuditFilter \/ PreviousPage \/ NextPage BY <1>4, PagingSteps
<1>5. CASE RunVerification BY <1>5, RunVerificationStep
<1>6. CASE InspectEvent \/ CloseEvent BY <1>6, InspectSteps
<1>7. ASSUME NEW i \in DOMAIN calls,
             ServeEvents(i) \/ ServeVerification(i) \/ HearAudit(i) \/ GiveUpAudit(i)
      PROVE  AuditInv'
  BY <1>7, ServeEventsStep, ServeVerificationStep, AuditAnswerStep
<1>8. QED BY <1>1, <1>2, <1>3, <1>4, <1>5, <1>6, <1>7 DEF AuditNext

LEMMA AuditInvImplies ==
  ASSUME AuditInv
  PROVE  EventsAreExplained /\ AuditTypeOK
<1>1. AuditTypeOK
  BY DEF AuditInv, EventPages, PageNumbers, ChainVerdicts, AuditTypeOK
<1>2. ASSUME CallsOf("getAuditEvents") = {}, ~eventsStale
      PROVE  /\ page.events = EventsOf(page.filters, page.currentPage)
             /\ page.totalCount = Cardinality(Matching(page.filters))
  <2>1. \A c \in InFlight(calls) : c.op # "getAuditEvents"
    BY <1>2 DEF CallsOf, InFlight
  <2>2. QED BY <1>2, <2>1, ServerAnswers DEF AuditInv, ScreenIsCurrent, TotalIn
<1>3. EventsAreExplained BY <1>2 DEF EventsAreExplained
<1>4. QED BY <1>1, <1>3

-----------------------------------------------------------------------------
(* The test harness.                                                       *)

Asked == [id : RequestIds, payload : Payloads, simulate : BOOLEAN]
Told == [decision : Verdicts, authorization_id : BOOLEAN]
HarnessCalls ==
  CallSet({"getAgents", "authorizeRequest"}, Asked \cup {NoPayload}, Replies(Told \cup {"agents"}))

Results ==
  [id : RequestIds \cup {0}, payload : Payloads \cup {NoPayload}, simulate : BOOLEAN,
   decision : Verdicts \cup {"none"}, authorization_id : BOOLEAN]
HarnessPages ==
  [loadingAgents : BOOLEAN, agentSelected : BOOLEAN, requestId : RequestIds,
   isSubmitting : BOOLEAN, result : Results]
Recorded == [RequestIds -> [payload : Payloads, decision : Verdicts] \cup {Undecided}]

\* What is shown of a request sent for real, and what the answer to such a
\* request says that the page has not heard yet, is recorded in the table.
ShownIsRecorded(shown, table) ==
  shown # NoResult /\ ~shown.simulate =>
    /\ shown.id \in RequestIds /\ shown.payload \in Payloads
    /\ table[shown.id] = Decision(shown.payload, shown.decision)

ToldIsRecorded(c, table) ==
  /\ c.op = "authorizeRequest" => c.arg \in Asked /\ (c.answer.ok => c.answer.value \in Told)
  /\ c.stage = "evaluated" => c.op = "authorizeRequest" /\ c.answer.ok
  /\ c.op = "authorizeRequest" /\ c.stage = "served" /\ c.answer.ok /\ ~c.arg.simulate =>
       table[c.arg.id] = Decision(c.arg.payload, c.answer.value.decision)

HarnessInv ==
  /\ page \in HarnessPages /\ calls \in Seq(HarnessCalls)
  /\ decided \in Recorded /\ requestCounter \in 2..(MaxRequestId + 1)
  /\ ShownIsRecorded(page.result, decided)
  /\ \A c \in InFlight(calls) : ToldIsRecorded(c, decided)

\* A decision that is recorded is not recorded over.
KeepsDecisions(table) ==
  \A id \in RequestIds : decided[id] # Undecided => table[id] = decided[id]

LEMMA HarnessCallTypes ==
  ASSUME HarnessInv, NEW i \in DOMAIN calls
  PROVE  /\ calls[i] \in HarnessCalls /\ calls[i] \in InFlight(calls)
         /\ calls[i].answer \in Replies(Told \cup {"agents"})
         /\ ToldIsRecorded(calls[i], decided)
<1>1. calls[i] \in HarnessCalls BY DEF HarnessInv
<1>2. QED BY <1>1 DEF HarnessInv, HarnessCalls, CallSet, InFlight

LEMMA DecidedIsNotUndecided ==
  ASSUME NEW p \in Payloads, NEW verdict
  PROVE  Decision(p, verdict) # Undecided
BY NoPayloadAssumption DEF Decision, Undecided

LEMMA HarnessOrphan ==
  ASSUME NEW c \in HarnessCalls, NEW table, ToldIsRecorded(c, table)
  PROVE  ToldIsRecorded(Orphaned(c), table)
<1>1. /\ Orphaned(c).op = c.op /\ Orphaned(c).arg = c.arg /\ Orphaned(c).stage = c.stage
      /\ Orphaned(c).answer = c.answer
  BY DEF Orphaned, HarnessCalls, CallSet
<1>2. QED BY <1>1 DEF ToldIsRecorded

(* What a step has to keep.                                                *)
LEMMA HarnessKept ==
  ASSUME HarnessInv, page' \in HarnessPages, calls' \in Seq(HarnessCalls),
         decided' \in Recorded, requestCounter' \in 2..(MaxRequestId + 1), KeepsDecisions(decided'),
         page'.result = page.result \/ ShownIsRecorded(page'.result, decided'),
         \A c \in InFlight(calls') :
           \/ c \in InFlight(calls) \/ \E d \in InFlight(calls) : c = Orphaned(d)
           \/ ToldIsRecorded(c, decided')
  PROVE  HarnessInv'
<1>1. ASSUME NEW c \in InFlight(calls)
      PROVE  ToldIsRecorded(c, decided') /\ ToldIsRecorded(Orphaned(c), decided')
  <2>1. c \in HarnessCalls /\ ToldIsRecorded(c, decided) BY DEF HarnessInv, InFlight
  <2>2. ToldIsRecorded(c, decided')
    <3>1. SUFFICES ASSUME c.op = "authorizeRequest", c.stage = "served", c.answer.ok, ~c.arg.simulate
                   PROVE  decided'[c.arg.id] = Decision(c.arg.payload, c.answer.value.decision)
      BY <2>1 DEF ToldIsRecorded
    <3>2. c.arg.id \in RequestIds /\ c.arg.payload \in Payloads
      BY <2>1, <3>1 DEF ToldIsRecorded, Asked
    <3>3. decided[c.arg.id] = Decision(c.arg.payload, c.answer.value.decision)
      BY <2>1, <3>1 DEF ToldIsRecorded
    <3>4. QED BY <3>2, <3>3, DecidedIsNotUndecided DEF KeepsDecisions
  <2>3. QED BY <2>1, <2>2, HarnessOrphan
<1>2. ShownIsRecorded(page.result, decided')
  BY DecidedIsNotUndecided DEF HarnessInv, ShownIsRecorded, KeepsDecisions
<1>3. QED BY <1>1, <1>2 DEF HarnessInv

LEMMA HarnessRequest ==
  ASSUME NEW op \in {"getAgents", "authorizeRequest"}, NEW arg \in Asked \cup {NoPayload},
         NEW by \in Callers, op = "authorizeRequest" => arg \in Asked, NEW table
  PROVE  /\ Request(op, arg, by) \in HarnessCalls
         /\ ToldIsRecorded(Request(op, arg, by), table)
<1>1. /\ Request(op, arg, by) \in HarnessCalls
      /\ Request(op, arg, by).op = op /\ Request(op, arg, by).arg = arg
      /\ Request(op, arg, by).stage = "sent" /\ Request(op, arg, by).answer = NoResponse
  BY RequestType DEF HarnessCalls
<1>2. ~NoResponse.ok BY ReplyTypes
<1>3. QED BY <1>1, <1>2 DEF ToldIsRecorded

-----------------------------------------------------------------------------
(* Steps of the server.                                                    *)

LEMMA HarnessAnswered ==
  ASSUME NEW c \in HarnessCalls, NEW a \in Replies(Told \cup {"agents"})
  PROVE  /\ Answered(c, a) \in HarnessCalls /\ Answered(c, a).op = c.op
         /\ Answered(c, a).arg = c.arg
         /\ Answered(c, a).stage = "served" /\ Answered(c, a).answer = a
<1>1. Answered(c, a) \in HarnessCalls
  BY DEF Answered, HarnessCalls, CallSet, Stages
<1>2. QED BY <1>1 DEF Answered, HarnessCalls, CallSet

LEMMA HarnessServed ==
  ASSUME HarnessInv, NEW i \in DOMAIN calls, NEW a \in Replies(Told \cup {"agents"}),
         calls' = Served(i, a), UNCHANGED <<page, requestCounter>>,
         decided' \in Recorded, KeepsDecisions(decided'),
         ToldIsRecorded(Answered(calls[i], a), decided')
  PROVE  HarnessInv'
<1>1. /\ calls' \in Seq(HarnessCalls)
      /\ InFlight(calls') \subseteq InFlight(calls) \cup {Answered(calls[i], a)}
  BY ServedCalls DEF HarnessInv, HarnessCalls
<1>2. QED BY <1>1, HarnessKept DEF HarnessInv

LEMMA SameDecisions == KeepsDecisions(decided)
BY DEF KeepsDecisions

(* A refused or failed request says nothing about the table.               *)
LEMMA HarnessRefused ==
  ASSUME HarnessInv, NEW i \in DOMAIN calls, NEW a \in Replies(Told \cup {"agents"}), ~a.ok,
         calls' = Served(i, a), UNCHANGED <<page, decided, requestCounter>>
  PROVE  HarnessInv'
<1>1. ToldIsRecorded(Answered(calls[i], a), decided)
  BY HarnessCallTypes, HarnessAnswered DEF ToldIsRecorded
<1>2. QED BY <1>1, SameDecisions, HarnessServed DEF HarnessInv

LEMMA ServeAgentOptionsStep ==
  ASSUME HarnessInv, NEW i \in DOMAIN calls, ServeAgentOptions(i)
  PROVE  HarnessInv'
<1>1. PICK a \in Replies(Told \cup {"agents"}) : a = Ok("agents")
  BY ReplyTypes
<1>2. ToldIsRecorded(Answered(calls[i], a), decided)
  BY HarnessCallTypes, HarnessAnswered DEF ToldIsRecorded, ServeAgentOptions
<1>3. QED BY <1>1, <1>2, SameDecisions, HarnessServed DEF HarnessInv, ServeAgentOptions

LEMMA AnswerFromLogStep ==
  ASSUME HarnessInv, NEW i \in DOMAIN calls, AnswerFromLog(i)
  PROVE  HarnessInv'
<1>1. calls[i].op = "authorizeRequest" /\ calls[i].arg \in Asked
      /\ UNCHANGED <<page, decided, requestCounter>>
  BY HarnessCallTypes DEF AnswerFromLog, Submitted, ToldIsRecorded
<1>2. CASE decided[calls[i].arg.id] = Decision(calls[i].arg.payload, "ALLOW")
  <2> DEFINE v == [decision |-> "ALLOW", authorization_id |-> TRUE]
  <2>1. v \in Told \cup {"agents"} /\ v \in Told BY VerdictsAssumption DEF Told
  <2>2. PICK a \in Replies(Told \cup {"agents"}) : a = Ok(v) BY <2>1, ReplyTypes
  <2>3. a.value = v /\ a.value.decision = "ALLOW" BY <2>2 DEF Ok
  <2>4. calls' = Served(i, a) BY <1>2, <2>2 DEF AnswerFromLog
  <2>5. ToldIsRecorded(Answered(calls[i], a), decided)
    <3> DEFINE c == Answered(calls[i], a)
    <3>1. c.op = "authorizeRequest" /\ c.arg = calls[i].arg /\ c.stage = "served" /\ c.answer = a
      BY <1>1, HarnessCallTypes, HarnessAnswered
    <3> HIDE DEF c
    <3>2. ToldIsRecorded(c, decided)
      BY <1>1, <1>2, <2>1, <2>3, <3>1 DEF ToldIsRecorded
    <3>3. QED BY <3>2 DEF c
  <2>6. QED BY <1>1, <2>4, <2>5, SameDecisions, HarnessServed DEF HarnessInv
<1>3. CASE decided[calls[i].arg.id] # Decision(calls[i].arg.payload, "ALLOW")
  <2>1. PICK a \in Replies(Told \cup {"agents"}) : a = Failed("IDEMPOTENCY_CONFLICT") /\ ~a.ok
    <3>1. /\ Failed("IDEMPOTENCY_CONFLICT") \in Replies(Told \cup {"agents"})
          /\ ~Failed("IDEMPOTENCY_CONFLICT").ok
      BY DEF Replies, Failed, Texts
    <3>2. QED BY <3>1
  <2>2. calls' = Served(i, a) BY <1>3, <2>1 DEF AnswerFromLog
  <2>3. QED BY <1>1, <2>1, <2>2, HarnessRefused
<1>4. QED BY <1>2, <1>3

LEMMA ReachVerdictStep ==
  ASSUME HarnessInv, NEW i \in DOMAIN calls, ReachVerdict(i)
  PROVE  HarnessInv'
<1>1. /\ calls[i].op = "authorizeRequest" /\ calls[i].arg \in Asked /\ calls[i] \in HarnessCalls
      /\ UNCHANGED <<page, decided, requestCounter>>
  BY HarnessCallTypes DEF ReachVerdict, Submitted, ToldIsRecorded
<1>2. CASE calls' = Served(i, ServerError)
  BY <1>1, <1>2, ReplyTypes, HarnessRefused
<1>3. ASSUME NEW v \in Verdicts,
             calls' = [calls EXCEPT ![i].stage = "evaluated",
                         ![i].answer = Ok([decision |-> v, authorization_id |-> v = "ALLOW"])]
      PROVE  HarnessInv'
  <2> DEFINE told == [decision |-> v, authorization_id |-> v = "ALLOW"]
             c == [calls[i] EXCEPT !.stage = "evaluated", !.answer = Ok(told)]
  <2>1. told \in Told BY DEF Told
  <2>2. Ok(told) \in Replies(Told \cup {"agents"}) /\ Ok(told).ok /\ Ok(told).value = told
    BY <2>1, ReplyTypes DEF Ok
  <2>3. c \in HarnessCalls BY <1>1, <2>2 DEF HarnessCalls, CallSet, Stages
  <2>4. /\ c.op = "authorizeRequest" /\ c.arg = calls[i].arg
        /\ c.stage = "evaluated" /\ c.answer = Ok(told)
    BY <1>1 DEF HarnessCalls, CallSet
  <2>5. calls' = Changed(calls, i, c)
    <3>1. calls \in [DOMAIN calls -> HarnessCalls] BY DEF HarnessInv
    <3>2. QED BY <1>1, <1>3, <3>1 DEF Changed
  <2> HIDE DEF c, told
  <2>6. ToldIsRecorded(c, decided)
    BY <1>1, <2>1, <2>2, <2>4 DEF ToldIsRecorded
  <2>7. calls' \in Seq(HarnessCalls) /\ InFlight(calls') \subseteq InFlight(calls) \cup {c}
    BY <2>3, <2>5, ChangedCalls DEF HarnessInv
  <2>8. QED BY <1>1, <2>6, <2>7, SameDecisions, HarnessKept DEF HarnessInv
<1>4. QED BY <1>2, <1>3 DEF ReachVerdict

LEMMA AnswerDryRunStep ==
  ASSUME HarnessInv, NEW i \in DOMAIN calls, AnswerDryRun(i)
  PROVE  HarnessInv'
<1>1. ToldIsRecorded(Answered(calls[i], calls[i].answer), decided)
  BY HarnessCallTypes, HarnessAnswered DEF ToldIsRecorded, AnswerDryRun
<1>2. QED BY <1>1, HarnessCallTypes, SameDecisions, HarnessServed DEF HarnessInv, AnswerDryRun

LEMMA RecordDecisionStep ==
  ASSUME HarnessInv, NEW i \in DOMAIN calls, RecordDecision(i)
  PROVE  HarnessInv'
<1>1. /\ calls[i].op = "authorizeRequest" /\ calls[i].arg \in Asked /\ calls[i].answer.ok
      /\ calls[i].answer.value \in Told /\ UNCHANGED <<page, requestCounter>>
  BY HarnessCallTypes DEF RecordDecision, ToldIsRecorded
<1>2. PICK id \in RequestIds, p \in Payloads, v \in Verdicts :
        id = calls[i].arg.id /\ p = calls[i].arg.payload /\ v = calls[i].answer.value.decision
  BY <1>1 DEF Asked, Told
<1>3. CASE decided[id] = Undecided
  <2>1. decided' = [decided EXCEPT ![id] = Decision(p, v)] /\ calls' = Served(i, calls[i].answer)
    BY <1>2, <1>3 DEF RecordDecision
  <2>2. Decision(p, v) \in [payload : Payloads, decision : Verdicts] BY DEF Decision
  <2>3. decided' \in Recorded /\ decided'[id] = Decision(p, v) /\ KeepsDecisions(decided')
    BY <1>3, <2>1, <2>2 DEF HarnessInv, Recorded, KeepsDecisions
  <2>4. ToldIsRecorded(Answered(calls[i], calls[i].answer), decided')
    BY <1>1, <1>2, <2>3, HarnessCallTypes, HarnessAnswered DEF ToldIsRecorded
  <2>5. QED BY <1>1, <2>1, <2>3, <2>4, HarnessCallTypes, HarnessServed
<1>4. CASE decided[id] # Undecided
  <2>1. calls' = Served(i, ServerError) /\ UNCHANGED <<page, decided, requestCounter>>
    BY <1>2, <1>4 DEF RecordDecision
  <2>2. QED BY <2>1, ReplyTypes, HarnessRefused
<1>5. QED BY <1>3, <1>4

-----------------------------------------------------------------------------
(* Steps of the page.                                                      *)

LEMMA HarnessSend ==
  ASSUME HarnessInv, NEW c \in HarnessCalls, ToldIsRecorded(c, decided), calls' = Append(calls, c),
         page' \in HarnessPages, page'.result \in {page.result, NoResult},
         UNCHANGED <<decided, requestCounter>>
  PROVE  HarnessInv'
<1>1. calls' \in Seq(HarnessCalls) /\ InFlight(calls') = InFlight(calls) \cup {c}
  BY SentCalls DEF HarnessInv
<1>2. ShownIsRecorded(NoResult, decided) BY DEF ShownIsRecorded
<1>3. QED BY <1>1, <1>2, SameDecisions, HarnessKept DEF HarnessInv

LEMMA NoResultType == NoResult \in Results
BY DEF NoResult, Results

LEMMA ForeignAuthorizeStep ==
  ASSUME HarnessInv, ForeignAuthorize
  PROVE  HarnessInv'
<1>1. PICK id \in RequestIds, p \in Payloads :
        calls' = ForeignCall("authorizeRequest", [id |-> id, payload |-> p, simulate |-> FALSE])
  BY DEF ForeignAuthorize
<1>2. [id |-> id, payload |-> p, simulate |-> FALSE] \in Asked BY DEF Asked
<1>3. QED BY <1>1, <1>2, HarnessRequest, HarnessSend DEF ForeignAuthorize, ForeignCall, HarnessInv, Callers

LEMMA EditFormStep ==
  ASSUME HarnessInv, EditForm
  PROVE  HarnessInv'
<1>1. page' \in HarnessPages /\ page'.result = page.result
  BY DEF EditForm, HarnessInv, HarnessPages
<1>2. QED BY <1>1, SameDecisions, HarnessKept DEF EditForm, HarnessInv

LEMMA HandleSubmitStep ==
  ASSUME HarnessInv, HandleSubmit
  PROVE  HarnessInv'
<1>1. page' \in HarnessPages /\ page'.result = NoResult
  BY NoResultType DEF HandleSubmit, HarnessInv, HarnessPages
<1>2. PICK p \in Payloads, mode \in ExecutionModes :
        calls' = Append(calls, Request("authorizeRequest",
                   [id |-> page.requestId, payload |-> p, simulate |-> mode = "SIMULATION"], "handler"))
  BY DEF HandleSubmit
<1>3. [id |-> page.requestId, payload |-> p, simulate |-> mode = "SIMULATION"] \in Asked
  BY DEF Asked, HarnessInv, HarnessPages
<1>4. QED BY <1>1, <1>2, <1>3, HarnessRequest, HarnessSend DEF HandleSubmit, Callers

(* The answer was heard, or the client has given up.                       *)
HarnessGone(i, rest) == rest = GivenUp(i) \/ rest = Heard(i)

LEMMA HarnessForgets ==
  ASSUME HarnessInv, NEW i \in DOMAIN calls, NEW rest, HarnessGone(i, rest)
  PROVE  /\ rest \in Seq(HarnessCalls)
         /\ \A c \in InFlight(rest) :
              c \in InFlight(calls) \/ \E d \in InFlight(calls) : c = Orphaned(d)
<1>1. CASE rest = GivenUp(i)
  BY <1>1, GivenUpCalls, HarnessCallTypes DEF HarnessInv, HarnessCalls
<1>2. CASE rest = Heard(i)
  BY <1>2, HeardCalls DEF HarnessInv, Heard
<1>3. QED BY <1>1, <1>2 DEF HarnessGone

LEMMA AgentsLoadedStep ==
  ASSUME HarnessInv, NEW i \in DOMAIN calls, NEW a \in Replies(Told \cup {"agents"}), NEW rest,
         HarnessGone(i, rest), AgentsLoaded(i, a, rest)
  PROVE  HarnessInv'
<1>1. a.ok \in BOOLEAN BY ReplyTypes
<1>2. page' \in HarnessPages /\ page'.result = page.result
  BY <1>1 DEF AgentsLoaded, HarnessInv, HarnessPages
<1>3. QED BY <1>2, HarnessForgets, SameDecisions, HarnessKept DEF AgentsLoaded, HarnessInv

LEMMA SubmitFailedStep ==
  ASSUME HarnessInv, NEW i \in DOMAIN calls, NEW a, NEW rest,
         HarnessGone(i, rest), SubmitFailed(i, a, rest)
  PROVE  HarnessInv'
<1>1. page' \in HarnessPages /\ page'.result = page.result
  BY DEF SubmitFailed, HarnessInv, HarnessPages
<1>2. QED BY <1>1, HarnessForgets, SameDecisions, HarnessKept DEF SubmitFailed, HarnessInv

LEMMA ResultTypes ==
  ASSUME NEW asked \in Asked, NEW told \in Told
  PROVE  /\ Result(asked, told) \in Results
         /\ Result(asked, told).simulate = asked.simulate
         /\ ~asked.simulate => /\ Result(asked, told).id = asked.id
                               /\ Result(asked, told).payload = asked.payload
                               /\ Result(asked, told).decision = told.decision
BY DEF Result, NoResult, Results, Asked, Told

LEMMA SubmitAnsweredStep ==
  ASSUME HarnessInv, NEW i \in DOMAIN calls, calls[i].stage = "served",
         SubmitAnswered(i, calls[i].answer, Heard(i))
  PROVE  HarnessInv'
<1>1. /\ calls[i].op = "authorizeRequest" /\ calls[i].answer.ok
      /\ requestCounter \in RequestIds /\ requestCounter' = requestCounter + 1
      /\ calls' = Heard(i) /\ UNCHANGED decided
  BY DEF SubmitAnswered
<1>2. /\ calls[i].arg \in Asked /\ calls[i].answer.value \in Told
      /\ ~calls[i].arg.simulate =>
           decided[calls[i].arg.id] = Decision(calls[i].arg.payload, calls[i].answer.value.decision)
  BY <1>1, HarnessCallTypes DEF ToldIsRecorded
<1>3. PICK shown \in Results : shown = Result(calls[i].arg, calls[i].answer.value)
  BY <1>2, ResultTypes
<1>4. page' \in HarnessPages /\ page'.result = shown
  BY <1>1, <1>3 DEF SubmitAnswered, HarnessInv, HarnessPages
<1>5. ShownIsRecorded(shown, decided)
  BY <1>2, <1>3, ResultTypes DEF ShownIsRecorded, Asked
<1>6. requestCounter' \in 2..(MaxRequestId + 1)
  BY <1>1, MaxRequestIdAssumption DEF HarnessInv, RequestIds
<1>7. HarnessGone(i, Heard(i)) BY DEF HarnessGone
<1>8. QED BY <1>1, <1>4, <1>5, <1>6, <1>7, HarnessForgets, SameDecisions, HarnessKept DEF HarnessInv

LEMMA HarnessAnswerStep ==
  ASSUME HarnessInv, NEW i \in DOMAIN calls, HearSimulator(i) \/ GiveUpSimulator(i)
  PROVE  HarnessInv'
<1>1. /\ calls[i].answer \in Replies(Told \cup {"agents"})
      /\ NoResponse \in Replies(Told \cup {"agents"}) /\ ~NoResponse.ok
  BY HarnessCallTypes, ReplyTypes
<1>2. HarnessGone(i, Heard(i)) /\ HarnessGone(i, GivenUp(i)) BY DEF HarnessGone
<1>3. CASE HearSimulator(i)
  BY <1>1, <1>2, <1>3, AgentsLoadedStep, SubmitFailedStep, SubmitAnsweredStep
  DEF HearSimulator, SubmitEnds
<1>4. CASE GiveUpSimulator(i)
  BY <1>1, <1>2, <1>4, AgentsLoadedStep, SubmitFailedStep DEF GiveUpSimulator, SubmitEnds, SubmitAnswered
<1>5. QED BY <1>3, <1>4

LEMMA HarnessLoseStep ==
  ASSUME HarnessInv, NEW i \in DOMAIN calls, LoseRequest(i), UNCHANGED <<decided, requestCounter>>
  PROVE  HarnessInv'
<1>1. HarnessGone(i, calls') /\ page' = page BY DEF LoseRequest, HarnessGone, Heard
<1>2. QED BY <1>1, HarnessForgets, SameDecisions, HarnessKept DEF HarnessInv

LEMMA MountedHarness ==
  ASSUME NEW id \in RequestIds
  PROVE  /\ SimulatorMounted(id) \in HarnessPages
         /\ \A table : ShownIsRecorded(SimulatorMounted(id).result, table)
BY NoResultType DEF SimulatorMounted, HarnessPages, ShownIsRecorded

LEMMA LoadAgentsRequest ==
  ASSUME NEW table
  PROVE  LoadAgents \in HarnessCalls /\ ToldIsRecorded(LoadAgents, table)
BY HarnessRequest DEF LoadAgents, Callers

LEMMA HarnessReturnStep ==
  ASSUME HarnessInv, ReturnToSimulator
  PROVE  HarnessInv'
<1>1. PICK rest \in Abandoned :
        /\ calls' = Append(rest, LoadAgents) /\ page' = SimulatorMounted(requestCounter)
        /\ requestCounter \in RequestIds /\ requestCounter' = requestCounter + 1 /\ UNCHANGED decided
  BY DEF ReturnToSimulator, Remount
<1>2. /\ rest \in Seq(HarnessCalls)
      /\ \A c \in InFlight(rest) : \E d \in InFlight(calls) : c = Orphaned(d)
  BY LeftCalls DEF HarnessInv, HarnessCalls
<1>3. calls' \in Seq(HarnessCalls) /\ InFlight(calls') = InFlight(rest) \cup {LoadAgents}
  BY <1>1, <1>2, LoadAgentsRequest, SentCalls
<1>4. requestCounter' \in 2..(MaxRequestId + 1)
  BY <1>1, MaxRequestIdAssumption DEF HarnessInv, RequestIds
<1>5. page' \in HarnessPages /\ ShownIsRecorded(page'.result, decided')
  BY <1>1, MountedHarness
<1>6. \A c \in InFlight(calls') :
        \/ \E d \in InFlight(calls) : c = Orphaned(d)
        \/ ToldIsRecorded(c, decided')
  BY <1>2, <1>3, LoadAgentsRequest
<1>7. QED BY <1>1, <1>3, <1>4, <1>5, <1>6, SameDecisions, HarnessKept DEF HarnessInv

LEMMA SimulatorMountInv ==
  ASSUME page = SimulatorMounted(1), calls = <<LoadAgents>>, requestCounter = 2,
         SimulatorServerInit \/ decided = [id \in RequestIds |-> Undecided]
  PROVE  HarnessInv
<1>1. 1 \in RequestIds BY MaxRequestIdAssumption DEF RequestIds
<1>2. decided \in Recorded
  <2>1. Decision(CHOOSE p \in Payloads : TRUE, "ALLOW") \in [payload : Payloads, decision : Verdicts]
    BY VerdictsAssumption, PayloadsAssumption DEF Decision
  <2>2. QED BY <2>1 DEF SimulatorServerInit, Recorded
<1>3. calls \in Seq(HarnessCalls) /\ InFlight(calls) = {LoadAgents}
  BY LoadAgentsRequest DEF InFlight
<1>4. requestCounter \in 2..(MaxRequestId + 1) BY MaxRequestIdAssumption
<1>5. QED BY <1>1, <1>2, <1>3, <1>4, MountedHarness, LoadAgentsRequest DEF HarnessInv

LEMMA SimulatorNextInv ==
  ASSUME HarnessInv, SimulatorNext
  PROVE  HarnessInv'
<1>1. CASE EditForm BY <1>1, EditFormStep
<1>2. CASE HandleSubmit BY <1>2, HandleSubmitStep
<1>3. CASE ForeignAuthorize BY <1>3, ForeignAuthorizeStep
<1>4. CASE ReturnToSimulator BY <1>4, HarnessReturnStep
<1>5. ASSUME NEW i \in DOMAIN calls, ServeSimulator(i) PROVE HarnessInv'
  BY <1>5, ServeAgentOptionsStep, AnswerFromLogStep, ReachVerdictStep, AnswerDryRunStep,
     RecordDecisionStep DEF ServeSimulator
<1>6. ASSUME NEW i \in DOMAIN calls, HearSimulator(i) \/ GiveUpSimulator(i) PROVE HarnessInv'
  BY <1>6, HarnessAnswerStep
<1>7. ASSUME NEW i \in DOMAIN calls, LoseRequest(i), UNCHANGED <<decided, requestCounter>>
      PROVE  HarnessInv'
  BY <1>7, HarnessLoseStep
<1>8. QED BY <1>1, <1>2, <1>3, <1>4, <1>5, <1>6, <1>7 DEF SimulatorNext

LEMMA HarnessInvImplies ==
  ASSUME HarnessInv
  PROVE  SandboxResultIsRecorded /\ SimulatorTypeOK
BY DEF HarnessInv, SandboxResultIsRecorded, ShownIsRecorded, SimulatorTypeOK, HarnessPages, Results,
       Recorded
=============================================================================

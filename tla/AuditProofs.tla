------------------------------ MODULE AuditProofs ------------------------------
(***************************************************************************)
(* Proofs about the audit log, for every set of handlers, every set of     *)
(* event contents, every Stored and every bound: what is committed is one  *)
(* chain (AuditChain), an untouched log raises no false alarm, and a       *)
(* change of one row is never answered "valid" (AuditVerify, AuditTamper). *)
(***************************************************************************)
EXTENDS AuditTamper, FiniteSetTheorems, WellFoundedInduction, TLAPS

(* The induction: besides the committed tables, the tables as the holder   *)
(* of the head row will commit them form one chain. Only the holder of the *)
(* lock has an open transaction, so the view it extends is never stale.    *)
OpenChained ==
  \A w \in Writers :
    /\ pc[w] = "open" => lock = w
    /\ pc[w] = "open" => Chained(events \cup tx[w].rows, tx[w].head)
    /\ pc[w] = "open" => tx[w].head.exists /\ tx[w].head.seq >= head.seq
    /\ pc[w] = "open" => \A e \in tx[w].rows : e.seq \in head.seq + 1 .. tx[w].head.seq
    /\ lock = w => pc[w] = "open"

HeadStart == ~head.exists => head = NoHead

IInv == TypeOK /\ ChainIntegrity /\ OpenChained /\ HeadStart

-----------------------------------------------------------------------------
(* A row built by NextRow keeps a chain a chain, whatever its content.     *)
LEMMA ChainExtends ==
  ASSUME NEW rows \in SUBSET EventRow, NEW h \in HeadRow, NEW c \in Contents,
         Chained(rows, h)
  PROVE  Chained(rows \cup {NextRow(h, c)}, Advance(h, NextRow(h, c)))
<1> DEFINE r == NextRow(h, c)
           S == rows \cup {r}
           g == Advance(h, r)
<1>1. /\ r.seq = h.seq + 1 /\ r.prev = h.hash
      /\ r.content = Stored[c] /\ r.hash = Digest(h.hash, c)
  BY DEF NextRow
<1>2. g.seq = h.seq + 1 /\ g.hash = r.hash
  BY <1>1 DEF Advance
<1>3. h.seq \in Nat /\ \A e \in rows : e.seq \in Nat
  BY DEF HeadRow, EventRow
<1>4. Numbered(S, g)
  <2>1. \A e \in S : e.seq \in 1 .. g.seq
    BY <1>1, <1>2, <1>3 DEF Chained, Numbered
  <2>2. ASSUME NEW n \in 1 .. g.seq PROVE \E e \in S : e.seq = n
    <3>1. CASE n = g.seq BY <1>1, <1>2, <3>1
    <3>2. CASE n # g.seq BY <1>2, <1>3, <3>2 DEF Chained, Numbered
    <3>3. QED BY <3>1, <3>2
  <2>3. ASSUME NEW e \in S, NEW f \in S, e.seq = f.seq PROVE e = f
    <3>1. \A d \in rows : d.seq # r.seq
      BY <1>1, <1>3 DEF Chained, Numbered
    <3>2. QED BY <2>3, <3>1 DEF Chained, Numbered
  <2>4. QED BY <2>1, <2>2, <2>3 DEF Numbered
<1>5. Linked(S, g)
  <2>1. ASSUME NEW e \in S, NEW f \in S, f.seq = e.seq + 1 PROVE f.prev = e.hash
    <3>1. CASE e \in rows /\ f \in rows BY <2>1, <3>1 DEF Chained, Linked
    <3>2. CASE e \in rows /\ f = r
      BY <1>1, <1>3, <2>1, <3>2 DEF Chained, Linked
    <3>3. CASE e = r
      BY <1>1, <1>3, <2>1, <3>3 DEF Chained, Numbered
    <3>4. QED BY <3>1, <3>2, <3>3
  <2>2. ASSUME NEW e \in S, e.seq = 1 PROVE e.prev = Genesis
    BY <1>1, <1>3, <2>2 DEF Chained, Linked
  <2>3. ASSUME NEW e \in S, e.seq = g.seq PROVE e.hash = g.hash
    BY <1>1, <1>2, <1>3, <2>3 DEF Chained, Numbered
  <2>4. g.seq # 0
    BY <1>2, <1>3
  <2>5. QED BY <2>1, <2>2, <2>3, <2>4 DEF Linked
<1>6. Hashed(S)
  BY <1>1 DEF Chained, Hashed
<1>7. QED BY <1>4, <1>5, <1>6 DEF Chained

(* Types of the pieces NextRow and Advance build.                          *)
LEMMA NextRowType ==
  ASSUME NEW h \in HeadRow, NEW c \in Contents
  PROVE  NextRow(h, c) \in EventRow /\ Advance(h, NextRow(h, c)) \in HeadRow
<1>1. Stored[c] \in Contents BY StoredAssumption
<1>2. h.seq + 1 \in Nat /\ h.hash \in Seq(Contents) BY DEF HeadRow, Hash
<1>3. Append(h.hash, c) \in Seq(Contents) BY <1>2
<1>4. QED BY <1>1, <1>2, <1>3 DEF NextRow, Advance, EventRow, HeadRow, Digest, Hash

LEMMA NoHeadType == NoHead \in HeadRow /\ NoTx \in [rows : SUBSET EventRow, head : HeadRow]
  BY DEF NoHead, NoTx, HeadRow, Genesis, Hash

LEMMA InitInv == Init => IInv
<1> SUFFICES ASSUME Init PROVE IInv OBVIOUS
<1>1. TypeOK
  BY NoHeadType, BoundsAssumption DEF Init, TypeOK
<1>2. ChainIntegrity
  BY DEF Init, ChainIntegrity, Chained, Numbered, Linked, Hashed, NoHead
<1>3. OpenChained
  BY WritersAssumption DEF Init, OpenChained
<1>4. QED BY <1>1, <1>2, <1>3 DEF IInv, HeadStart, Init

-----------------------------------------------------------------------------
(* Appending inside a transaction extends the chain it will commit.        *)
LEMMA AppendStep ==
  ASSUME IInv, NEW w \in Writers, NEW c \in Contents, AppendEvent(w, c)
  PROVE  IInv'
<1> DEFINE h == tx[w].head
           r == NextRow(h, c)
<1> USE DEF AppendEvent
<1>1. h \in HeadRow /\ tx[w].rows \in SUBSET EventRow /\ events \in SUBSET EventRow
  BY DEF IInv, TypeOK
<1>2. r \in EventRow /\ Advance(h, r) \in HeadRow
  BY <1>1, NextRowType
<1>3. tx' = [tx EXCEPT ![w] = [rows |-> tx[w].rows \cup {r}, head |-> Advance(h, r)]]
  OBVIOUS
<1>4. TypeOK'
  BY <1>1, <1>2, <1>3 DEF IInv, TypeOK
<1>5. ChainIntegrity' /\ HeadStart'
  BY DEF IInv, ChainIntegrity, HeadStart
<1>6. OpenChained'
  <2>1. ASSUME NEW v \in Writers, v # w
        PROVE  pc[v] # "open" /\ lock # v
    BY <2>1 DEF IInv, OpenChained
  <2>2. Chained(events \cup tx[w].rows, h)
    BY DEF IInv, OpenChained
  <2>3. Chained((events \cup tx[w].rows) \cup {r}, Advance(h, r))
    BY <1>1, <2>2, ChainExtends
  <2>4. tx'[w].rows = tx[w].rows \cup {r} /\ tx'[w].head = Advance(h, r)
    BY <1>3 DEF IInv, TypeOK
  <2>5. events \cup tx'[w].rows = (events \cup tx[w].rows) \cup {r}
    BY <2>4
  <2>6. Chained(events \cup tx'[w].rows, tx'[w].head)
    BY <2>3, <2>4, <2>5
  <2>7. h.seq \in Nat /\ head.seq \in Nat /\ h.seq >= head.seq
    BY DEF IInv, TypeOK, OpenChained, HeadRow
  <2>8. r.seq = h.seq + 1 /\ tx'[w].head.seq = h.seq + 1 /\ tx'[w].head.exists
    BY <2>4 DEF NextRow, Advance
  <2>9. \A e \in tx'[w].rows : e.seq \in head.seq + 1 .. tx'[w].head.seq
    <3>1. \A e \in tx[w].rows : e.seq \in head.seq + 1 .. h.seq
      BY DEF IInv, OpenChained
    <3>2. \A e \in tx[w].rows : e.seq \in head.seq + 1 .. h.seq + 1
      BY <2>7, <3>1
    <3>3. r.seq \in head.seq + 1 .. h.seq + 1
      BY <2>7, <2>8
    <3>4. QED BY <2>4, <2>8, <3>2, <3>3
  <2>10. lock = w /\ pc[w] = "open"
    BY DEF IInv, OpenChained
  <2>11. QED BY <2>1, <2>6, <2>7, <2>8, <2>9, <2>10, UNCHANGED <<pc, lock, head, events>>
             DEF OpenChained, Chained, Numbered, Linked, Hashed
<1>7. QED BY <1>4, <1>5, <1>6 DEF IInv

(* Committing publishes a chain and leaves nobody with an open view.       *)
LEMMA CommitStep ==
  ASSUME IInv, NEW w \in Writers, CommitTx(w)
  PROVE  IInv'
<1> USE DEF CommitTx
<1>1. TypeOK'
  BY NoHeadType DEF IInv, TypeOK
<1>2. Chained(events', head')
  BY DEF IInv, OpenChained
<1>3. ChainIntegrity'
  BY <1>2 DEF ChainIntegrity, Chained, Numbered, Linked, Hashed
<1>4. \A v \in Writers : pc'[v] # "open" /\ lock' # v
  BY WritersAssumption DEF IInv, OpenChained, TypeOK
<1>5. OpenChained'
  BY <1>4 DEF OpenChained
<1>6. HeadStart'
  BY DEF HeadStart, IInv, OpenChained
<1>7. QED BY <1>1, <1>3, <1>5, <1>6 DEF IInv

(* Taking the lock of the committed head row opens a current view.         *)
LEMMA LockStep ==
  ASSUME IInv, NEW w \in Writers, LockHead(w)
  PROVE  IInv'
<1> USE DEF LockHead
<1>1. TypeOK'
  BY DEF IInv, TypeOK
<1>2. ChainIntegrity' /\ HeadStart'
  BY DEF IInv, ChainIntegrity, HeadStart, Chained, Numbered, Linked, Hashed
<1>3. OpenChained'
  <2>1. \A v \in Writers : pc[v] # "open"
    BY WritersAssumption DEF IInv, OpenChained
  <2>2. tx'[w].rows = {} /\ tx'[w].head = head /\ pc'[w] = "open" /\ lock' = w
    BY DEF IInv, TypeOK
  <2>3. \A v \in Writers : v # w => pc'[v] # "open" /\ lock' # v
    BY <2>1 DEF IInv, TypeOK
  <2>4. Chained(events \cup tx'[w].rows, tx'[w].head)
    BY <2>2 DEF IInv, ChainIntegrity
  <2>5. head.seq \in Nat
    BY DEF IInv, TypeOK, HeadRow
  <2>6. QED BY <2>2, <2>3, <2>4, <2>5 DEF OpenChained, Chained, Numbered, Linked, Hashed
<1>4. QED BY <1>1, <1>2, <1>3 DEF IInv

(* So does inserting the GENESIS row, because no event is committed yet.   *)
LEMMA InsertStep ==
  ASSUME IInv, NEW w \in Writers, InsertHead(w)
  PROVE  IInv'
<1> DEFINE g == FirstHead
<1> USE DEF InsertHead
<1>1. g \in HeadRow /\ g.exists /\ g.seq = 0 /\ g.hash = Genesis
  BY DEF FirstHead, HeadRow, Genesis, Hash
<1>2. TypeOK'
  BY <1>1 DEF IInv, TypeOK
<1>3. ChainIntegrity' /\ HeadStart'
  BY DEF IInv, ChainIntegrity, HeadStart, Chained, Numbered, Linked, Hashed
<1>4. head = NoHead /\ head.seq = 0
  BY DEF IInv, HeadStart, NoHead
<1>5. events = {}
  BY <1>4 DEF IInv, ChainIntegrity, Chained, Numbered
<1>6. OpenChained'
  <2>1. \A v \in Writers : pc[v] # "open"
    BY WritersAssumption DEF IInv, OpenChained
  <2>2. tx'[w].rows = {} /\ tx'[w].head = g /\ pc'[w] = "open" /\ lock' = w
    BY DEF IInv, TypeOK
  <2>3. \A v \in Writers : v # w => pc'[v] # "open" /\ lock' # v
    BY <2>1 DEF IInv, TypeOK
  <2>4. Chained(events, g)
    BY <1>1, <1>5 DEF Chained, Numbered, Linked, Hashed
  <2>5. Chained(events' \cup tx'[w].rows, tx'[w].head)
    BY <2>2, <2>4, <1>5
  <2>6. QED BY <1>1, <1>4, <2>2, <2>3, <2>5 DEF OpenChained, Chained, Numbered, Linked, Hashed
<1>7. QED BY <1>2, <1>3, <1>6 DEF IInv

(* Rolling back drops the uncommitted rows and nothing else.               *)
LEMMA AbortStep ==
  ASSUME IInv, NEW w \in Writers, AbortTx(w)
  PROVE  IInv'
<1> USE DEF AbortTx
<1>1. TypeOK'
  BY NoHeadType DEF IInv, TypeOK
<1>2. ChainIntegrity' /\ HeadStart'
  BY DEF IInv, ChainIntegrity, HeadStart, Chained, Numbered, Linked, Hashed
<1>3. OpenChained'
  <2>1. pc'[w] # "open" /\ lock' # w
    BY WritersAssumption DEF IInv, TypeOK
  <2>2. ASSUME NEW v \in Writers, v # w
        PROVE  pc'[v] = pc[v] /\ tx'[v] = tx[v] /\ (lock' = v <=> lock = v)
    BY <2>2, WritersAssumption DEF IInv, TypeOK
  <2>3. QED BY <2>1, <2>2 DEF IInv, OpenChained, Chained, Numbered, Linked, Hashed
<1>4. QED BY <1>1, <1>2, <1>3 DEF IInv

(* The steps that touch neither the tables nor an open transaction.        *)
LEMMA QuietStep ==
  ASSUME IInv,
         \/ \E w \in Writers : Begin(w) \/ MissHead(w) \/ HeadConflict(w)
         \/ InsertUnchained
         \/ UNCHANGED vars
  PROVE  IInv'
<1>1. TypeOK'
  BY BoundsAssumption DEF IInv, TypeOK, Begin, MissHead, HeadConflict, InsertUnchained, vars
<1>2. UNCHANGED <<events, head, lock, tx>>
  BY DEF Begin, MissHead, HeadConflict, InsertUnchained, vars
<1>3. ASSUME NEW v \in Writers PROVE pc'[v] = "open" <=> pc[v] = "open"
  BY DEF IInv, TypeOK, Begin, MissHead, HeadConflict, InsertUnchained, vars
<1>4. ChainIntegrity' /\ HeadStart'
  BY <1>2 DEF IInv, ChainIntegrity, HeadStart, Chained, Numbered, Linked, Hashed
<1>5. OpenChained'
  BY <1>2, <1>3 DEF IInv, OpenChained, Chained, Numbered, Linked, Hashed
<1>6. QED BY <1>1, <1>4, <1>5 DEF IInv

LEMMA NextInv == IInv /\ [Next]_vars => IInv'
<1> SUFFICES ASSUME IInv, [Next]_vars PROVE IInv' OBVIOUS
<1>1. CASE \E w \in Writers : Begin(w) \/ MissHead(w) \/ HeadConflict(w)
  BY <1>1, QuietStep
<1>2. CASE \E w \in Writers : LockHead(w)      BY <1>2, LockStep
<1>3. CASE \E w \in Writers : InsertHead(w)    BY <1>3, InsertStep
<1>4. CASE \E w \in Writers, c \in Contents : AppendEvent(w, c)
  BY <1>4, AppendStep
<1>5. CASE \E w \in Writers : CommitTx(w)      BY <1>5, CommitStep
<1>6. CASE \E w \in Writers : AbortTx(w)       BY <1>6, AbortStep
<1>7. CASE InsertUnchained \/ UNCHANGED vars   BY <1>7, QuietStep
<1>8. QED BY <1>1, <1>2, <1>3, <1>4, <1>5, <1>6, <1>7 DEF Next, Progress

-----------------------------------------------------------------------------
THEOREM InductiveInvariant == Spec => []IInv
BY InitInv, NextInv, PTL DEF Spec

(* The tables and the handlers' views of them keep their types.            *)
THEOREM TypeCorrect == Spec => []TypeOK
<1>1. IInv => TypeOK BY DEF IInv
<1>2. QED BY <1>1, InductiveInvariant, PTL

(* Whatever handlers do concurrently, and wherever they fail, the          *)
(* committed rows of audit_events are one chain that ends at the head.     *)
THEOREM CommittedLogIsOneChain == Spec => []ChainIntegrity
<1>1. IInv => ChainIntegrity BY DEF IInv
<1>2. QED BY <1>1, InductiveInvariant, PTL

(* No commit overwrites or reuses a place in the chain.                    *)
THEOREM LogOnlyGrowsAtItsTip == Spec => CommitsExtendTip
<1> DEFINE A == /\ events \subseteq events'
                /\ \A e \in events' \ events : e.seq \in head.seq + 1 .. head'.seq
<1>1. ASSUME IInv, [Next]_vars PROVE [A]_vars
  <2>1. CASE \E w \in Writers : CommitTx(w)
    <3>1. PICK w \in Writers : CommitTx(w) BY <2>1
    <3>2. QED BY <1>1, <3>1 DEF IInv, OpenChained, CommitTx
  <2>2. CASE events' = events
    BY <2>2
  <2>3. QED BY <1>1, <2>1, <2>2 DEF Next, Progress, Begin, LockHead, MissHead, InsertHead,
              HeadConflict, AppendEvent, AbortTx, InsertUnchained, vars
<1>2. QED BY <1>1, InductiveInvariant, PTL DEF Spec, CommitsExtendTip

-----------------------------------------------------------------------------
(* The verification. A set of natural numbers has a least element, which   *)
(* takes the place of an induction over the loop of verify_chain.          *)
LEMMA LeastNat ==
  ASSUME NEW T \in SUBSET Nat, T # {}
  PROVE  \E m \in T : \A n \in T : m <= n
<1> DEFINE R == OpToRel(<, Nat)
<1>1. IsWellFoundedOn(R, Nat)
  BY NatLessThanWellFounded
<1> HIDE DEF R
<1>2. PICK m \in T : \A n \in T : ~(<<n, m>> \in R)
  BY <1>1, WFMin
<1>3. \A n \in Nat : n < m => <<n, m>> \in R
  BY <1>2 DEF R, OpToRel
<1>4. T \subseteq Nat /\ m \in Nat
  BY <1>2
<1>5. \A n \in T : ~(n < m)
  BY <1>2, <1>3, <1>4
<1> QED BY <1>4, <1>5

\* An order lists every row once, the numbers never fall.
Lists(s, rows, n) ==
  /\ s \in [1 .. n -> rows] /\ n \in Nat
  /\ \A e \in rows : \E i \in 1 .. n : s[i] = e
  /\ \A i, j \in 1 .. n : s[i] = s[j] => i = j
  /\ \A i, j \in 1 .. n : i < j => s[i].seq <= s[j].seq

LEMMA OrdersList ==
  ASSUME NEW rows, IsFiniteSet(rows), NEW s \in Orders(rows)
  PROVE  Lists(s, rows, Cardinality(rows))
<1> DEFINE n == Cardinality(rows)
<1>1. n \in Nat
  BY FS_CardinalityType
<1>2. /\ s \in [1 .. n -> rows]
      /\ \A i, j \in 1 .. n : i # j => s[i] # s[j]
      /\ \A i, j \in 1 .. n : i < j => s[i].seq <= s[j].seq
  BY DEF Orders, SetToSeqs
<1> HIDE DEF n
<1>3. IsFiniteSet(1 .. n) /\ Cardinality(1 .. n) = n
  BY <1>1, FS_Interval
<1>4. s \in Injection(1 .. n, rows)
  BY <1>2 DEF Injection, IsInjective
<1>5. s \in Surjection(1 .. n, rows)
  BY <1>3, <1>4, FS_Injection DEF n
<1>6. \A e \in rows : \E i \in 1 .. n : s[i] = e
  BY <1>5 DEF Surjection
<1> QED BY <1>1, <1>2, <1>6 DEF Lists, n

\* What a verification found no fault with.
Sound(s, n) == \A i \in 1 .. n : ~BreaksLink(s, i) /\ ~HashDiffers(s, i)

LEMMA SequenceOfOrder ==
  ASSUME NEW rows, NEW s, NEW n, Lists(s, rows, n)
  PROVE  DOMAIN s = 1 .. n /\ s \in Seq(rows) /\ Len(s) = n
BY DEF Lists

\* A hash lists the contents it was computed from, so its length is a place in the chain.
LEMMA SoundLengths ==
  ASSUME NEW rows \in SUBSET EventRow, NEW s, NEW n, Lists(s, rows, n), Sound(s, n)
  PROVE  \A i \in 1 .. n : Len(s[i].hash) = i /\ Len(s[i].prev) = i - 1
<1>1. \A i \in 1 .. n : /\ s[i].prev \in Seq(Contents) /\ s[i].hash \in Seq(Contents)
                        /\ s[i].content \in Contents
                        /\ Len(s[i].prev) \in Nat /\ Len(s[i].hash) = Len(s[i].prev) + 1
  <2> SUFFICES ASSUME NEW i \in 1 .. n
               PROVE  /\ s[i].prev \in Seq(Contents) /\ s[i].hash \in Seq(Contents)
                      /\ s[i].content \in Contents
                      /\ Len(s[i].prev) \in Nat /\ Len(s[i].hash) = Len(s[i].prev) + 1
    OBVIOUS
  <2>1. s[i] \in EventRow
    BY DEF Lists
  <2>2. s[i].prev \in Seq(Contents) /\ s[i].hash \in Seq(Contents) /\ s[i].content \in Contents
    BY <2>1 DEF EventRow, Hash
  <2>3. s[i].hash = Append(s[i].prev, s[i].content)
    BY DEF Sound, HashDiffers, Digest
  <2> QED BY <2>2, <2>3
<1>2. \A i \in 1 .. n : s[i].prev = IF i = 1 THEN <<>> ELSE s[i - 1].hash
  BY DEF Sound, BreaksLink, Genesis
<1>3. \A i \in 1 .. n : Len(s[i].prev) = IF i = 1 THEN 0 ELSE Len(s[i - 1].hash)
  BY <1>2
<1> DEFINE L(i) == Len(s[i].hash)
           P(i) == Len(s[i].prev)
           B == {i \in 1 .. n : L(i) # i}
<1>4. \A i \in 1 .. n : P(i) \in Nat /\ L(i) = P(i) + 1 /\ P(i) = IF i = 1 THEN 0 ELSE L(i - 1)
  BY <1>1, <1>3
<1>5. n \in Nat
  BY DEF Lists
<1> HIDE DEF L, P
<1>6. B = {}
  <2> SUFFICES ASSUME B # {} PROVE FALSE
    OBVIOUS
  <2>1. B \in SUBSET Nat
    BY <1>5
  <2>2. PICK m \in B : \A k \in B : m <= k
    <3> HIDE DEF B
    <3> QED BY <2>1, LeastNat
  <2>3. m \in 1 .. n /\ L(m) # m
    BY <2>2
  <2>4. m # 1
    BY <1>4, <2>3
  <2>5. m - 1 \in 1 .. n /\ ~(m <= m - 1)
    BY <1>5, <2>3, <2>4
  <2>6. L(m - 1) = m - 1
    BY <2>2, <2>5
  <2> QED BY <1>4, <2>3, <2>4, <2>6
<1>7. \A i \in 1 .. n : L(i) = i /\ P(i) = i - 1
  BY <1>4, <1>6
<1> QED BY <1>7 DEF L, P

LEMMA ValidIsSound ==
  ASSUME NEW rows, rows # {}, NEW s, NEW n, Lists(s, rows, n), NEW plain, NEW h, h.exists,
         Verdict(s, plain, h) = "valid"
  PROVE  n # 0 /\ Sound(s, n) /\ h.hash = s[n].hash
<1>1. DOMAIN s = 1 .. n /\ Len(s) = n /\ n \in Nat /\ n # 0
  BY SequenceOfOrder DEF Lists
<1>2. s # <<>>
  BY <1>1
<1>3. LoopVerdict(s, plain) = "ok" /\ h.hash = LastHash(s)
  <2>1. LoopVerdict(s, plain) # "valid"
    BY DEF LoopVerdict
  <2> QED BY <1>2, <2>1 DEF Verdict
<1>4. {i \in DOMAIN s : BreaksLink(s, i) \/ HashDiffers(s, i)} = {}
  BY <1>3 DEF LoopVerdict
<1>5. Sound(s, n)
  BY <1>1, <1>4 DEF Sound
<1>6. LastHash(s) = s[n].hash
  BY <1>1, <1>2 DEF LastHash, Last
<1> QED BY <1>1, <1>3, <1>5, <1>6

-----------------------------------------------------------------------------
(* What a changed table shows, whatever is appended to it afterwards.      *)

\* A row whose hash does not come from its own columns.
Unhashed(rows) == \E e \in rows : e.hash # Digest(e.prev, e.content)

\* Two rows continue the same row.
Fork(rows) == \E e, f \in rows : e # f /\ e.prev = f.prev

\* A row stands in front of one whose chain is shorter.
Disorder(rows) == \E e, f \in rows : e.seq < f.seq /\ Len(f.hash) < Len(e.hash)

\* A row continues a row that is not there.
Dangling(rows) == \E f \in rows : f.prev # Genesis /\ \A g \in rows : g.hash # f.prev

\* The head names a row that is not there.
Headless(rows, h) == \A g \in rows : g.hash # h.hash

Scarred(rows, h) ==
  Unhashed(rows) \/ Fork(rows) \/ Disorder(rows) \/ Dangling(rows) \/ Headless(rows, h)

-----------------------------------------------------------------------------
(* The induction for the changed table: a hash is as long as its place in  *)
(* the chain, so what handlers append is longer than all that was there.   *)
Sized(e) == Len(e.hash) = e.seq /\ Len(e.prev) + 1 = e.seq

\* Every hash was computed from a hash and a content.
Fits(rows, h) == \A e \in rows : Len(e.hash) = Len(e.prev) + 1 /\ Len(e.hash) <= h.seq

HeadSized == Len(head.hash) = head.seq /\ (~head.exists => head = NoHead)

\* The transaction of the handler w continues the committed head.
Continues(w) ==
  /\ tx[w].head.exists
  /\ tx[w].head.seq >= head.seq /\ Len(tx[w].head.hash) = tx[w].head.seq
  /\ \A e \in tx[w].rows : Sized(e) /\ e.seq \in head.seq + 1 .. tx[w].head.seq
  /\ IF tx[w].rows = {}
     THEN tx[w].head.hash = head.hash
     ELSE tx[w].head.seq > head.seq /\ \E f \in tx[w].rows : f.prev = head.hash

OpenSized ==
  \A w \in Writers : (pc[w] = "open" <=> lock = w) /\ (lock = w => Continues(w))

ChangeShows ==
  tampered => head.exists /\ head.seq > 0 /\ Scarred(events, head) /\ (MinLeft > 0 => events # {})

\* What the running verification has read, before the change or after it.
ReadHonest ==
  vpc = "head" /\ ~after =>
    /\ verdict = "none"
    /\ \E g \in HeadRow : Chained(snap.rows, g) /\ (moved \/ g = head)
ReadScarred ==
  vpc = "head" /\ after =>
    /\ verdict = "none"
    /\ Fits(snap.rows, head) /\ Scarred(snap.rows, head) /\ (MinLeft > 0 => snap.rows # {})

\* The log and its writers, changed or not.
LogSized ==
  /\ TypeOK /\ IsFiniteSet(events) /\ \A w \in Writers : IsFiniteSet(tx[w].rows)
  /\ HeadSized /\ OpenSized /\ Fits(events, head)

Untouched == IInv /\ \A e \in events : Sized(e)

SnapTypes ==
  snap.rows \in SUBSET EventRow /\ IsFiniteSet(snap.rows) /\ snap.unchained \in Nat

TamperInv ==
  /\ LogSized /\ SnapTypes
  /\ ~tampered => Untouched
  /\ ChangeShows
  /\ after => tampered
  /\ ReadHonest /\ ReadScarred
  /\ HonestAlarmsAreExplained /\ (MinLeft > 0 => TamperingIsReported)

-----------------------------------------------------------------------------
LEMMA RowLengths ==
  ASSUME NEW e \in EventRow
  PROVE  /\ Len(e.hash) \in Nat /\ Len(e.prev) \in Nat /\ e.seq \in Nat
         /\ Len(Digest(e.prev, e.content)) = Len(e.prev) + 1
<1>1. e.hash \in Seq(Contents) /\ e.prev \in Seq(Contents) /\ e.seq \in Nat
  BY DEF EventRow, Hash
<1>2. Len(Append(e.prev, e.content)) = Len(e.prev) + 1
  BY <1>1
<1> QED BY <1>1, <1>2 DEF Digest

LEMMA HeadLengths ==
  ASSUME NEW h \in HeadRow
  PROVE  h.seq \in Nat /\ h.hash \in Hash /\ Len(h.hash) \in Nat /\ h.exists \in BOOLEAN
BY DEF HeadRow, Hash

(* verify_chain answers "valid" for no table that shows a change: a valid  *)
(* one is a single run of rows, each as long as its place.                 *)
LEMMA ScarIsFound ==
  ASSUME NEW rows \in SUBSET EventRow, IsFiniteSet(rows), rows # {},
         NEW h, h.exists, Scarred(rows, h), NEW s \in Orders(rows), NEW plain
  PROVE  Verdict(s, plain, h) # "valid"
<1> SUFFICES ASSUME Verdict(s, plain, h) = "valid" PROVE FALSE
  OBVIOUS
<1> DEFINE n == Cardinality(rows)
<1>1. Lists(s, rows, n)
  BY OrdersList
<1> HIDE DEF n
<1>2. n # 0 /\ Sound(s, n) /\ h.hash = s[n].hash
  BY <1>1, ValidIsSound
<1>3. \A i \in 1 .. n : Len(s[i].hash) = i /\ Len(s[i].prev) = i - 1
  BY <1>1, <1>2, SoundLengths
<1>4. n \in Nat /\ \A i \in 1 .. n : s[i] \in rows
  BY <1>1 DEF Lists
<1>5. \A e \in rows : \E i \in 1 .. n : s[i] = e
  BY <1>1 DEF Lists
<1>6. \A i, j \in 1 .. n : i < j => s[i].seq <= s[j].seq
  BY <1>1 DEF Lists
<1>7. CASE Unhashed(rows)
  <2>1. PICK e \in rows : e.hash # Digest(e.prev, e.content)
    BY <1>7 DEF Unhashed
  <2> QED BY <1>2, <1>5, <2>1 DEF Sound, HashDiffers
<1>8. CASE Fork(rows)
  <2>1. PICK e \in rows, f \in rows : e # f /\ e.prev = f.prev
    BY <1>8 DEF Fork
  <2>2. PICK i \in 1 .. n : s[i] = e
    BY <1>5
  <2>3. PICK j \in 1 .. n : s[j] = f
    BY <1>5
  <2>4. i - 1 = j - 1
    BY <1>3, <2>1, <2>2, <2>3
  <2> QED BY <1>4, <2>1, <2>2, <2>3, <2>4
<1>9. CASE Disorder(rows)
  <2>1. PICK e \in rows, f \in rows : e.seq < f.seq /\ Len(f.hash) < Len(e.hash)
    BY <1>9 DEF Disorder
  <2>2. PICK i \in 1 .. n : s[i] = e
    BY <1>5
  <2>3. PICK j \in 1 .. n : s[j] = f
    BY <1>5
  <2>4. j < i
    BY <1>3, <2>1, <2>2, <2>3
  <2>5. f.seq <= e.seq
    BY <1>6, <2>2, <2>3, <2>4
  <2>6. e.seq \in Nat /\ f.seq \in Nat
    BY <2>1, RowLengths
  <2> QED BY <2>1, <2>5, <2>6
<1>10. CASE Dangling(rows)
  <2>1. PICK f \in rows : f.prev # Genesis /\ \A g \in rows : g.hash # f.prev
    BY <1>10 DEF Dangling
  <2>2. PICK j \in 1 .. n : s[j] = f
    BY <1>5
  <2>3. f.prev = IF j = 1 THEN Genesis ELSE s[j - 1].hash
    BY <1>2, <2>2 DEF Sound, BreaksLink
  <2>4. j # 1 /\ j - 1 \in 1 .. n
    BY <1>4, <2>1, <2>3
  <2> QED BY <1>4, <2>1, <2>3, <2>4
<1>11. CASE Headless(rows, h)
  BY <1>2, <1>4, <1>11 DEF Headless
<1> QED BY <1>7, <1>8, <1>9, <1>10, <1>11 DEF Scarred

(* Rows appended behind the head leave every sign of a change in place.    *)
LEMMA ScarStays ==
  ASSUME NEW rows \in SUBSET EventRow, NEW more \in SUBSET EventRow, NEW h \in HeadRow, NEW g,
         Scarred(rows, h), Fits(rows, h), h.seq > 0, Len(h.hash) = h.seq,
         \A e \in more : Len(e.hash) > h.seq,
         \E f \in more : f.prev = h.hash
  PROVE  Scarred(rows \cup more, g)
<1>1. CASE Unhashed(rows)
  BY <1>1 DEF Unhashed, Scarred
<1>2. CASE Fork(rows)
  BY <1>2 DEF Fork, Scarred
<1>3. CASE Disorder(rows)
  BY <1>3 DEF Disorder, Scarred
<1>4. h.seq \in Nat /\ Len(Genesis) = 0
  BY HeadLengths DEF Genesis
<1>5. CASE Dangling(rows)
  <2>1. PICK f \in rows : f.prev # Genesis /\ \A e \in rows : e.hash # f.prev
    BY <1>5 DEF Dangling
  <2>2. Len(f.prev) < h.seq
    <3>1. Len(f.hash) = Len(f.prev) + 1 /\ Len(f.hash) <= h.seq
      BY <2>1 DEF Fits
    <3>2. Len(f.prev) \in Nat
      BY <2>1, RowLengths
    <3> QED BY <1>4, <3>1, <3>2
  <2>3. \A e \in more : e.hash # f.prev
    <3> SUFFICES ASSUME NEW e \in more, e.hash = f.prev PROVE FALSE
      OBVIOUS
    <3>1. Len(e.hash) \in Nat /\ Len(e.hash) > h.seq /\ Len(e.hash) = Len(f.prev)
      BY RowLengths
    <3> QED BY <1>4, <2>2, <3>1
  <2> QED BY <2>1, <2>3 DEF Dangling, Scarred
<1>6. CASE Headless(rows, h)
  <2>1. PICK f \in more : f.prev = h.hash
    OBVIOUS
  <2>2. h.hash # Genesis
    BY <1>4
  <2>3. \A e \in more : e.hash # h.hash
    <3> SUFFICES ASSUME NEW e \in more, e.hash = h.hash PROVE FALSE
      OBVIOUS
    <3>1. Len(e.hash) > h.seq /\ Len(e.hash) = h.seq
      OBVIOUS
    <3> QED BY <1>4, <3>1
  <2> QED BY <1>6, <2>1, <2>2, <2>3 DEF Headless, Dangling, Scarred
<1> QED BY <1>1, <1>2, <1>3, <1>5, <1>6 DEF Scarred

(* So does a head that moved on.                                           *)
LEMMA ScarStaysBehind ==
  ASSUME NEW rows \in SUBSET EventRow, NEW h \in HeadRow, NEW g \in HeadRow,
         Scarred(rows, h), Fits(rows, h), g.seq > h.seq, Len(g.hash) = g.seq
  PROVE  Scarred(rows, g) /\ Fits(rows, g)
<1>1. h.seq \in Nat /\ g.seq \in Nat
  BY HeadLengths
<1>2. \A e \in rows : Len(e.hash) \in Nat /\ Len(e.hash) = Len(e.prev) + 1 /\ Len(e.hash) <= h.seq
  BY RowLengths DEF Fits
<1>3. Fits(rows, g)
  BY <1>1, <1>2 DEF Fits
<1>4. Headless(rows, g)
  <2> SUFFICES ASSUME NEW e \in rows, e.hash = g.hash PROVE FALSE
    BY DEF Headless
  <2>1. Len(e.hash) = g.seq
    OBVIOUS
  <2> QED BY <1>1, <1>2, <2>1
<1> QED BY <1>3, <1>4 DEF Scarred

(* A chain is read back in its order.                                      *)
LEMMA ChainIsReadInOrder ==
  ASSUME NEW rows \in SUBSET EventRow, NEW g \in HeadRow, Numbered(rows, g),
         NEW s, NEW n, Lists(s, rows, n)
  PROVE  \A i \in 1 .. n : s[i].seq = i
<1> DEFINE B == {i \in 1 .. n : s[i].seq # i}
<1>1. /\ n \in Nat /\ g.seq \in Nat
      /\ \A i \in 1 .. n : s[i] \in rows /\ s[i].seq \in 1 .. g.seq /\ s[i].seq \in Nat
  BY HeadLengths DEF Lists, Numbered
<1> SUFFICES ASSUME B # {} PROVE FALSE
  OBVIOUS
<1>2. PICK m \in B : \A k \in B : m <= k
  <2>1. B \in SUBSET Nat
    BY <1>1
  <2> HIDE DEF B
  <2> QED BY <2>1, LeastNat
<1>3. m \in 1 .. n /\ s[m].seq # m
  BY <1>2
<1>4. \A k \in 1 .. n : k < m => s[k].seq = k
  <2> SUFFICES ASSUME NEW k \in 1 .. n, k < m, s[k].seq # k PROVE FALSE
    OBVIOUS
  <2>1. k \in B
    OBVIOUS
  <2>2. m <= k
    BY <1>2, <2>1
  <2> QED BY <1>1, <1>3, <2>2
<1>5. s[m].seq > m
  <2>1. CASE m = 1
    BY <1>1, <1>3, <2>1
  <2>2. CASE m # 1
    <3>1. m - 1 \in 1 .. n /\ m - 1 < m
      BY <1>1, <1>3, <2>2
    <3>2. s[m - 1].seq = m - 1 /\ s[m - 1].seq <= s[m].seq /\ s[m - 1] # s[m]
      BY <1>3, <1>4, <3>1 DEF Lists
    <3>3. s[m - 1].seq # s[m].seq
      BY <1>1, <1>3, <3>1, <3>2 DEF Numbered
    <3> QED BY <1>1, <1>3, <3>2, <3>3
  <2> QED BY <2>1, <2>2
<1>6. m \in 1 .. g.seq
  BY <1>1, <1>3, <1>5
<1>7. PICK e \in rows : e.seq = m
  BY <1>6 DEF Numbered
<1>8. PICK k \in 1 .. n : s[k] = e
  BY DEF Lists
<1>9. ~(k < m)
  BY <1>4, <1>7, <1>8, <1>3
<1>10. k = m \/ m < k
  BY <1>1, <1>3, <1>9
<1>11. s[m].seq <= s[k].seq
  BY <1>1, <1>3, <1>10 DEF Lists
<1> QED BY <1>1, <1>3, <1>5, <1>7, <1>8, <1>11

(* verify_chain answers for one chain: it may find a row hashed over what  *)
(* the columns do not give back, a row without hashes beside the chain, or *)
(* a head that another reading of the table belongs to; nothing else.      *)
LEMMA ChainIsExplained ==
  ASSUME NEW rows \in SUBSET EventRow, IsFiniteSet(rows), NEW g \in HeadRow, Chained(rows, g),
         NEW s \in Orders(rows), NEW plain \in Nat, NEW h
  PROVE  \/ Verdict(s, plain, h) = "valid"
         \/ Verdict(s, plain, h) = "HEAD_MISMATCH" /\ h # g
         \/ Verdict(s, plain, h) = "CHAIN_BROKEN" /\ plain > 0
         \/ Verdict(s, plain, h) = "HASH_TAMPERED" /\ Rounded(rows)
<1> DEFINE n == Cardinality(rows)
           faults == {i \in DOMAIN s : BreaksLink(s, i) \/ HashDiffers(s, i)}
<1>1. Lists(s, rows, n)
  BY OrdersList
<1> HIDE DEF n
<1>2. DOMAIN s = 1 .. n /\ Len(s) = n /\ n \in Nat /\ \A i \in 1 .. n : s[i] \in rows
  BY <1>1, SequenceOfOrder DEF Lists
<1>3. \A i \in 1 .. n : s[i].seq = i
  BY <1>1, ChainIsReadInOrder DEF Chained
<1>4. \A i \in 1 .. n : ~BreaksLink(s, i)
  <2> SUFFICES ASSUME NEW i \in 1 .. n PROVE ~BreaksLink(s, i)
    OBVIOUS
  <2>1. CASE i = 1
    BY <1>2, <1>3, <2>1 DEF Chained, Linked, BreaksLink
  <2>2. CASE i # 1
    <3>1. i - 1 \in 1 .. n
      BY <1>2, <2>2
    <3>2. s[i].seq = s[i - 1].seq + 1
      BY <1>2, <1>3, <3>1
    <3> QED BY <1>2, <2>2, <3>1, <3>2 DEF Chained, Linked, BreaksLink
  <2> QED BY <2>1, <2>2
<1>5. \A i \in 1 .. n : HashDiffers(s, i) => Rounded(rows)
  <2> SUFFICES ASSUME NEW i \in 1 .. n, HashDiffers(s, i) PROVE Rounded(rows)
    OBVIOUS
  <2>1. PICK c \in Contents : s[i].content = Stored[c] /\ s[i].hash = Digest(s[i].prev, c)
    BY <1>2 DEF Chained, Hashed
  <2>2. Stored[c] # c
    BY <2>1 DEF HashDiffers
  <2> QED BY <1>2, <2>1, <2>2 DEF Rounded
<1>6. CASE faults # {}
  <2>1. faults \in SUBSET (1 .. n) /\ faults \in SUBSET Nat
    BY <1>2
  <2>2. PICK m \in faults : \A k \in faults : m <= k
    <3> HIDE DEF faults
    <3> QED BY <1>6, <2>1, LeastNat
  <2>3. Min(faults) \in faults
    <3> HIDE DEF faults
    <3>1. \E x \in faults : \A y \in faults : x <= y
      BY <2>2
    <3> QED BY <3>1 DEF Min
  <2>4. ~BreaksLink(s, Min(faults)) /\ HashDiffers(s, Min(faults))
    BY <1>2, <1>4, <2>3
  <2>5. LoopVerdict(s, plain) = "HASH_TAMPERED"
    BY <1>6, <2>4 DEF LoopVerdict
  <2>6. s # <<>>
    BY <1>2, <1>6
  <2>7. Rounded(rows)
    BY <1>2, <1>5, <2>3, <2>4
  <2> QED BY <2>5, <2>6, <2>7 DEF Verdict
<1>7. CASE faults = {} /\ plain > 0
  <2>1. LoopVerdict(s, plain) = "CHAIN_BROKEN"
    BY <1>7 DEF LoopVerdict
  <2> QED BY <1>7, <2>1 DEF Verdict
<1>8. CASE faults = {} /\ ~(plain > 0)
  <2>1. LoopVerdict(s, plain) = "ok"
    BY <1>8 DEF LoopVerdict
  <2>2. h.exists /\ h.hash # LastHash(s) => h # g
    <3> SUFFICES LastHash(s) = g.hash
      OBVIOUS
    <3>1. g.seq \in Nat
      BY HeadLengths
    <3>2. CASE n = 0
      <4>1. s = <<>> /\ rows = {}
        BY <1>1, <1>2, <3>2, SequenceOfOrder DEF Lists
      <4>2. g.seq = 0
        BY <3>1, <4>1 DEF Chained, Numbered
      <4> QED BY <4>1, <4>2 DEF LastHash, Chained, Linked
    <3>3. CASE n # 0
      <4>1. n \in 1 .. n /\ s # <<>>
        BY <1>2, <3>3
      <4>2. s[n].seq = n /\ s[n] \in rows /\ n \in 1 .. g.seq
        BY <1>2, <1>3, <4>1 DEF Chained, Numbered
      <4>3. PICK e \in rows : e.seq = g.seq
        BY <3>1, <4>2 DEF Chained, Numbered
      <4>4. PICK k \in 1 .. n : s[k] = e
        BY <1>1 DEF Lists
      <4>5. g.seq = n
        BY <1>2, <1>3, <3>1, <4>2, <4>3, <4>4
      <4> QED BY <1>2, <4>1, <4>2, <4>5 DEF LastHash, Last, Chained, Linked
    <3> QED BY <3>2, <3>3
  <2> QED BY <2>1, <2>2 DEF Verdict
<1> QED BY <1>6, <1>7, <1>8

-----------------------------------------------------------------------------
LEMMA TypeStep == TypeOK /\ [Next]_vars => TypeOK'
<1> SUFFICES ASSUME TypeOK, [Next]_vars PROVE TypeOK'
  OBVIOUS
<1> USE DEF TypeOK
<1>1. ASSUME NEW w \in Writers, Begin(w) \/ MissHead(w) \/ HeadConflict(w) PROVE TypeOK'
  BY <1>1, BoundsAssumption DEF Begin, MissHead, HeadConflict
<1>2. ASSUME NEW w \in Writers, LockHead(w) \/ InsertHead(w) PROVE TypeOK'
  <2>1. FirstHead \in HeadRow
    BY DEF FirstHead, HeadRow, Genesis, Hash
  <2> QED BY <1>2, <2>1 DEF LockHead, InsertHead
<1>3. ASSUME NEW w \in Writers, NEW c \in Contents, AppendEvent(w, c) PROVE TypeOK'
  <2>1. tx[w].head \in HeadRow /\ tx[w].rows \in SUBSET EventRow
    OBVIOUS
  <2>2. NextRow(tx[w].head, c) \in EventRow /\ Advance(tx[w].head, NextRow(tx[w].head, c)) \in HeadRow
    BY <2>1, NextRowType
  <2> QED BY <1>3, <2>1, <2>2 DEF AppendEvent
<1>4. ASSUME NEW w \in Writers, CommitTx(w) \/ AbortTx(w) PROVE TypeOK'
  BY <1>4, NoHeadType DEF CommitTx, AbortTx
<1>5. CASE InsertUnchained
  BY <1>5, BoundsAssumption DEF InsertUnchained
<1>6. CASE UNCHANGED vars
  BY <1>6 DEF vars
<1> QED BY <1>1, <1>2, <1>3, <1>4, <1>5, <1>6 DEF Next, Progress

\* What a commit of the handler w publishes.
Published(w) ==
  /\ events' = events \cup tx[w].rows /\ head' = tx[w].head
  /\ tx[w].rows \in SUBSET EventRow /\ IsFiniteSet(tx[w].rows)
  /\ \A e \in tx[w].rows : Sized(e) /\ Len(e.hash) > head.seq
  /\ \E f \in tx[w].rows : f.prev = head.hash
  /\ head'.exists /\ head'.seq > head.seq /\ Len(head'.hash) = head'.seq

LEMMA CommitPublishes ==
  ASSUME LogSized, NEW w \in Writers, CommitTx(w)
  PROVE  Published(w)
<1>1. Continues(w)
  BY DEF LogSized, OpenSized, CommitTx
<1>2. tx[w].rows \in SUBSET EventRow /\ tx[w].head \in HeadRow /\ head \in HeadRow
  BY DEF LogSized, TypeOK
<1>3. head.seq \in Nat /\ tx[w].head.seq \in Nat
  BY <1>2, HeadLengths
<1>4. \A e \in tx[w].rows : Len(e.hash) > head.seq
  BY <1>1, <1>2, <1>3 DEF Continues, Sized
<1>5. tx[w].rows # {} /\ events' = events \cup tx[w].rows /\ head' = tx[w].head
  BY DEF CommitTx
<1> QED BY <1>1, <1>2, <1>4, <1>5 DEF Continues, Published, LogSized

\* A handler changes the tables only when it commits.
LEMMA OnlyCommitsPublish ==
  ASSUME LogSized, Next
  PROVE  (events' = events /\ head' = head) \/ \E w \in Writers : CommitTx(w)
BY DEF Next, Progress, Begin, MissHead, HeadConflict, LockHead, InsertHead, AppendEvent,
       AbortTx, InsertUnchained

LEMMA OpenSizedStep ==
  ASSUME LogSized, Next PROVE OpenSized'
<1> USE DEF LogSized
<1>0. TypeOK /\ head.seq \in Nat
  BY HeadLengths DEF TypeOK
<1>1. ASSUME NEW w \in Writers, Begin(w) \/ MissHead(w) \/ HeadConflict(w) PROVE OpenSized'
  BY <1>1 DEF Begin, MissHead, HeadConflict, OpenSized, Continues, Sized, TypeOK
<1>2. ASSUME NEW w \in Writers, LockHead(w) \/ InsertHead(w) PROVE OpenSized'
  <2>1. \E g \in HeadRow : /\ tx' = [tx EXCEPT ![w] = [rows |-> {}, head |-> g]]
                           /\ g.exists /\ g.seq = head.seq /\ g.hash = head.hash
    <3>1. head.exists => head \in HeadRow /\ LockHead(w)
      BY <1>2 DEF InsertHead, TypeOK
    <3>2. ~head.exists => head = NoHead /\ InsertHead(w)
      BY <1>2 DEF LockHead, HeadSized
    <3>3. FirstHead \in HeadRow /\ FirstHead.exists /\ FirstHead.seq = NoHead.seq /\ FirstHead.hash = NoHead.hash
      BY DEF FirstHead, NoHead, HeadRow, Genesis, Hash
    <3> QED BY <3>1, <3>2, <3>3 DEF LockHead, InsertHead
  <2>2. PICK g \in HeadRow : /\ tx' = [tx EXCEPT ![w] = [rows |-> {}, head |-> g]]
                             /\ g.exists /\ g.seq = head.seq /\ g.hash = head.hash
    BY <2>1
  <2>3. tx'[w] = [rows |-> {}, head |-> g]
    BY <2>2 DEF TypeOK
  <2>4. lock = NoWriter /\ lock' = w /\ pc' = [pc EXCEPT ![w] = "open"] /\ head' = head
    BY <1>2 DEF LockHead, InsertHead
  <2>5. Continues(w)'
    BY <1>0, <2>2, <2>3, <2>4 DEF Continues, HeadSized
  <2> QED BY <2>4, <2>5, WritersAssumption DEF OpenSized, TypeOK
<1>3. ASSUME NEW w \in Writers, NEW c \in Contents, AppendEvent(w, c) PROVE OpenSized'
  <2> DEFINE h == tx[w].head
             r == NextRow(h, c)
  <2>1. tx[w].rows \in SUBSET EventRow /\ h \in HeadRow
    BY DEF TypeOK
  <2>2. h.seq \in Nat /\ h.hash \in Seq(Contents)
    BY <2>1, HeadLengths DEF Hash
  <2>3. Len(Append(h.hash, c)) = Len(h.hash) + 1
    BY <2>2
  <2>4. pc[w] = "open" /\ lock = w /\ Continues(w)
    BY <1>3 DEF AppendEvent, OpenSized
  <2>5. r.seq = h.seq + 1 /\ r.prev = h.hash /\ Len(r.hash) = h.seq + 1 /\ Len(h.hash) = h.seq
    BY <2>3, <2>4 DEF NextRow, Digest, Continues
  <2>6. Sized(r)
    BY <2>2, <2>5 DEF Sized
  <2>7. /\ tx'[w].rows = tx[w].rows \cup {r} /\ tx'[w].head.exists
        /\ tx'[w].head.seq = h.seq + 1 /\ tx'[w].head.hash = r.hash
    BY <1>3, <2>5 DEF AppendEvent, Advance, TypeOK
  <2> HIDE DEF h, r
  <2>8. h.seq >= head.seq /\ \A e \in tx[w].rows : Sized(e) /\ e.seq \in head.seq + 1 .. h.seq
    BY <2>4 DEF Continues, h
  <2>9. tx[w].rows = {} => r.prev = head.hash
    BY <2>4, <2>5 DEF Continues, h
  <2>10. tx[w].rows # {} => \E f \in tx[w].rows : f.prev = head.hash
    BY <2>4 DEF Continues
  <2>11. head' = head
    BY <1>3 DEF AppendEvent
  <2>12. \A e \in tx'[w].rows : Sized(e) /\ e.seq \in head.seq + 1 .. h.seq + 1
    BY <1>0, <2>2, <2>5, <2>6, <2>7, <2>8
  <2>13. h.seq + 1 >= head.seq /\ h.seq + 1 > head.seq
    BY <1>0, <2>2, <2>8
  <2>14. tx'[w].rows # {} /\ \E f \in tx'[w].rows : f.prev = head.hash
    BY <2>7, <2>9, <2>10
  <2>15. Continues(w)'
    BY <2>5, <2>7, <2>11, <2>12, <2>13, <2>14 DEF Continues, Sized
  <2> QED BY <1>3, <2>4, <2>15 DEF AppendEvent, OpenSized
<1>4. ASSUME NEW w \in Writers, CommitTx(w) \/ AbortTx(w) PROVE OpenSized'
  <2>1. CASE CommitTx(w)
    BY <2>1, WritersAssumption DEF CommitTx, OpenSized, TypeOK
  <2>2. CASE AbortTx(w)
    BY <2>2, WritersAssumption DEF AbortTx, OpenSized, Continues, Sized, TypeOK
  <2> QED BY <1>4, <2>1, <2>2
<1>5. CASE InsertUnchained
  BY <1>5 DEF InsertUnchained, OpenSized, Continues, Sized
<1> QED BY <1>1, <1>2, <1>3, <1>4, <1>5 DEF Next, Progress

LEMMA LogSizedStep ==
  ASSUME LogSized, Next PROVE LogSized'
<1>1. TypeOK'
  BY TypeStep DEF LogSized
<1>2. OpenSized'
  BY OpenSizedStep
<1>3. IsFiniteSet(events')
  <2>1. ASSUME NEW w \in Writers, CommitTx(w) PROVE IsFiniteSet(events')
    BY <2>1, FS_Union DEF CommitTx, LogSized
  <2> QED BY <2>1, OnlyCommitsPublish DEF LogSized
<1>4. \A w \in Writers : IsFiniteSet(tx'[w].rows)
  <2> SUFFICES ASSUME NEW w \in Writers PROVE IsFiniteSet(tx'[w].rows)
    OBVIOUS
  <2> DEFINE r(c) == NextRow(tx[w].head, c)
  <2>1. ASSUME NEW v \in Writers, NEW c \in Contents, AppendEvent(v, c)
        PROVE  tx'[w] = tx[w] \/ tx'[w].rows = tx[w].rows \cup {r(c)}
    BY <2>1 DEF AppendEvent, LogSized, TypeOK
  <2>2. ASSUME NEW v \in Writers, LockHead(v) \/ InsertHead(v) \/ CommitTx(v) \/ AbortTx(v)
        PROVE  tx'[w] = tx[w] \/ tx'[w].rows = {}
    BY <2>2 DEF LockHead, InsertHead, CommitTx, AbortTx, LogSized, TypeOK, NoTx
  <2> HIDE DEF r
  <2>3. \/ tx'[w] = tx[w] \/ tx'[w].rows = {}
        \/ \E c \in Contents : tx'[w].rows = tx[w].rows \cup {r(c)}
    BY <2>1, <2>2 DEF Next, Progress, Begin, MissHead, HeadConflict, InsertUnchained
  <2>4. IsFiniteSet(tx[w].rows) BY DEF LogSized
  <2>5. \A c \in Contents : IsFiniteSet(tx[w].rows \cup {r(c)}) BY <2>4, FS_AddElement
  <2>6. IsFiniteSet({}) BY FS_EmptySet
  <2> QED BY <2>3, <2>4, <2>5, <2>6
<1>5. HeadSized' /\ Fits(events, head)'
  <2>1. CASE events' = events /\ head' = head
    BY <2>1 DEF LogSized, HeadSized, Fits
  <2>2. ASSUME NEW w \in Writers, CommitTx(w) PROVE HeadSized' /\ Fits(events, head)'
    <3>1. Published(w)
      BY <2>2, CommitPublishes
    <3>2. head.seq \in Nat /\ head'.seq \in Nat
      BY <1>1, HeadLengths DEF LogSized, TypeOK
    <3>3. HeadSized'
      BY <3>1 DEF Published, HeadSized
    <3>4. \A e \in events : Len(e.hash) = Len(e.prev) + 1 /\ Len(e.hash) <= head.seq /\ Len(e.hash) \in Nat
      BY RowLengths DEF LogSized, TypeOK, Fits
    <3>5. \A e \in tx[w].rows : Len(e.hash) = Len(e.prev) + 1 /\ Len(e.hash) <= head'.seq
      BY <2>2 DEF CommitTx, LogSized, OpenSized, Continues, Sized
    <3>6. Fits(events', head')
      BY <3>1, <3>2, <3>4, <3>5 DEF Published, Fits
    <3> QED BY <3>3, <3>6 DEF Fits
  <2> QED BY <2>1, <2>2, OnlyCommitsPublish
<1> QED BY <1>1, <1>2, <1>3, <1>4, <1>5 DEF LogSized

-----------------------------------------------------------------------------
(* The four changes. In a log nobody has touched, every hash is named by   *)
(* the next row or by the head.                                            *)
LEMMA UntouchedRow ==
  ASSUME LogSized, Untouched, NEW e \in events
  PROVE  /\ e \in EventRow /\ head.exists /\ e.seq \in 1 .. head.seq /\ head.seq \in Nat
         /\ Len(e.hash) = e.seq /\ Len(e.prev) + 1 = e.seq
         /\ e.seq = head.seq => e.hash = head.hash
         /\ e.seq < head.seq => \E f \in events : f.seq = e.seq + 1 /\ f.prev = e.hash
         /\ \E c \in Contents : e.content = Stored[c] /\ e.hash = Digest(e.prev, c)
<1>1. e \in EventRow /\ head \in HeadRow /\ head.seq \in Nat /\ Chained(events, head)
  BY HeadLengths DEF LogSized, TypeOK, Untouched, IInv, ChainIntegrity
<1>2. e.seq \in 1 .. head.seq /\ e.seq \in Nat
  BY <1>1, RowLengths DEF Chained, Numbered
<1>3. head.exists
  BY <1>1, <1>2 DEF LogSized, HeadSized, NoHead
<1>4. e.seq < head.seq => \E f \in events : f.seq = e.seq + 1 /\ f.prev = e.hash
  <2> SUFFICES ASSUME e.seq < head.seq PROVE \E f \in events : f.seq = e.seq + 1 /\ f.prev = e.hash
    OBVIOUS
  <2>1. e.seq + 1 \in 1 .. head.seq
    BY <1>1, <1>2
  <2>2. PICK f \in events : f.seq = e.seq + 1
    BY <1>1, <2>1 DEF Chained, Numbered
  <2> QED BY <1>1, <2>2 DEF Chained, Linked
<1> QED BY <1>1, <1>2, <1>3, <1>4 DEF Chained, Linked, Hashed, Untouched, Sized

\* A hash that is gone is missed.
LEMMA GoneIsMissed ==
  ASSUME LogSized, Untouched, NEW e \in events, NEW rows,
         events \ {e} \subseteq rows, \A g \in rows : g.hash # e.hash
  PROVE  Scarred(rows, head)
<1>1. CASE e.seq = head.seq
  BY <1>1, UntouchedRow DEF Headless, Scarred
<1>2. CASE e.seq # head.seq
  <2>1. e.seq < head.seq /\ Len(e.hash) = e.seq /\ e.seq \in 1 .. head.seq /\ head.seq \in Nat
    BY <1>2, UntouchedRow
  <2>2. PICK f \in events : f.seq = e.seq + 1 /\ f.prev = e.hash
    BY <2>1, UntouchedRow
  <2>3. f \in rows
    BY <2>1, <2>2
  <2>4. e.hash # Genesis
    BY <2>1 DEF Genesis
  <2> QED BY <2>2, <2>3, <2>4 DEF Dangling, Scarred
<1> QED BY <1>1, <1>2

\* What is left to show of a change.
Changed == events' \subseteq EventRow /\ Fits(events', head) /\ Scarred(events', head)

LEMMA DeleteShows ==
  ASSUME LogSized, Untouched, DeleteRow PROVE Changed
<1>1. PICK e \in events : events' = events \ {e}
  BY DEF DeleteRow, Change
<1>2. events' \subseteq EventRow /\ Fits(events', head)
  BY <1>1 DEF LogSized, TypeOK, Fits
<1>3. \A g \in events' : g.hash # e.hash
  <2> SUFFICES ASSUME NEW g \in events', g.hash = e.hash PROVE FALSE
    OBVIOUS
  <2>1. g \in events /\ g # e
    BY <1>1
  <2>2. Len(g.hash) = g.seq /\ Len(e.hash) = e.seq
    BY <2>1, UntouchedRow
  <2>3. g.seq = e.seq
    BY <2>2
  <2> QED BY <2>1, <2>3 DEF Untouched, IInv, ChainIntegrity, Chained, Numbered
<1> QED BY <1>1, <1>2, <1>3, GoneIsMissed DEF Changed

LEMMA EditShows ==
  ASSUME LogSized, Untouched, EditRow PROVE Changed
<1>1. PICK e \in events, c \in Storable :
        c # e.content /\ \E h \in {e.hash, Digest(e.prev, c)} :
          Change((events \ {e}) \cup {[e EXCEPT !.content = c, !.hash = h]})
  BY DEF EditRow
<1>0. PICK h \in {e.hash, Digest(e.prev, c)} :
        Change((events \ {e}) \cup {[e EXCEPT !.content = c, !.hash = h]})
  BY <1>1
<1> DEFINE r == [e EXCEPT !.content = c, !.hash = h]
<1>2. /\ e \in EventRow /\ Len(e.hash) = e.seq /\ Len(e.prev) + 1 = e.seq
      /\ e.seq \in 1 .. head.seq /\ head.seq \in Nat
  BY UntouchedRow
<1>3. c \in Contents
  BY StoredAssumption DEF Storable
<1>4. e.prev \in Seq(Contents) /\ e.hash \in Seq(Contents) /\ e.seq \in Nat /\ e.content \in Contents
  BY <1>2 DEF EventRow, Hash
<1>5. Append(e.prev, c) \in Seq(Contents) /\ Len(Append(e.prev, c)) = Len(e.prev) + 1
  BY <1>3, <1>4
<1>6. h \in Hash /\ Len(h) = e.seq
  BY <1>2, <1>4, <1>5 DEF Digest, Hash
<1>7. r \in EventRow
  BY <1>2, <1>3, <1>6 DEF EventRow
<1>8. r.prev = e.prev /\ r.hash = h /\ r.content = c /\ r.seq = e.seq
  BY <1>2 DEF EventRow
<1> HIDE DEF r
<1>9. events' = (events \ {e}) \cup {r}
  BY <1>0 DEF r, Change
<1>10. events' \subseteq EventRow
  BY <1>7, <1>9 DEF LogSized, TypeOK
<1>11. Fits(events', head)
  BY <1>2, <1>6, <1>8, <1>9 DEF LogSized, Fits
<1>12. CASE h # Digest(e.prev, c)
  BY <1>8, <1>9, <1>10, <1>11, <1>12 DEF Unhashed, Scarred, Changed
<1>13. CASE h = Digest(e.prev, c)
  <2>1. PICK d \in Contents : e.content = Stored[d] /\ e.hash = Digest(e.prev, d)
    BY UntouchedRow
  <2>2. PICK b \in Contents : c = Stored[b]
    BY <1>1 DEF Storable
  <2>3. h # e.hash
    <3> SUFFICES ASSUME h = e.hash PROVE FALSE
      OBVIOUS
    <3>1. Append(e.prev, c) = Append(e.prev, d)
      BY <1>13, <2>1 DEF Digest
    <3>2. c = d
      <4>1. Append(e.prev, c)[Len(e.prev) + 1] = c /\ Append(e.prev, d)[Len(e.prev) + 1] = d
        BY <1>3, <1>4
      <4> QED BY <3>1, <4>1
    <3>3. e.content = Stored[Stored[b]]
      BY <2>1, <2>2, <3>2
    <3>4. e.content = Stored[b]
      BY <2>2, <3>3, ColumnAssumption
    <3> QED BY <1>1, <2>2, <3>4
  <2>4. \A g \in events' : g.hash # e.hash
    <3> SUFFICES ASSUME NEW g \in events', g # r, g.hash = e.hash PROVE FALSE
      BY <1>8, <2>3
    <3>1. g \in events /\ g # e
      BY <1>9
    <3>2. Len(g.hash) = g.seq
      BY <3>1, UntouchedRow
    <3>3. g.seq = e.seq
      BY <1>2, <3>2
    <3> QED BY <3>1, <3>3 DEF Untouched, IInv, ChainIntegrity, Chained, Numbered
  <2> QED BY <1>9, <1>10, <1>11, <2>4, GoneIsMissed DEF Changed
<1> QED BY <1>12, <1>13

LEMMA SwapShows ==
  ASSUME LogSized, Untouched, SwapRows PROVE Changed
<1>1. PICK e \in events, f \in events :
        /\ e.seq < f.seq
        /\ events' = (events \ {e, f}) \cup {[e EXCEPT !.seq = f.seq], [f EXCEPT !.seq = e.seq]}
  BY DEF SwapRows, Change
<1> DEFINE d == [e EXCEPT !.seq = f.seq]
           g == [f EXCEPT !.seq = e.seq]
<1>2. e \in EventRow /\ Len(e.hash) = e.seq /\ e.seq \in Nat
  BY UntouchedRow, RowLengths
<1>3. f \in EventRow /\ Len(f.hash) = f.seq /\ f.seq \in Nat
  BY UntouchedRow, RowLengths
<1>4. d \in EventRow /\ d.seq = f.seq /\ d.hash = e.hash /\ d.prev = e.prev
  BY <1>2, <1>3 DEF EventRow
<1>5. g \in EventRow /\ g.seq = e.seq /\ g.hash = f.hash /\ g.prev = f.prev
  BY <1>2, <1>3 DEF EventRow
<1> HIDE DEF d, g
<1>6. events' = (events \ {e, f}) \cup {d, g}
  BY <1>1 DEF d, g
<1>7. events' \subseteq EventRow
  BY <1>4, <1>5, <1>6 DEF LogSized, TypeOK
<1>8. Fits(events', head)
  BY <1>4, <1>5, <1>6 DEF LogSized, Fits
<1>9. g.seq < d.seq /\ Len(d.hash) < Len(g.hash)
  BY <1>1, <1>2, <1>3, <1>4, <1>5
<1>10. Disorder(events')
  BY <1>6, <1>9 DEF Disorder
<1> QED BY <1>7, <1>8, <1>10 DEF Scarred, Changed

LEMMA InsertShows ==
  ASSUME LogSized, Untouched, InsertRow PROVE Changed
<1> DEFINE r(e, c) == [seq |-> e.seq + 1, prev |-> e.hash, content |-> c, hash |-> Digest(e.hash, c)]
<1>1. PICK e \in events, c \in Storable :
        e.seq < head.seq /\ r(e, c) \notin events /\ events' = events \cup {r(e, c)}
  BY DEF InsertRow, Change
<1>2. c \in Contents
  BY StoredAssumption DEF Storable
<1>3. e \in EventRow /\ Len(e.hash) = e.seq /\ e.seq \in Nat /\ head.seq \in Nat
  BY UntouchedRow, RowLengths
<1>4. e.hash \in Seq(Contents)
  BY <1>3 DEF EventRow, Hash
<1>5. Append(e.hash, c) \in Seq(Contents) /\ Len(Append(e.hash, c)) = Len(e.hash) + 1
  BY <1>2, <1>4
<1>6. r(e, c) \in EventRow /\ r(e, c).prev = e.hash /\ Len(r(e, c).hash) = e.seq + 1
  BY <1>2, <1>3, <1>4, <1>5 DEF EventRow, Hash, Digest
<1> HIDE DEF r
<1>7. events' \subseteq EventRow
  BY <1>1, <1>6 DEF LogSized, TypeOK
<1>8. Fits(events', head)
  BY <1>1, <1>3, <1>6 DEF LogSized, Fits
<1>9. PICK f \in events : f.prev = e.hash
  BY <1>1, UntouchedRow
<1>10. Fork(events')
  BY <1>1, <1>6, <1>9 DEF Fork
<1> QED BY <1>7, <1>8, <1>10 DEF Scarred, Changed

LEMMA TamperShows ==
  ASSUME LogSized, Untouched, Tamper PROVE Changed
BY DeleteShows, EditShows, SwapShows, InsertShows DEF Tamper

LEMMA TamperLeaves ==
  ASSUME LogSized, Untouched, Tamper
  PROVE  /\ IsFiniteSet(events') /\ head.exists /\ head.seq > 0
         /\ MinLeft > 0 => events' # {}
<1>1. PICK e \in events : TRUE
  BY DEF Tamper, DeleteRow, EditRow, SwapRows, InsertRow
<1>2. head.exists /\ head.seq > 0
  <2>1. head.exists /\ e.seq \in 1 .. head.seq /\ head.seq \in Nat
    BY UntouchedRow
  <2> QED BY <2>1
<1>3. IsFiniteSet(events)
  BY DEF LogSized
<1>4. CASE DeleteRow
  <2>1. PICK d \in events : Cardinality(events) > MinLeft /\ events' = events \ {d}
    BY <1>4 DEF DeleteRow, Change
  <2>2. IsFiniteSet(events \ {d}) /\ Cardinality(events \ {d}) = Cardinality(events) - 1
    BY <1>3, FS_RemoveElement
  <2>3. Cardinality(events) \in Nat /\ MinLeft \in Nat
    BY <1>3, FS_CardinalityType, MinLeftAssumption
  <2>4. MinLeft > 0 => Cardinality(events') # 0
    BY <2>1, <2>2, <2>3
  <2> QED BY <1>2, <2>1, <2>2, <2>4, FS_EmptySet
<1>5. ASSUME NEW S \in SUBSET events, NEW T, IsFiniteSet(T), T # {}, Change(S \cup T)
      PROVE  IsFiniteSet(events') /\ events' # {}
  <2>1. IsFiniteSet(S)
    BY <1>3, FS_Subset
  <2>2. IsFiniteSet(S \cup T) /\ S \cup T # {}
    BY <1>5, <2>1, FS_Union
  <2> QED BY <1>5, <2>2 DEF Change
<1>6. ASSUME NEW S \in SUBSET events, NEW x, NEW y, Change(S \cup {x, y})
      PROVE  IsFiniteSet(events') /\ events' # {}
  <2>1. IsFiniteSet({x} \cup {y}) /\ {x, y} = {x} \cup {y}
    BY FS_Singleton, FS_Union
  <2>2. IsFiniteSet({x, y}) /\ {x, y} # {}
    BY <2>1
  <2> QED BY <1>5, <1>6, <2>2
<1>7. CASE EditRow
  <2>0. PICK d \in events : \E r : Change((events \ {d}) \cup {r})
    BY <1>7 DEF EditRow
  <2>1. PICK r : Change((events \ {d}) \cup {r})
    BY <2>0
  <2>2. {r, r} = {r} /\ events \ {d} \in SUBSET events
    OBVIOUS
  <2>3. Change((events \ {d}) \cup {r, r})
    BY <2>1, <2>2
  <2> QED BY <1>2, <1>6, <2>2, <2>3
<1>8. CASE SwapRows
  <2>0. PICK d \in events, f \in events : \E x, y : Change((events \ {d, f}) \cup {x, y})
    BY <1>8 DEF SwapRows
  <2>1. PICK x, y : Change((events \ {d, f}) \cup {x, y})
    BY <2>0
  <2>2. events \ {d, f} \in SUBSET events
    OBVIOUS
  <2> QED BY <1>2, <1>6, <2>1, <2>2
<1>9. CASE InsertRow
  <2>1. PICK r : Change(events \cup {r})
    BY <1>9 DEF InsertRow
  <2>2. {r, r} = {r} /\ events \in SUBSET events
    OBVIOUS
  <2>3. Change(events \cup {r, r})
    BY <2>1, <2>2
  <2> QED BY <1>2, <1>6, <2>2, <2>3
<1> QED BY <1>4, <1>7, <1>8, <1>9 DEF Tamper

-----------------------------------------------------------------------------
LEMMA TamperStep ==
  ASSUME TamperInv, Tamper PROVE TamperInv'
<1>1. /\ ~tampered /\ tampered'
      /\ UNCHANGED <<unchained, head, lock, pc, tx, started, verifyVars, after>>
  BY DEF Tamper, DeleteRow, EditRow, SwapRows, InsertRow, Change
<1>2. LogSized /\ Untouched
  BY <1>1 DEF TamperInv
<1>3. Changed /\ IsFiniteSet(events') /\ head.exists /\ head.seq > 0 /\ (MinLeft > 0 => events' # {})
  BY <1>2, TamperShows, TamperLeaves
<1>4. LogSized'
  <2>1. TypeOK' /\ HeadSized'
    BY <1>1, <1>2, <1>3 DEF LogSized, TypeOK, HeadSized, Changed
  <2>2. OpenSized'
    BY <1>1, <1>2 DEF LogSized, OpenSized, Continues, Sized
  <2> QED BY <1>1, <1>2, <1>3, <2>1, <2>2 DEF LogSized, Changed, Fits
<1>5. ChangeShows'
  <2>1. Scarred(events', head')
    BY <1>1, <1>3 DEF Changed
  <2> QED BY <1>1, <1>3, <2>1 DEF ChangeShows, Scarred, Unhashed, Fork, Disorder, Dangling, Headless
<1>6. ~after /\ ~after'
  BY <1>1 DEF TamperInv
<1>7. SnapTypes' /\ ReadHonest' /\ ReadScarred'
  BY <1>1, <1>6 DEF TamperInv, SnapTypes, ReadHonest, ReadScarred, verifyVars, Chained, Numbered, Linked, Hashed
<1>8. HonestAlarmsAreExplained' /\ TamperingIsReported'
  BY <1>1, <1>6 DEF TamperInv, HonestAlarmsAreExplained, AlarmsAreExplained, TamperingIsReported,
     verifyVars, Rounded
<1> QED BY <1>1, <1>4, <1>5, <1>6, <1>7, <1>8 DEF TamperInv

LEMMA ReadEventsStep ==
  ASSUME TamperInv, ReadEvents, after' = tampered, UNCHANGED tampered PROVE TamperInv'
<1>1. /\ UNCHANGED vars /\ snap' = [rows |-> events, unchained |-> unchained] /\ moved' = FALSE
      /\ IF events = {} /\ unchained = 0
         THEN verdict' = "valid" /\ vpc' = "idle"
         ELSE verdict' = "none"  /\ vpc' = "head"
  BY DEF ReadEvents
<1>2. snap'.rows = events /\ snap'.unchained = unchained
  BY <1>1
<1>3. UNCHANGED <<events, unchained, head, lock, pc, tx, started>>
  BY <1>1 DEF vars
<1>4. LogSized'
  <2>1. TypeOK' /\ HeadSized' /\ Fits(events, head)'
    BY <1>3 DEF TamperInv, LogSized, TypeOK, HeadSized, Fits
  <2>2. OpenSized'
    BY <1>3 DEF TamperInv, LogSized, OpenSized, Continues, Sized
  <2> QED BY <1>3, <2>1, <2>2 DEF TamperInv, LogSized
<1>5. SnapTypes'
  BY <1>2 DEF SnapTypes, TamperInv, LogSized, TypeOK
<1>6. ~tampered' => Untouched'
  <2>1. UNCHANGED vars /\ IInv => IInv'
    BY NextInv
  <2> QED BY <1>1, <1>3, <2>1 DEF TamperInv, Untouched, Sized
<1>7. ChangeShows'
  BY <1>3 DEF TamperInv, ChangeShows, Scarred, Unhashed, Fork, Disorder, Dangling, Headless
<1>8. ReadHonest'
  <2>1. ~after' => head \in HeadRow /\ Chained(events, head)
    BY DEF TamperInv, Untouched, IInv, ChainIntegrity, TypeOK
  <2>2. ~after' => head' \in HeadRow /\ Chained(snap'.rows, head') /\ head' = head'
    BY <1>2, <1>3, <2>1 
  <2> QED BY <1>1, <2>2 DEF ReadHonest, Chained, Numbered, Linked, Hashed
<1>9. ReadScarred'
  <2>1. after' => Fits(events, head) /\ Scarred(events, head) /\ (MinLeft > 0 => events # {})
    BY DEF TamperInv, LogSized, ChangeShows
  <2> QED BY <1>1, <1>2, <1>3, <2>1
          DEF ReadScarred, Fits, Scarred, Unhashed, Fork, Disorder, Dangling, Headless
<1>10. HonestAlarmsAreExplained' /\ (MinLeft > 0 => TamperingIsReported')
  BY <1>1 DEF TamperInv, ChangeShows, HonestAlarmsAreExplained, AlarmsAreExplained, TamperingIsReported
<1> QED BY <1>4, <1>5, <1>6, <1>7, <1>8, <1>9, <1>10 DEF TamperInv

LEMMA ReadHeadStep ==
  ASSUME TamperInv, ReadHead, UNCHANGED tamperVars PROVE TamperInv'
<1>1. PICK s \in Orders(snap.rows) : verdict' = Verdict(s, snap.unchained, head)
  BY DEF ReadHead
<1>2. vpc = "head" /\ vpc' = "idle" /\ UNCHANGED <<vars, snap, moved, tampered, after>>
  BY DEF ReadHead, tamperVars
<1>3. UNCHANGED <<events, unchained, head, lock, pc, tx, started>>
  BY <1>2 DEF vars
<1>4. LogSized' /\ SnapTypes'
  <2>1. TypeOK' /\ HeadSized' /\ Fits(events, head)' /\ SnapTypes'
    BY <1>2, <1>3 DEF TamperInv, LogSized, TypeOK, HeadSized, Fits, SnapTypes
  <2>2. OpenSized'
    BY <1>3 DEF TamperInv, LogSized, OpenSized, Continues, Sized
  <2> QED BY <1>3, <2>1, <2>2 DEF TamperInv, LogSized
<1>5. ~tampered' => Untouched'
  <2>1. UNCHANGED vars /\ IInv => IInv'
    BY NextInv
  <2> QED BY <1>2, <1>3, <2>1 DEF TamperInv, Untouched, Sized
<1>6. ChangeShows' /\ ReadHonest' /\ ReadScarred'
  BY <1>2, <1>3 DEF TamperInv, ChangeShows, Scarred, Unhashed, Fork, Disorder, Dangling, Headless,
     ReadHonest, ReadScarred
<1>7. SnapTypes
  BY DEF TamperInv
<1>8. HonestAlarmsAreExplained'
  <2> SUFFICES ASSUME ~after PROVE AlarmsAreExplained'
    BY <1>2 DEF HonestAlarmsAreExplained
  <2>1. PICK g \in HeadRow : Chained(snap.rows, g) /\ (moved \/ g = head)
    BY <1>2 DEF TamperInv, ReadHonest
  <2>2. \/ verdict' = "valid"
        \/ verdict' = "HEAD_MISMATCH" /\ head # g
        \/ verdict' = "CHAIN_BROKEN" /\ snap.unchained > 0
        \/ verdict' = "HASH_TAMPERED" /\ Rounded(snap.rows)
    BY <1>1, <1>7, <2>1, ChainIsExplained DEF SnapTypes
  <2> QED BY <1>2, <2>1, <2>2 DEF AlarmsAreExplained, Rounded
<1>9. MinLeft > 0 => TamperingIsReported'
  <2> SUFFICES ASSUME MinLeft > 0, after PROVE verdict' # "valid"
    BY <1>2 DEF TamperingIsReported
  <2>1. snap.rows # {} /\ Scarred(snap.rows, head)
    BY <1>2 DEF TamperInv, ReadScarred
  <2>2. head.exists
    BY DEF TamperInv, ChangeShows
  <2> QED BY <1>1, <1>7, <2>1, <2>2, ScarIsFound DEF SnapTypes
<1> QED BY <1>2, <1>4, <1>5, <1>6, <1>8, <1>9 DEF TamperInv

LEMMA HandlerStepKeeps ==
  ASSUME TamperInv, HandlerStep, UNCHANGED tamperVars PROVE TamperInv'
<1>1. Next /\ UNCHANGED <<vpc, snap, verdict, tampered, after>>
  BY DEF HandlerStep, tamperVars
<1>2. moved' = (moved \/ (vpc = "head" /\ events' # events))
  BY DEF HandlerStep
<1>3. LogSized
  BY DEF TamperInv
<1>4. LogSized' /\ SnapTypes'
  BY <1>1, LogSizedStep DEF TamperInv, SnapTypes
<1>5. \/ events' = events /\ head' = head
      \/ \E w \in Writers : CommitTx(w)
  BY <1>1, <1>3, OnlyCommitsPublish
<1>6. head \in HeadRow /\ head' \in HeadRow /\ head.seq \in Nat /\ head'.seq \in Nat
  BY <1>3, <1>4, HeadLengths DEF LogSized, TypeOK
<1>7. ~tampered' => Untouched'
  <2> SUFFICES ASSUME ~tampered PROVE Untouched'
    BY <1>1
  <2>1. IInv'
    BY <1>1, NextInv DEF TamperInv, Untouched
  <2>2. \A e \in events' : Sized(e)
    <3>1. ASSUME NEW w \in Writers, CommitTx(w) PROVE \A e \in events' : Sized(e)
      BY <1>3, <3>1, CommitPublishes DEF Published, TamperInv, Untouched
    <3> QED BY <1>5, <3>1 DEF TamperInv, Untouched
  <2> QED BY <2>1, <2>2 DEF Untouched, Sized
<1>8. ChangeShows'
  <2> SUFFICES ASSUME tampered PROVE ChangeShows'
    BY <1>1 DEF ChangeShows
  <2>1. head.exists /\ head.seq > 0 /\ Scarred(events, head) /\ (MinLeft > 0 => events # {})
    BY DEF TamperInv, ChangeShows
  <2>2. ASSUME NEW w \in Writers, CommitTx(w)
        PROVE  head'.exists /\ head'.seq > 0 /\ Scarred(events', head') /\ (MinLeft > 0 => events' # {})
    <3>1. Published(w)
      BY <1>3, <2>2, CommitPublishes
    <3>2. Scarred(events \cup tx[w].rows, head')
      BY <1>3, <1>6, <2>1, <3>1, ScarStays DEF LogSized, TypeOK, HeadSized, Published
    <3> QED BY <1>6, <2>1, <3>1, <3>2 DEF Published
  <2>3. head'.exists /\ head'.seq > 0 /\ Scarred(events', head') /\ (MinLeft > 0 => events' # {})
    BY <1>5, <2>1, <2>2
  <2> QED BY <2>3 DEF ChangeShows, Scarred, Unhashed, Fork, Disorder, Dangling, Headless
<1>9. ReadHonest'
  <2> SUFFICES ASSUME vpc = "head", ~after PROVE ReadHonest'
    BY <1>1 DEF ReadHonest
  <2>1. PICK g \in HeadRow : verdict = "none" /\ Chained(snap.rows, g) /\ (moved \/ g = head)
    BY DEF TamperInv, ReadHonest
  <2>2. moved' \/ g = head'
    <3>1. ASSUME NEW w \in Writers, CommitTx(w) PROVE events' # events
      <4>1. Published(w)
        BY <1>3, <3>1, CommitPublishes
      <4>2. PICK f \in tx[w].rows : Len(f.hash) > head.seq
        BY <4>1 DEF Published
      <4>3. f \notin events
        <5> SUFFICES ASSUME f \in events PROVE FALSE
          OBVIOUS
        <5>1. Len(f.hash) \in Nat /\ Len(f.hash) <= head.seq
          BY <1>3, RowLengths DEF LogSized, TypeOK, Fits
        <5> QED BY <1>6, <4>2, <5>1
      <4> QED BY <4>1, <4>2, <4>3 DEF Published
    <3> QED BY <1>2, <1>5, <2>1, <3>1
  <2>3. Chained(snap'.rows, g)
    BY <1>1, <2>1
  <2> QED BY <1>1, <2>1, <2>2, <2>3 DEF ReadHonest, Chained, Numbered, Linked, Hashed
<1>10. ReadScarred'
  <2> SUFFICES ASSUME vpc = "head", after PROVE ReadScarred'
    BY <1>1 DEF ReadScarred
  <2>1. /\ verdict = "none" /\ (MinLeft > 0 => snap.rows # {})
        /\ Fits(snap.rows, head) /\ Scarred(snap.rows, head)
    BY DEF TamperInv, ReadScarred
  <2>2. ASSUME NEW w \in Writers, CommitTx(w)
        PROVE  Scarred(snap.rows, head') /\ Fits(snap.rows, head')
    <3>1. Published(w)
      BY <1>3, <2>2, CommitPublishes
    <3> QED BY <1>6, <2>1, <3>1, ScarStaysBehind DEF Published, TamperInv, SnapTypes
  <2>3. Scarred(snap.rows, head') /\ Fits(snap.rows, head')
    BY <1>5, <2>1, <2>2
  <2> QED BY <1>1, <2>1, <2>3
          DEF ReadScarred, Fits, Scarred, Unhashed, Fork, Disorder, Dangling, Headless
<1>11. HonestAlarmsAreExplained'
  BY <1>1, <1>2 DEF TamperInv, HonestAlarmsAreExplained, AlarmsAreExplained, Rounded
<1>12. MinLeft > 0 => TamperingIsReported'
  BY <1>1 DEF TamperInv, TamperingIsReported
<1> QED BY <1>1, <1>4, <1>7, <1>8, <1>9, <1>10, <1>11, <1>12 DEF TamperInv

LEMMA TamperInitInv == TamperInit => TamperInv
<1> SUFFICES ASSUME TamperInit PROVE TamperInv
  OBVIOUS
<1>1. Init /\ VerifyInit /\ ~tampered /\ ~after
  BY DEF TamperInit
<1>2. IInv
  BY <1>1, InitInv
<1>3. LogSized
  <2>1. TypeOK /\ HeadSized /\ Fits(events, head)
    BY <1>1, <1>2 DEF IInv, Init, HeadSized, NoHead, Genesis, Fits
  <2>2. OpenSized
    BY <1>1, WritersAssumption DEF Init, OpenSized
  <2> QED BY <1>1, <2>1, <2>2, FS_EmptySet DEF LogSized, Init, NoTx
<1>4. SnapTypes
  BY <1>1, FS_EmptySet DEF SnapTypes, VerifyInit, NoSnap
<1> QED BY <1>1, <1>2, <1>3, <1>4
        DEF TamperInv, Untouched, Init, VerifyInit, ChangeShows, ReadHonest, ReadScarred,
            HonestAlarmsAreExplained, AlarmsAreExplained, TamperingIsReported

LEMMA TamperStutter ==
  ASSUME TamperInv, UNCHANGED <<vars, verifyVars, tamperVars>> PROVE TamperInv'
<1>1. UNCHANGED <<events, unchained, head, lock, pc, tx, started, vpc, snap, verdict, moved, tampered, after>>
  BY DEF vars, verifyVars, tamperVars
<1>2. LogSized' /\ SnapTypes'
  <2>1. TypeOK' /\ HeadSized' /\ Fits(events, head)' /\ SnapTypes'
    BY <1>1 DEF TamperInv, LogSized, TypeOK, HeadSized, Fits, SnapTypes
  <2>2. OpenSized'
    BY <1>1 DEF TamperInv, LogSized, OpenSized, Continues, Sized
  <2> QED BY <1>1, <2>1, <2>2 DEF TamperInv, LogSized
<1>3. ~tampered' => Untouched'
  <2>1. UNCHANGED vars /\ IInv => IInv'
    BY NextInv
  <2> QED BY <1>1, <2>1 DEF TamperInv, Untouched, Sized, vars
<1>4. ChangeShows'
  BY <1>1 DEF TamperInv, ChangeShows, Scarred, Unhashed, Fork, Disorder, Dangling, Headless
<1>5. ReadHonest'
  BY <1>1 DEF TamperInv, ReadHonest, Chained, Numbered, Linked, Hashed
<1>6. ReadScarred'
  BY <1>1 DEF TamperInv, ReadScarred, Scarred, Unhashed, Fork, Disorder, Dangling, Headless, Fits
<1>7. HonestAlarmsAreExplained' /\ (MinLeft > 0 => TamperingIsReported')
  BY <1>1 DEF TamperInv, HonestAlarmsAreExplained, AlarmsAreExplained, Rounded, TamperingIsReported
<1> QED BY <1>1, <1>2, <1>3, <1>4, <1>5, <1>6, <1>7 DEF TamperInv

THEOREM TamperInvHolds == TamperSpec => []TamperInv
<1>1. TamperInv /\ [TamperNext]_<<vars, verifyVars, tamperVars>> => TamperInv'
  BY TamperStep, ReadEventsStep, ReadHeadStep, HandlerStepKeeps, TamperStutter DEF TamperNext
<1> QED BY <1>1, TamperInitInv, PTL DEF TamperSpec

(* A verification that read the log before any change gives an alarm only  *)
(* for the three reasons AlarmsAreExplained names, whatever the handlers   *)
(* commit between its two queries.                                         *)
THEOREM HonestLogsRaiseNoFalseAlarm == TamperSpec => []HonestAlarmsAreExplained
<1>1. TamperInv => HonestAlarmsAreExplained
  BY DEF TamperInv
<1> QED BY <1>1, TamperInvHolds, PTL

(* No verification that starts after a row was deleted, edited, moved or   *)
(* inserted answers "valid", however much the handlers append first; only  *)
(* a deletion that leaves no row goes unseen (MinLeft > 0 excludes it).    *)
THEOREM TamperingIsDetected ==
  ASSUME MinLeft > 0
  PROVE  TamperSpec => []TamperingIsReported
<1>1. TamperInv => TamperingIsReported
  BY DEF TamperInv
<1> QED BY <1>1, TamperInvHolds, PTL
================================================================================

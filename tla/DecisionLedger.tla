---------------------------- MODULE DecisionLedger ----------------------------
(***************************************************************************)
(* What the decision pipeline and the execution gate promise together: a   *)
(* ledger with one entry per request id. An entry is decided once, for one *)
(* payload and for ever. A decision to ALLOW can be used once, unless it   *)
(* expires first; any other decision can never be used.                    *)
(***************************************************************************)
EXTENDS Integers

CONSTANTS Ids, Payloads, NoPayload

VARIABLE ledger   \* entry of each id

Outcomes == {"ALLOW", "DENY", "PENDING_APPROVAL"}

Open == [verdict |-> "none", payload |-> NoPayload, use |-> "none", uses |-> 0]

Entry(verdict, p) ==
  [verdict |-> verdict, payload |-> p, uses |-> 0,
   use |-> IF verdict = "ALLOW" THEN "ISSUED" ELSE "none"]

LedgerInit == ledger = [i \in Ids |-> Open]

DecideEntry(i) ==
  /\ ledger[i] = Open
  /\ \E verdict \in Outcomes, p \in Payloads : ledger' = [ledger EXCEPT ![i] = Entry(verdict, p)]

Used(e) == [verdict |-> e.verdict, payload |-> e.payload, use |-> "CONSUMED", uses |-> e.uses + 1]

UseEntry(i) ==
  /\ ledger[i].use = "ISSUED"
  /\ ledger' = [ledger EXCEPT ![i] = Used(@)]

ExpireEntry(i) ==
  /\ ledger[i].use = "ISSUED"
  /\ ledger' = [ledger EXCEPT ![i].use = "EXPIRED"]

LedgerNext == \E i \in Ids : DecideEntry(i) \/ UseEntry(i) \/ ExpireEntry(i)

LedgerSpec == LedgerInit /\ [][LedgerNext]_ledger
=============================================================================

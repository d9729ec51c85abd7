----------------------------- MODULE PoliciesPage -----------------------------
(***************************************************************************)
(* The read-only list of policies (Policies.tsx) and the endpoints that    *)
(* write them (routers/policies.py). An update numbers the new version by  *)
(* the versions it has read, in two statements that nothing locks.         *)
(***************************************************************************)
EXTENDS ApiClient

CONSTANTS
  Policies,      \* ids of policies
  MaxRevision    \* bound: versions of a policy

ASSUME MaxRevisionAssumption == MaxRevision \in Nat \ {0}

VARIABLE versions   \* version_number of each row of each policy, as inserted

policiesVars == <<route, page, calls, versions>>

PoliciesPath == "/policies"

NoPolicy == "none"
ASSUME NoPolicyAssumption == NoPolicy \notin Policies

NoSelection == [policy |-> NoPolicy, version |-> 0]

PoliciesMounted ==
  [policies |-> [p \in Policies |-> 0], loading |-> TRUE, isRefreshing |-> FALSE,
   selectedPolicy |-> NoSelection]

FetchPolicies == Request("getPolicies", NoPolicy, "page")

-----------------------------------------------------------------------------
(* Server                                                                  *)

NumbersOf(p) == {versions[p][n] : n \in DOMAIN versions[p]}

\* The version shown is the one with the highest number; 0: no such policy.
Latest(p) == IF versions[p] = <<>> THEN 0
             ELSE CHOOSE v \in NumbersOf(p) : \A w \in NumbersOf(p) : w <= v

ServePolicies(i) ==
  /\ calls[i].op = "getPolicies" /\ calls[i].stage = "sent"
  /\ calls' = Served(i, Ok([p \in Policies |-> Latest(p)]))
  /\ UNCHANGED <<page, versions>>

CreatePolicy(p) ==
  /\ versions[p] = <<>>
  /\ versions' = [versions EXCEPT ![p] = <<1>>]
  /\ UNCHANGED <<page, calls>>

\* update_policy is called by other clients than the console.
StartUpdate(p) ==
  /\ Room /\ versions[p] # <<>> /\ Latest(p) < MaxRevision
  /\ calls' = ForeignCall("updatePolicy", p)
  /\ UNCHANGED <<page, versions>>

\* The versions of the policy are read, and the next number is theirs.
ReadVersions(i) ==
  /\ calls[i].op = "updatePolicy" /\ calls[i].stage = "sent"
  /\ calls' = [calls EXCEPT ![i] =
                  [@ EXCEPT !.stage = "numbered", !.answer = Ok(Latest(calls[i].arg) + 1)]]
  /\ UNCHANGED <<page, versions>>

\* Mutant: the pair of policy and number is not unique.
InsertAnyVersion(i) ==
  /\ calls[i].stage = "numbered"
  /\ versions' = [versions EXCEPT ![calls[i].arg] = Append(@, calls[i].answer.value)]
  /\ calls' = Served(i, calls[i].answer)
  /\ UNCHANGED page

\* The row is inserted, unless another update took the number, or the
\* transaction is lost.
InsertVersion(i) ==
  /\ calls[i].stage = "numbered"
  /\ LET p == calls[i].arg
         n == calls[i].answer.value
     IN  \/ /\ n \notin NumbersOf(p)
            /\ versions' = [versions EXCEPT ![p] = Append(@, n)]
         \/ UNCHANGED versions
  /\ calls' = Served(i, calls[i].answer)
  /\ UNCHANGED page

-----------------------------------------------------------------------------
(* Page                                                                    *)

\* The button is there while the first fetch is under way, too.
RefreshPolicies ==
  /\ ~page.isRefreshing /\ Room
  /\ page' = [page EXCEPT !.isRefreshing = TRUE]
  /\ calls' = Append(calls, FetchPolicies)
  /\ UNCHANGED versions

PoliciesAnswered(i, a, rest) ==
  /\ calls[i].op = "getPolicies"
  /\ page' = [page EXCEPT !.policies = IF a.ok THEN a.value ELSE @,
                          !.loading = FALSE, !.isRefreshing = FALSE]
  /\ calls' = rest
  /\ UNCHANGED versions

\* The viewer keeps the policy as it was listed.
ViewPolicy ==
  /\ ~page.loading
  /\ \E p \in Policies :
       /\ page.policies[p] # 0
       /\ page' = [page EXCEPT !.selectedPolicy = [policy |-> p, version |-> page.policies[p]]]
  /\ UNCHANGED <<calls, versions>>

ClosePolicyViewer ==
  /\ page.selectedPolicy # NoSelection
  /\ page' = [page EXCEPT !.selectedPolicy = NoSelection]
  /\ UNCHANGED <<calls, versions>>

HearPolicies(i) ==
  calls[i].stage = "served" /\ PoliciesAnswered(i, calls[i].answer, Heard(i))

GiveUpPolicies(i) == PoliciesAnswered(i, NoResponse, GivenUp(i))

-----------------------------------------------------------------------------
PoliciesServerInit == versions \in [Policies -> {<<>>, <<1>>}]

ReturnToPolicies == Remount(PoliciesMounted, FetchPolicies) /\ UNCHANGED versions

PoliciesMount ==
  /\ route = PoliciesPath
  /\ page = PoliciesMounted
  /\ calls = <<FetchPolicies>>

PoliciesInit == PoliciesMount /\ PoliciesServerInit

PoliciesNext ==
  /\ On(PoliciesPath)
  /\ \/ RefreshPolicies \/ ViewPolicy \/ ClosePolicyViewer \/ ReturnToPolicies
     \/ \E p \in Policies : CreatePolicy(p) \/ StartUpdate(p)
     \/ \E i \in DOMAIN calls :
          \/ ServePolicies(i) \/ ReadVersions(i) \/ InsertVersion(i)
          \/ HearPolicies(i) \/ GiveUpPolicies(i)
     \/ \E i \in DOMAIN calls : LoseRequest(i) /\ UNCHANGED versions

PoliciesSpec == PoliciesInit /\ [][PoliciesNext]_policiesVars

-----------------------------------------------------------------------------
(* Properties                                                              *)

PoliciesTypeOK ==
  /\ route = PoliciesPath =>
     page \in [policies : [Policies -> Nat], loading : BOOLEAN, isRefreshing : BOOLEAN,
               selectedPolicy : [policy : Policies, version : Nat \ {0}] \cup {NoSelection}]
  /\ versions \in [Policies -> Seq(Nat \ {0})]

\* The versions of a policy are numbered 1, 2, 3, ... in the order of their
\* commits, whatever updates read and inserted at the same time.
VersionsAreConsecutive ==
  \A p \in Policies : \A n \in DOMAIN versions[p] : versions[p][n] = n
=============================================================================

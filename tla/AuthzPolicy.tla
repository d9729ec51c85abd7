----------------------------- MODULE AuthzPolicy -----------------------------
(***************************************************************************)
(* How evaluate_request asks the policy: the enabled permissions of the    *)
(* agent are read, OPA evaluates the rules of authz.rego over them, and a  *)
(* second query looks up the approval threshold. Between the two queries   *)
(* permissions are created and deleted. In Authorization the policy        *)
(* answers anything: here is what it does answer. Both gates are open,     *)
(* since evaluate_request has denied the request otherwise. Requests share *)
(* nothing but the table they read, so there is one at a time.             *)
(***************************************************************************)
EXTENDS Integers, FiniteSets

CONSTANTS
  Rows,          \* ids of rows of agent_permissions, all of one agent
  Permissions,   \* contents of rows; an action is one on a type of resource
  Requests,      \* what is asked for, and whether the threshold is skipped
  Null,          \* NULL in PostgreSQL, null in JSON
  MaxSeen        \* bound: contents in the table during one evaluation

ASSUME NullAssumption == Null \notin Permissions /\ Null # {}

\* get_agent_permissions names every key.
ASSUME PermissionsAssumption ==
  \A p \in Permissions :
    {"action", "max_amount", "allowed_currencies", "allowed_accounts"} \subseteq DOMAIN p

VARIABLES
  table,   \* contents of each row, Gone when there is no such row
  job,     \* the request that is evaluated
  \* History, since its evaluation began.
  seen,    \* contents of the rows that were in the table at any moment
  stayed   \* rows that were in the table all the time

authzVars == <<table, job, seen, stayed>>

Gone == Null
Present == {r \in Rows : table[r] # Gone}

Idle == [stage |-> "idle", request |-> Null, permissions |-> {}, reason |-> "none"]

-----------------------------------------------------------------------------
(* authz.rego. A permission arrives with every key, and null for NULL. In  *)
(* Rego `not v' holds of what is undefined or false, so it holds of a key  *)
(* that is missing and not of null. null is less than every number, counts *)
(* as nothing that has elements, and is not even empty.                    *)

Missing(permission, key) == key \notin DOMAIN permission
AtLeast(v, n) == v # Null /\ v >= n
CountIsZero(v) == v = {}
In(x, v) == v # Null /\ x \in v

is_amount_allowed(permission, request) ==
  Missing(permission, "max_amount") \/ AtLeast(permission.max_amount, request.amount)

is_currency_allowed(permission, request) ==
  \/ Missing(permission, "allowed_currencies")
  \/ CountIsZero(permission.allowed_currencies)
  \/ In(request.currency, permission.allowed_currencies)

is_account_allowed(permission, request) ==
  \/ Missing(permission, "allowed_accounts")
  \/ CountIsZero(permission.allowed_accounts)
  \/ In(request.resource_id, permission.allowed_accounts)

\* Mutant: each condition may be met by a permission of its own.
mixed_permission(permissions, request) ==
  /\ \E p \in permissions : p.action = request.action
  /\ \E p \in permissions : is_amount_allowed(p, request)
  /\ \E p \in permissions : is_currency_allowed(p, request)
  /\ \E p \in permissions : is_account_allowed(p, request)

has_permission(permissions, request) ==
  \E p \in permissions :
    /\ p.action = request.action
    /\ is_amount_allowed(p, request)
    /\ is_currency_allowed(p, request)
    /\ is_account_allowed(p, request)

-----------------------------------------------------------------------------
(* Permissions                                                             *)

CreatePermission(r, p) ==
  /\ table[r] = Gone
  /\ table' = [table EXCEPT ![r] = p]
  /\ IF job = Idle THEN UNCHANGED seen
     ELSE seen' = seen \cup {p} /\ Cardinality(seen') <= MaxSeen
  /\ UNCHANGED <<job, stayed>>

DeletePermission(r) ==
  /\ table[r] # Gone
  /\ table' = [table EXCEPT ![r] = Gone]
  /\ stayed' = stayed \ {r}
  /\ UNCHANGED <<job, seen>>

-----------------------------------------------------------------------------
(* evaluate_request                                                        *)

At(stage) == job.stage = stage
Deny(reason) == job' = [job EXCEPT !.stage = "DENY", !.reason = reason]

Arrive(q) ==
  /\ job = Idle
  /\ job' = [Idle EXCEPT !.stage = "gated", !.request = q]
  /\ seen' = {table[r] : r \in Present} /\ stayed' = Present
  /\ UNCHANGED table

\* Mutant: disabled permissions are sent, too.
ReadAllPermissions ==
  /\ At("gated")
  /\ \/ job' = [job EXCEPT !.stage = "resolved",
                  !.permissions = {table[r] : r \in Present}]
     \/ Deny("INFRASTRUCTURE_FAILURE")
  /\ UNCHANGED <<table, seen, stayed>>

ReadPermissions ==
  /\ At("gated")
  /\ \/ job' = [job EXCEPT !.stage = "resolved",
                  !.permissions = {table[r] : r \in {s \in Present : table[s].enabled}}]
     \/ Deny("INFRASTRUCTURE_FAILURE")
  /\ UNCHANGED <<table, seen, stayed>>

\* The decision of OPA. When OPA does not answer, or does not know the policy,
\* the request is denied.
EvaluatePolicy ==
  /\ At("resolved")
  /\ \/ /\ has_permission(job.permissions, job.request)
        /\ job' = [job EXCEPT !.stage = "permitted"]
     \/ /\ ~has_permission(job.permissions, job.request)
        /\ Deny("PERMISSION_DENIED")
     \/ Deny("POLICY_EVALUATION_FAILED")
     \/ Deny("POLICY_DENY")
  /\ UNCHANGED <<table, seen, stayed>>

\* The threshold of whichever row for the action comes first, enabled or not.
Thresholds(q) ==
  LET rows == {r \in Present : table[r].action = q.action}
  IN  IF rows = {} THEN {Null} ELSE {table[r].requires_approval_above : r \in rows}

Exceeds(q, threshold) == threshold # Null /\ q.amount > threshold

\* Above the threshold an operator is asked. A re-evaluation looks for none.
CheckThreshold ==
  /\ At("permitted")
  /\ \/ \E threshold \in IF job.request.skip_approval_check THEN {Null}
                         ELSE Thresholds(job.request) :
          job' = [job EXCEPT !.stage = IF Exceeds(job.request, threshold)
                                       THEN "PENDING_APPROVAL" ELSE "ALLOW"]
     \/ ~job.request.skip_approval_check /\ Deny("INFRASTRUCTURE_FAILURE")
  /\ UNCHANGED <<table, seen, stayed>>

Verdicts == {"ALLOW", "PENDING_APPROVAL", "DENY"}

\* What follows, budgets and recording, is the business of Authorization.
Leave ==
  /\ job.stage \in Verdicts
  /\ job' = Idle /\ seen' = {} /\ stayed' = {}
  /\ UNCHANGED table

-----------------------------------------------------------------------------
AuthzInit ==
  /\ table = [r \in Rows |-> Gone]
  /\ job = Idle /\ seen = {} /\ stayed = {}

AuthzNext ==
  \/ \E r \in Rows, p \in Permissions : CreatePermission(r, p)
  \/ \E r \in Rows : DeletePermission(r)
  \/ \E q \in Requests : Arrive(q)
  \/ ReadPermissions \/ EvaluatePolicy \/ CheckThreshold \/ Leave

AuthzSpec == AuthzInit /\ [][AuthzNext]_authzVars

-----------------------------------------------------------------------------
(* Properties                                                              *)

\* A direct reading: an enabled permission grants what it names, up to its
\* limit, in the currencies and from the accounts of its lists, of which an
\* empty one names all. NULL grants nothing.
Grants(p, q) ==
  /\ p.enabled /\ p.action = q.action
  /\ p.max_amount # Null /\ q.amount <= p.max_amount
  /\ p.allowed_currencies # Null /\ p.allowed_accounts # Null
  /\ p.allowed_currencies = {} \/ q.currency \in p.allowed_currencies
  /\ p.allowed_accounts = {} \/ q.resource_id \in p.allowed_accounts

\* What gets past the policy is granted by one enabled permission that was in
\* the table while the request was evaluated, and what is denied for want of
\* a permission by none that was there all the time: whatever is created and
\* deleted meanwhile, and whatever part of the pipeline fails. An operator is
\* asked only above the threshold of some row of the action, and is asked above
\* the thresholds of all such rows, if one of them was there all the time.
PolicyFollowsPermissions ==
  LET q == job.request
      OnAction == {p \in seen : p.action = q.action}
  IN  /\ job.stage \in {"permitted", "ALLOW", "PENDING_APPROVAL"} => \E p \in seen : Grants(p, q)
      /\ job.reason = "PERMISSION_DENIED" => \A r \in stayed : ~Grants(table[r], q)
      /\ At("PENDING_APPROVAL") => \E p \in OnAction : Exceeds(q, p.requires_approval_above)
      /\ At("ALLOW") /\ ~q.skip_approval_check =>
           \/ \E p \in OnAction : ~Exceeds(q, p.requires_approval_above)
           \/ \A r \in stayed : table[r].action # q.action
=============================================================================

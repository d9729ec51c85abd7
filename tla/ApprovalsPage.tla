---------------------------- MODULE ApprovalsPage ----------------------------
(***************************************************************************)
(* The inbox of the approval workflow (Approvals.tsx) and the answers of   *)
(* the endpoints behind it. What an approval does to budgets and to the    *)
(* audit log is the business of Authorization; here an approval has two    *)
(* steps, because the row is free between the commit of the re-evaluation  *)
(* and the commit of the status.                                           *)
(***************************************************************************)
EXTENDS ApiClient

CONSTANT Approvals   \* ids of approval requests

VARIABLES
  approval,    \* status of each request, "absent" until an agent makes it
  authorized   \* requests whose re-evaluation issued an authorization

approvalRows == <<approval, authorized>>
approvalsVars == <<route, page, calls, approvalRows>>

ApprovalsPath == "/approvals"

NoId == "none"
ASSUME NoIdAssumption == NoId \notin Approvals

ApprovalStatuses == {"absent", "PENDING", "APPROVED", "DENIED", "EXPIRED"}
ApprovalCommands == {"approveRequest", "denyRequest"}
NoConfirm == [id |-> NoId, action |-> "none"]
Toasted(m, r) == [message |-> m, id |-> r]

ApprovalsMounted ==
  [approvals |-> [r \in Approvals |-> "absent"], statusFilter |-> "PENDING",
   loading |-> TRUE, isRefreshing |-> FALSE, actionInProgressId |-> NoId,
   confirmAction |-> NoConfirm, toast |-> Toasted("none", NoId)]

\* fetchApprovalList belongs to the filter of the render that made it.
FetchApprovalList(filter, by) == Request("getApprovals", [id |-> NoId, filter |-> filter], by)

-----------------------------------------------------------------------------
(* Server                                                                  *)

InboxInit ==
  /\ approval \in [Approvals -> {"absent", "PENDING"}]
  /\ authorized = {}

Listed(filter) ==
  [r \in Approvals |-> IF filter = "ALL" \/ approval[r] = filter THEN approval[r] ELSE "absent"]

ServeApprovals(i) ==
  /\ calls[i].op = "getApprovals" /\ calls[i].stage = "sent"
  /\ calls' = Served(i, Ok(Listed(calls[i].arg.filter)))
  /\ UNCHANGED <<page, approvalRows>>

RequestApproval(r) ==
  /\ approval[r] = "absent"
  /\ approval' = [approval EXCEPT ![r] = "PENDING"]
  /\ UNCHANGED <<page, calls, authorized>>

Reached(i, op) == calls[i].op = op /\ calls[i].stage = "sent"

\* The row is no longer pending.
RefuseProcessed(i) ==
  /\ \/ /\ Reached(i, "approveRequest")
        /\ calls' = Served(i, Failed("Cannot approve request with status"))
     \/ /\ Reached(i, "denyRequest")
        /\ calls' = Served(i, Failed("Cannot deny request with status"))
  /\ approval[calls[i].arg.id] # "PENDING"
  /\ UNCHANGED <<page, approvalRows>>

\* More than 15 minutes have passed.
ExpireOnApprove(i) ==
  /\ Reached(i, "approveRequest") /\ approval[calls[i].arg.id] = "PENDING"
  /\ approval' = [approval EXCEPT ![calls[i].arg.id] = "EXPIRED"]
  /\ calls' = Served(i, Failed("Approval request has expired"))
  /\ UNCHANGED <<page, authorized>>

\* The re-evaluation is committed, or fails and nothing changes.
ReEvaluate(i) ==
  /\ Reached(i, "approveRequest") /\ approval[calls[i].arg.id] = "PENDING"
  /\ \/ /\ authorized' = authorized \cup {calls[i].arg.id}
        /\ calls' = [calls EXCEPT ![i].stage = "allowed"]
     \/ /\ calls' = [calls EXCEPT ![i].stage = "refused"]
        /\ UNCHANGED authorized
     \/ /\ calls' = Served(i, ServerError)
        /\ UNCHANGED authorized
  /\ UNCHANGED <<page, approval>>

\* Mutant: the status is left to a later job, the answer says success.
WriteNoOutcome(i) ==
  /\ calls[i].stage \in {"allowed", "refused"}
  /\ \/ calls' = Served(i, Ok("ALLOW"))
     \/ calls' = Served(i, ServerError)
  /\ UNCHANGED <<page, approval, authorized>>

\* Then the status is committed, or the handler dies before it.
WriteOutcome(i) ==
  /\ calls[i].stage \in {"allowed", "refused"}
  /\ \/ /\ approval' = [approval EXCEPT ![calls[i].arg.id] =
                          IF calls[i].stage = "allowed" THEN "APPROVED" ELSE "DENIED"]
        /\ calls' = Served(i, IF calls[i].stage = "allowed" THEN Ok("ALLOW")
                              ELSE Failed("Approval re-evaluation resulted in DENY"))
     \/ /\ calls' = Served(i, ServerError)
        /\ UNCHANGED approval
  /\ UNCHANGED <<page, authorized>>

\* A denial writes a second AUTHORIZATION_DECISION with the request id of the
\* first, which the unique index rejects: the transaction is rolled back.
DenyPending(i) ==
  /\ Reached(i, "denyRequest") /\ approval[calls[i].arg.id] = "PENDING"
  /\ calls' = Served(i, ServerError)
  /\ UNCHANGED <<page, approvalRows>>

ForeignApprovalCommand ==
  /\ Room
  /\ \E op \in ApprovalCommands, r \in Approvals :
       /\ approval[r] # "absent"
       /\ calls' = ForeignCall(op, [id |-> r, filter |-> "PENDING"])
  /\ UNCHANGED <<page, approvalRows>>

-----------------------------------------------------------------------------
(* Page                                                                    *)

\* Mutant: polling stops while the operator is asked to confirm.
PollUnlessAsking ==
  /\ Room /\ page.confirmAction = NoConfirm
  /\ calls' = Append(calls, FetchApprovalList(page.statusFilter, "page"))
  /\ UNCHANGED <<page, approvalRows>>

PollApprovals ==
  /\ Room
  /\ calls' = Append(calls, FetchApprovalList(page.statusFilter, "page"))
  /\ UNCHANGED <<page, approvalRows>>

RefreshApprovals ==
  /\ ~page.isRefreshing /\ Room
  /\ page' = [page EXCEPT !.isRefreshing = TRUE]
  /\ calls' = Append(calls, FetchApprovalList(page.statusFilter, "page"))
  /\ UNCHANGED approvalRows

\* A new filter makes a new fetch function: the effect runs again, and starts
\* with a fetch. Answers to the old function are shown like any other.
ChangeFilter ==
  /\ Room
  /\ \E filter \in {"PENDING", "ALL"} \ {page.statusFilter} :
       /\ page' = [page EXCEPT !.statusFilter = filter]
       /\ calls' = Append(calls, FetchApprovalList(filter, "page"))
  /\ UNCHANGED approvalRows

\* Requests shown as pending have two buttons; those of the request in
\* progress are disabled.
OpenApprovalDialog ==
  /\ ~page.loading
  /\ \E r \in Approvals, action \in {"approve", "deny"} :
       /\ page.approvals[r] = "PENDING" /\ page.actionInProgressId # r
       /\ page' = [page EXCEPT !.confirmAction = [id |-> r, action |-> action]]
  /\ UNCHANGED <<calls, approvalRows>>

CancelApprovalDialog ==
  /\ page.confirmAction # NoConfirm /\ page.actionInProgressId = NoId
  /\ DialogAnswers(page.actionInProgressId = page.confirmAction.id)
  /\ page' = [page EXCEPT !.confirmAction = NoConfirm]
  /\ UNCHANGED <<calls, approvalRows>>

CloseToast ==
  /\ page.toast.message # "none"
  /\ page' = [page EXCEPT !.toast = Toasted("none", NoId)]
  /\ UNCHANGED <<calls, approvalRows>>

\* The button of the dialog is disabled for the request in progress, the
\* handler refuses to start while any request is.
ExecuteApprovalAction ==
  /\ page.confirmAction # NoConfirm /\ page.actionInProgressId = NoId
  /\ DialogAnswers(page.actionInProgressId = page.confirmAction.id) /\ Room
  /\ LET confirmed == page.confirmAction
     IN  /\ page' = [page EXCEPT !.actionInProgressId = confirmed.id]
         /\ calls' = Append(calls,
              Request(IF confirmed.action = "approve" THEN "approveRequest" ELSE "denyRequest",
                      [id |-> confirmed.id, filter |-> page.statusFilter], "handler"))
  /\ UNCHANGED approvalRows

ListAnswered(i, a, rest) ==
  /\ calls[i].op = "getApprovals" /\ calls[i].by \in Waiting
  /\ page' = [page EXCEPT
                !.approvals = IF a.ok THEN a.value ELSE @,
                !.toast = IF a.ok THEN @ ELSE Toasted("Failed to fetch approvals", NoId),
                !.loading = FALSE, !.isRefreshing = FALSE,
                !.actionInProgressId = IF calls[i].by = "handler" THEN NoId ELSE @]
  /\ calls' = rest
  /\ UNCHANGED approvalRows

\* The words that the handler looks for in the message of a failed call.
Mentions(message) ==
  CASE message \in {"Cannot approve request with status", "Cannot deny request with status",
                    "Request failed with status code 500"} -> {"status"}
    [] message = "Approval request has expired" -> {"expired"}
    [] OTHER -> {}

Notice(op, a) ==
  CASE a.ok /\ op = "approveRequest" -> "approved"
    [] a.ok /\ op = "denyRequest" -> "denied"
    [] ~a.ok /\ Mentions(a.value) \cap {"already", "status"} # {} -> "already been processed"
    [] ~a.ok /\ Mentions(a.value) = {"expired"} -> "expired"
    [] OTHER -> "failed"

ApprovalCommandAnswered(i, a, rest) ==
  /\ calls[i].op \in ApprovalCommands /\ calls[i].by = "handler"
  /\ page' = [page EXCEPT !.toast = Toasted(Notice(calls[i].op, a), calls[i].arg.id),
                          !.confirmAction = NoConfirm]
  /\ calls' = Append(rest, FetchApprovalList(calls[i].arg.filter, "handler"))
  /\ UNCHANGED approvalRows

HearApprovals(i) ==
  /\ calls[i].stage = "served"
  /\ \/ ListAnswered(i, calls[i].answer, Heard(i))
     \/ ApprovalCommandAnswered(i, calls[i].answer, Heard(i))

GiveUpApprovals(i) ==
  \/ ListAnswered(i, NoResponse, GivenUp(i))
  \/ ApprovalCommandAnswered(i, NoResponse, GivenUp(i))

-----------------------------------------------------------------------------
ReturnToApprovals ==
  Remount(ApprovalsMounted, FetchApprovalList("PENDING", "page")) /\ UNCHANGED approvalRows

ApprovalsMount ==
  /\ route = ApprovalsPath
  /\ page = ApprovalsMounted
  /\ calls = <<FetchApprovalList("PENDING", "page")>>

ApprovalsInit == ApprovalsMount /\ InboxInit

ServeApproval(i) ==
  \/ ServeApprovals(i) \/ RefuseProcessed(i) \/ ExpireOnApprove(i)
  \/ ReEvaluate(i) \/ WriteOutcome(i) \/ DenyPending(i)

ApprovalsPageNext ==
  \/ PollApprovals \/ RefreshApprovals \/ ChangeFilter
  \/ OpenApprovalDialog \/ CancelApprovalDialog \/ ExecuteApprovalAction \/ CloseToast
  \/ \E i \in DOMAIN calls : HearApprovals(i) \/ GiveUpApprovals(i)

ApprovalsNext ==
  /\ On(ApprovalsPath)
  /\ \/ ApprovalsPageNext \/ ForeignApprovalCommand \/ ReturnToApprovals
     \/ \E r \in Approvals : RequestApproval(r)
     \/ \E i \in DOMAIN calls : ServeApproval(i)
     \/ \E i \in DOMAIN calls : LoseRequest(i) /\ UNCHANGED approvalRows

ApprovalsSpec == ApprovalsInit /\ [][ApprovalsNext]_approvalsVars

ApprovalsFairness ==
  /\ WF_approvalsVars(On(ApprovalsPath) /\ PollApprovals)
  /\ WF_approvalsVars(On(ApprovalsPath) /\ \E i \in {1} \cap DOMAIN calls : ServeApproval(i))
  /\ WF_approvalsVars(On(ApprovalsPath) /\ \E i \in {1} \cap DOMAIN calls : HearApprovals(i))

ApprovalsFairSpec == ApprovalsSpec /\ ApprovalsFairness

-----------------------------------------------------------------------------
(* Properties                                                              *)

ApprovalsTypeOK ==
  /\ route = ApprovalsPath =>
     page \in [approvals : [Approvals -> ApprovalStatuses], statusFilter : {"PENDING", "ALL"},
               loading : BOOLEAN, isRefreshing : BOOLEAN,
               actionInProgressId : Approvals \cup {NoId},
               confirmAction : [id : Approvals, action : {"approve", "deny"}] \cup {NoConfirm},
               toast : [message : {"none", "approved", "denied", "already been processed", "expired",
                                   "failed", "Failed to fetch approvals"},
                        id : Approvals \cup {NoId}]]
  /\ approval \in [Approvals -> ApprovalStatuses] /\ authorized \subseteq Approvals

\* One approval or denial of the page at a time, whichever request it is for.
OneApprovalCommand ==
  LET handled == {i \in DOMAIN calls : calls[i].by = "handler"}
  IN  route = ApprovalsPath =>
      /\ \A i, j \in handled : i = j
      /\ page.actionInProgressId # NoId <=> handled # {}

\* What the operator is told about an outcome was so: an approved request has
\* an authorization, a denied, an expired or an approved one is not pending.
NoticesAreTrue ==
  LET r == page.toast.id
  IN  route = ApprovalsPath =>
      /\ page.toast.message = "approved" => r \in authorized
      /\ page.toast.message \in {"approved", "denied", "expired"} => approval[r] # "PENDING"

\* When nothing but polls and their answers happens any more, the page lists
\* what the filter asks for in the end and for good.
ListPollsOnly ==
  /\ On(ApprovalsPath)
  /\ \/ PollApprovals
     \/ \E i \in DOMAIN calls : ServeApprovals(i) \/ HearApprovals(i)

InboxSettles ==
  <>[][ListPollsOnly]_approvalsVars =>
    <>[](route = ApprovalsPath => page.approvals = Listed(page.statusFilter))
=============================================================================

------------------------------ MODULE ApiClient ------------------------------
(***************************************************************************)
(* The operator console (src/frontend): what its pages share. One page is  *)
(* mounted at a time. Its state hooks are the record `page'. Every call of *)
(* api/*.ts goes through one axios instance: `calls' holds the requests    *)
(* under way, in the order they were sent. The server answers them in any  *)
(* order, and the client gives up on any of them after ten seconds.        *)
(*                                                                         *)
(* A page that is left, or a handler that stopped waiting, hears nothing,  *)
(* but a command that was sent may still be executed: a call by "nobody".  *)
(* So are the commands of other operators.                                 *)
(***************************************************************************)
EXTENDS Integers, Sequences, FiniteSets

CONSTANT MaxCalls   \* bound: requests under way when another one is sent

ASSUME MaxCallsAssumption == MaxCalls \in Nat

VARIABLES
  route,  \* path of the page that is mounted
  page,   \* state hooks of the mounted page
  calls   \* requests under way, in the order they were sent

\* Requests that change something on the server.
Commands == {"emergencyStopFleet", "resumeFleet", "approveRequest", "denyRequest",
             "quarantineAgent", "restoreAgent", "authorizeRequest", "updatePolicy"}

\* Who waits for an answer: the fetch function of the page, or the fetch or
\* the command that its handler awaits.
Waiting == {"page", "handler"}

Ok(v)     == [ok |-> TRUE,  value |-> v]
Failed(m) == [ok |-> FALSE, value |-> m]

\* The message of the ApiError that a failed call is rejected with. The text
\* of axios is used when the server gave no detail.
ErrorMessage(status, detail, axiosMessage) ==
  CASE status = 401 -> "Unauthorized. Please authenticate."
    [] status # 401 /\ detail # "none" -> detail
    [] status = 403 /\ detail = "none" -> "You are not authorized to perform this operation."
    [] OTHER -> axiosMessage

NoResponse  == Failed(ErrorMessage(0, "none", "timeout of 10000ms exceeded"))
ServerError == Failed(ErrorMessage(500, "none", "Request failed with status code 500"))

-----------------------------------------------------------------------------
Request(op, arg, by) ==
  [op |-> op, arg |-> arg, by |-> by, stage |-> "sent", answer |-> NoResponse]

Room == Len(calls) < MaxCalls

Without(s, i) == [j \in 1..(Len(s) - 1) |-> IF j < i THEN s[j] ELSE s[j + 1]]

\* The server has answered call i, which waits for nothing else to happen.
Served(i, a) ==
  IF calls[i].by = "nobody" THEN Without(calls, i)
  ELSE [calls EXCEPT ![i] = [calls[i] EXCEPT !.stage = "served", !.answer = a]]

\* The client has the answer of call i, or has given up on it: a command the
\* server has not answered yet is then still under way.
Heard(i) == Without(calls, i)
GivenUp(i) ==
  IF calls[i].op \in Commands /\ calls[i].stage # "served"
  THEN [calls EXCEPT ![i].by = "nobody"] ELSE Without(calls, i)

\* A step that leaves the operator on the page of path r.
On(r) == route = r /\ UNCHANGED route

\* The page is left: its answers are ignored, its commands are not recalled.
\* (The set holds one sequence: the commands under way, in their order.)
Abandoned ==
  LET kept == {i \in DOMAIN calls : calls[i].op \in Commands /\ calls[i].stage # "served"}
      inOrder == {f \in [1..Cardinality(kept) -> kept] : \A m, n \in DOMAIN f : m < n => f[m] < f[n]}
  IN  {[n \in DOMAIN f |-> [calls[f[n]] EXCEPT !.by = "nobody"]] : f \in inOrder}

\* A command of another operator, or of a page that was left, under way.
ForeignCall(op, arg) == Append(calls, Request(op, arg, "nobody"))

\* A request that nobody waits for does not reach the server.
LoseRequest(i) ==
  /\ calls[i].by = "nobody" /\ calls[i].stage = "sent"
  /\ calls' = Without(calls, i)
  /\ UNCHANGED page

\* The operator leaves the page and comes back: a new page is mounted and
\* fetches, what the old one had sent may still be executed.
Remount(mounted, fetch) ==
  /\ page' = mounted
  /\ \E commands \in Abandoned : calls' = Append(commands, fetch)

\* A dialog that is not pending can be confirmed, or be left with Escape, a
\* click beside it, its cross or its Cancel button.
DialogAnswers(isPending) == ~isPending

CallsOf(op) == {i \in DOMAIN calls : calls[i].op = op}
=============================================================================

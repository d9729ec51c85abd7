------------------------------ MODULE PageProofs ------------------------------
(***************************************************************************)
(* Proofs about four pages and the handlers behind them, for any number of *)
(* rows and of requests under way: EmergencyPage (one command at a time;   *)
(* the status in force is the one of the last recorded event, unless the   *)
(* excuses of FleetKeyIsRecorded apply), ApprovalsPage (one command at a   *)
(* time, and what the operator is told was so), AgentsPage (one command at *)
(* a time, the report of a quarantine, stopped deployments) and            *)
(* PoliciesPage (the versions have no gap). ConsoleProofs composes them.   *)
(***************************************************************************)
EXTENDS EmergencyPage, ApprovalsPage, AgentsPage, PoliciesPage, ViewProofs

-----------------------------------------------------------------------------
(* The emergency page.                                                     *)

FleetOps == {"getFleetStatus"} \cup FleetCommands
FleetCalls == CallSet(FleetOps, {"none"}, Replies(FleetStates))

EmergencyPages ==
  [fleetState : FleetStates \cup {"UNKNOWN"}, loading : BOOLEAN,
   actionInProgress : BOOLEAN, pendingAction : {"none", "HALT", "RESUME"}]

FleetTypes ==
  /\ fleetKey \in FleetStates \cup {"none"} /\ fleetLog \in FleetStates
  /\ redisUp \in BOOLEAN /\ fleetExcuse \in BOOLEAN

\* The commands between their write to Redis and the commit of their event.
Unsettled(s) == {c \in InFlight(s) : c.op \in FleetCommands /\ c.stage = "keySet"}

Matches == fleetKey = fleetLog \/ (fleetKey = "none" /\ fleetLog = "ACTIVE")

\* Without an excuse the key is what every unrecorded command has set it to,
\* and when there is none, what the log says.
FleetLedger ==
  ~fleetExcuse =>
    /\ \A c \in Unsettled(calls) : fleetKey = Target(c.op)
    /\ Unsettled(calls) = {} => Matches

EmergencyInv ==
  /\ page \in EmergencyPages
  /\ calls \in Seq(FleetCalls)
  /\ OneAwaited(calls, page.actionInProgress)
  /\ FleetTypes /\ FleetLedger

-----------------------------------------------------------------------------
LEMMA FleetRequest ==
  ASSUME NEW op \in FleetOps, NEW by \in Callers
  PROVE  /\ Request(op, "none", by) \in FleetCalls
         /\ Request(op, "none", by).by = by /\ Request(op, "none", by).stage = "sent"
         /\ Request(op, "none", by).op = op
BY RequestType DEF FleetCalls

LEMMA FetchStatusRequest ==
  ASSUME NEW by \in Callers
  PROVE  FetchStatus(by) \in FleetCalls /\ FetchStatus(by).by = by /\ FetchStatus(by).stage = "sent"
BY FleetRequest DEF FetchStatus, FleetOps

LEMMA CallTypes ==
  ASSUME calls \in Seq(FleetCalls), NEW i \in DOMAIN calls
  PROVE  /\ calls[i] \in FleetCalls /\ calls[i].op \in FleetOps /\ calls[i].by \in Callers
         /\ calls[i].answer \in Replies(FleetStates) /\ calls[i] \in InFlight(calls)
<1>1. calls[i] \in FleetCalls OBVIOUS
<1>2. QED BY <1>1 DEF FleetCalls, CallSet, InFlight

(* The ledger does not depend on the calls that are not between the two    *)
(* writes of a command, nor on who awaits one that is.                     *)
LEMMA LedgerKept ==
  ASSUME FleetTypes, FleetLedger, UNCHANGED fleet,
         \A c \in Unsettled(calls') : \E d \in Unsettled(calls) : d.op = c.op,
         Unsettled(calls) # {} => Unsettled(calls') # {}
  PROVE  FleetTypes' /\ FleetLedger'
BY DEF FleetTypes, FleetLedger, Matches, fleet

-----------------------------------------------------------------------------
(* What happens to the calls.                                              *)

LEMMA SentKept ==
  ASSUME NEW s \in Seq(FleetCalls), NEW c \in FleetCalls, c.stage = "sent"
  PROVE  Unsettled(Append(s, c)) = Unsettled(s)
BY SentCalls DEF Unsettled

LEMMA HeardKept ==
  ASSUME calls \in Seq(FleetCalls), NEW i \in DOMAIN calls, calls[i].stage # "keySet"
  PROVE  Unsettled(Heard(i)) = Unsettled(calls)
<1>1. InFlight(Heard(i)) \subseteq InFlight(calls)
      /\ \A k \in DOMAIN calls \ {i} : calls[k] \in InFlight(Heard(i))
  BY HeardCalls DEF Heard
<1>2. QED BY <1>1 DEF Unsettled, InFlight

LEMMA ServedKept ==
  ASSUME calls \in Seq(FleetCalls), NEW i \in DOMAIN calls, NEW a \in Replies(FleetStates),
         calls[i].stage # "keySet"
  PROVE  Unsettled(Served(i, a)) = Unsettled(calls)
<1>1. /\ InFlight(Served(i, a)) \subseteq InFlight(calls) \cup {Answered(calls[i], a)}
      /\ \A k \in DOMAIN calls \ {i} : calls[k] \in InFlight(Served(i, a))
  BY ServedCalls DEF FleetCalls
<1>2. Answered(calls[i], a).stage = "served"
  BY CallTypes DEF Answered, FleetCalls, CallSet
<1>3. QED BY <1>1, <1>2 DEF Unsettled, InFlight

LEMMA GivenUpKept ==
  ASSUME calls \in Seq(FleetCalls), NEW i \in DOMAIN calls
  PROVE  /\ \A c \in Unsettled(GivenUp(i)) : \E d \in Unsettled(calls) : d.op = c.op
         /\ Unsettled(calls) # {} => Unsettled(GivenUp(i)) # {}
<1>1. /\ InFlight(GivenUp(i)) \subseteq InFlight(calls) \cup
           (IF calls[i].op \in Commands /\ calls[i].stage # "served" THEN {Orphaned(calls[i])} ELSE {})
      /\ \A k \in DOMAIN calls \ {i} : calls[k] \in InFlight(GivenUp(i))
      /\ calls[i].op \in Commands /\ calls[i].stage # "served" =>
           Orphaned(calls[i]) \in InFlight(GivenUp(i))
  BY GivenUpCalls DEF FleetCalls
<1>2. Orphaned(calls[i]).stage = calls[i].stage /\ Orphaned(calls[i]).op = calls[i].op
  BY CallTypes DEF Orphaned, FleetCalls, CallSet
<1>3. calls[i] \in InFlight(calls)
  BY DEF InFlight
<1>4. \A c \in Unsettled(GivenUp(i)) : \E d \in Unsettled(calls) : d.op = c.op
  BY <1>1, <1>2, <1>3 DEF Unsettled
<1>5. ASSUME NEW c \in Unsettled(calls) PROVE Unsettled(GivenUp(i)) # {}
  <2>1. PICK k \in DOMAIN calls : c = calls[k]
    BY DEF Unsettled, InFlight
  <2>2. CASE k # i
    BY <1>1, <2>1, <2>2 DEF Unsettled
  <2>3. CASE k = i
    BY <1>1, <1>2, <2>1, <2>3 DEF Unsettled, FleetCommands, Commands
  <2>4. QED BY <2>2, <2>3
<1>6. QED BY <1>4, <1>5

LEMMA LeftKept ==
  ASSUME calls \in Seq(FleetCalls), NEW rest \in Abandoned
  PROVE  /\ \A c \in Unsettled(rest) : \E d \in Unsettled(calls) : d.op = c.op
         /\ Unsettled(calls) # {} => Unsettled(rest) # {}
<1>1. /\ \A c \in InFlight(rest) :
           \E d \in InFlight(calls) : c = Orphaned(d) /\ d.op \in Commands /\ d.stage # "served"
      /\ \A d \in InFlight(calls) :
           d.op \in Commands /\ d.stage # "served" => Orphaned(d) \in InFlight(rest)
  BY LeftCalls DEF FleetCalls
<1>2. \A d \in InFlight(calls) : Orphaned(d).stage = d.stage /\ Orphaned(d).op = d.op
  BY CallTypes DEF Orphaned, FleetCalls, CallSet, InFlight
<1>3. QED BY <1>1, <1>2 DEF Unsettled, FleetCommands, Commands

-----------------------------------------------------------------------------
(* Steps of the server.                                                    *)

LEMMA FleetStatusType == FleetTypes => FleetStatus \in FleetStates
BY DEF FleetTypes, FleetStatus, FleetStates

LEMMA ServeStep ==
  ASSUME EmergencyInv, NEW i \in DOMAIN calls, ServeFleetStatus(i)
  PROVE  EmergencyInv'
<1>1. calls' = Served(i, Ok(FleetStatus)) /\ calls[i].stage = "sent" /\ page' = page /\ UNCHANGED fleet
  BY DEF ServeFleetStatus
<1>2. Ok(FleetStatus) \in Replies(FleetStates)
  BY FleetStatusType, ReplyTypes DEF EmergencyInv
<1>3. calls' \in Seq(FleetCalls)
  BY <1>1, <1>2, ServedCalls DEF EmergencyInv, FleetCalls
<1>4. OneAwaited(calls', page'.actionInProgress)
  BY <1>1, <1>2, AwaitedServe DEF EmergencyInv, FleetCalls
<1>5. Unsettled(calls') = Unsettled(calls)
  BY <1>1, <1>2, ServedKept DEF EmergencyInv
<1>6. FleetTypes' /\ FleetLedger'
  BY <1>1, <1>5, LedgerKept DEF EmergencyInv
<1>7. QED BY <1>1, <1>3, <1>4, <1>6 DEF EmergencyInv

KeySet(c) == [c EXCEPT !.stage = "keySet"]

LEMMA KeySetType ==
  ASSUME NEW c \in FleetCalls
  PROVE  KeySet(c) \in FleetCalls /\ KeySet(c).by = c.by /\ KeySet(c).op = c.op /\ KeySet(c).stage = "keySet"
BY DEF KeySet, FleetCalls, CallSet, Stages

(* A command sets the key: it is now the only one that may be unrecorded   *)
(* without an excuse.                                                      *)
LEMMA SetStep ==
  ASSUME EmergencyInv, NEW i \in DOMAIN calls, SetFleetStatus(i)
  PROVE  EmergencyInv'
<1>1. /\ calls[i].op \in FleetCommands /\ calls[i].stage = "sent"
      /\ page' = page /\ redisUp' = redisUp /\ fleetLog' = fleetLog
  BY DEF SetFleetStatus
<1>2. CASE calls' = Served(i, ServerError) /\ UNCHANGED <<fleetKey, fleetExcuse>>
  <2>1. ServerError \in Replies(FleetStates) BY ReplyTypes
  <2>2. calls' \in Seq(FleetCalls)
    BY <1>2, <2>1, ServedCalls DEF EmergencyInv, FleetCalls
  <2>3. OneAwaited(calls', page'.actionInProgress)
    BY <1>1, <1>2, <2>1, AwaitedServe DEF EmergencyInv, FleetCalls
  <2>4. Unsettled(calls') = Unsettled(calls)
    BY <1>1, <1>2, <2>1, ServedKept DEF EmergencyInv
  <2>5. FleetTypes' /\ FleetLedger'
    BY <1>1, <1>2, <2>4, LedgerKept DEF EmergencyInv, fleet
  <2>6. QED BY <1>1, <2>2, <2>3, <2>5 DEF EmergencyInv
<1>3. CASE /\ fleetKey' = Target(calls[i].op)
           /\ fleetExcuse' = (Unrecorded # {})
           /\ calls' = [calls EXCEPT ![i].stage = "keySet"]
  <2>1. PICK c \in FleetCalls :
          /\ c = KeySet(calls[i])
          /\ c.by = calls[i].by /\ c.op = calls[i].op /\ c.stage = "keySet"
    BY CallTypes, KeySetType DEF EmergencyInv
  <2>2. calls' = Changed(calls, i, c)
    <3>1. calls \in [DOMAIN calls -> FleetCalls] BY DEF EmergencyInv
    <3>2. QED BY <1>3, <2>1, <3>1 DEF Changed, KeySet
  <2>3. /\ calls' \in Seq(FleetCalls)
        /\ InFlight(calls') \subseteq InFlight(calls) \cup {c} /\ c \in InFlight(calls')
    BY <2>1, <2>2, ChangedCalls DEF EmergencyInv
  <2>4. OneAwaited(calls', page'.actionInProgress)
    BY <1>1, <2>1, <2>2, AwaitedChange DEF EmergencyInv
  <2>5. c \in Unsettled(calls')
    BY <1>1, <2>1, <2>3 DEF Unsettled
  <2>6. ~fleetExcuse' => \A d \in Unsettled(calls') : d = c
    <3>1. ~fleetExcuse' => Unrecorded = {} BY <1>3
    <3>2. Unrecorded = {} => Unsettled(calls) = {} BY DEF Unrecorded, Unsettled, InFlight
    <3>3. QED BY <2>3, <3>1, <3>2 DEF Unsettled
  <2>7. FleetLedger'
    BY <1>3, <2>1, <2>5, <2>6 DEF FleetLedger
  <2>8. FleetTypes'
    BY <1>1, <1>3 DEF EmergencyInv, FleetTypes, FleetStates, Target
  <2>9. QED BY <1>1, <2>3, <2>4, <2>7, <2>8 DEF EmergencyInv
<1>4. QED BY <1>2, <1>3 DEF SetFleetStatus

(* A command is recorded, or fails and leaves an excuse.                   *)
LEMMA RecordEventStep ==
  ASSUME EmergencyInv, NEW i \in DOMAIN calls, RecordFleetEvent(i)
  PROVE  EmergencyInv'
<1>1. /\ calls[i].op \in FleetCommands /\ calls[i].stage = "keySet"
      /\ page' = page /\ redisUp' = redisUp /\ fleetKey' = fleetKey
  BY DEF RecordFleetEvent, Unrecorded
<1>2. Target(calls[i].op) \in FleetStates
  BY DEF Target, FleetStates
<1>3. PICK a \in Replies(FleetStates) :
      /\ calls' = Served(i, a)
      /\ \/ fleetLog' = Target(calls[i].op) /\ fleetExcuse' = fleetExcuse
         \/ fleetLog' = fleetLog /\ fleetExcuse' = TRUE
  BY <1>2, ReplyTypes DEF RecordFleetEvent
<1>4. calls' \in Seq(FleetCalls)
  BY <1>3, ServedCalls DEF EmergencyInv, FleetCalls
<1>5. OneAwaited(calls', page'.actionInProgress)
  BY <1>1, <1>3, AwaitedServe DEF EmergencyInv, FleetCalls
<1>6. FleetTypes'
  BY <1>1, <1>2, <1>3 DEF EmergencyInv, FleetTypes
<1>7. FleetLedger'
  <2>1. SUFFICES ASSUME ~fleetExcuse'
                 PROVE  (\A c \in Unsettled(calls') : fleetKey' = Target(c.op)) /\ Matches'
    BY DEF FleetLedger
  <2>2. ~fleetExcuse /\ fleetLog' = Target(calls[i].op)
    BY <1>3, <2>1
  <2>3. fleetKey = Target(calls[i].op)
    <3>1. calls[i] \in Unsettled(calls) BY <1>1 DEF Unsettled, InFlight
    <3>2. QED BY <2>2, <3>1 DEF EmergencyInv, FleetLedger
  <2>4. Unsettled(calls') \subseteq Unsettled(calls)
    <3>1. InFlight(calls') \subseteq InFlight(calls) \cup {Answered(calls[i], a)}
      BY <1>3, ServedCalls DEF EmergencyInv, FleetCalls
    <3>2. Answered(calls[i], a).stage = "served"
      BY CallTypes DEF EmergencyInv, Answered, FleetCalls, CallSet
    <3>3. QED BY <3>1, <3>2 DEF Unsettled
  <2>5. QED BY <1>1, <2>2, <2>3, <2>4 DEF EmergencyInv, FleetLedger, Matches
<1>8. QED BY <1>1, <1>4, <1>5, <1>6, <1>7 DEF EmergencyInv

LEMMA RedisStep ==
  ASSUME EmergencyInv, RedisFailsOrRecovers \/ RedisLosesKey
  PROVE  EmergencyInv'
<1>1. page' = page /\ calls' = calls /\ fleetLog' = fleetLog
  BY DEF RedisFailsOrRecovers, RedisLosesKey
<1>2. FleetTypes' /\ FleetLedger'
  BY <1>1 DEF EmergencyInv, FleetTypes, FleetLedger, Matches, RedisFailsOrRecovers, RedisLosesKey
<1>3. QED BY <1>1, <1>2 DEF EmergencyInv

-----------------------------------------------------------------------------
(* Steps of the page and of other operators.                               *)

(* A call is sent that no handler awaits.                                  *)
LEMMA SendStep ==
  ASSUME EmergencyInv, NEW c \in FleetCalls, c.by # "handler", c.stage = "sent",
         calls' = Append(calls, c), UNCHANGED <<page, fleet>>
  PROVE  EmergencyInv'
<1>1. calls' \in Seq(FleetCalls)
  BY SentCalls DEF EmergencyInv
<1>2. OneAwaited(calls', page'.actionInProgress)
  BY AwaitedSend DEF EmergencyInv
<1>3. FleetTypes' /\ FleetLedger'
  BY SentKept, LedgerKept DEF EmergencyInv
<1>4. QED BY <1>1, <1>2, <1>3 DEF EmergencyInv

LEMMA PollStep ==
  ASSUME EmergencyInv, PollFleetStatus \/ RefreshFleetStatus \/ ForeignFleetCommand
  PROVE  EmergencyInv'
<1>1. CASE PollFleetStatus \/ RefreshFleetStatus
  <2>1. calls' = Append(calls, FetchStatus("page")) /\ UNCHANGED <<page, fleet>>
    BY <1>1 DEF PollFleetStatus, RefreshFleetStatus
  <2>2. FetchStatus("page") \in FleetCalls /\ FetchStatus("page").by # "handler"
        /\ FetchStatus("page").stage = "sent"
    BY FetchStatusRequest DEF Callers
  <2>3. QED BY <2>1, <2>2, SendStep
<1>2. CASE ForeignFleetCommand
  <2>1. PICK op \in FleetCommands :
          calls' = Append(calls, Request(op, "none", "nobody")) /\ UNCHANGED <<page, fleet>>
    BY <1>2 DEF ForeignFleetCommand, ForeignCall
  <2>2. Request(op, "none", "nobody") \in FleetCalls /\ Request(op, "none", "nobody").by # "handler"
        /\ Request(op, "none", "nobody").stage = "sent"
    BY FleetRequest DEF Callers, FleetOps
  <2>3. QED BY <2>1, <2>2, SendStep
<1>3. QED BY <1>1, <1>2

LEMMA DialogStep ==
  ASSUME EmergencyInv, OpenEmergencyDialog \/ CancelEmergencyDialog
  PROVE  EmergencyInv'
<1>1. /\ calls' = calls /\ UNCHANGED fleet
      /\ page' \in EmergencyPages /\ page'.actionInProgress = page.actionInProgress
  BY DEF EmergencyInv, EmergencyPages, OpenEmergencyDialog, CancelEmergencyDialog
<1>2. FleetTypes' /\ FleetLedger'
  BY <1>1, LedgerKept DEF EmergencyInv
<1>3. QED BY <1>1, <1>2 DEF EmergencyInv

LEMMA ExecuteStep ==
  ASSUME EmergencyInv, ExecuteEmergencyAction
  PROVE  EmergencyInv'
<1>1. PICK op \in FleetCommands : calls' = Append(calls, Request(op, "none", "handler"))
  BY DEF ExecuteEmergencyAction, FleetCommands
<1>2. /\ ~page.actionInProgress /\ UNCHANGED fleet
      /\ page' \in EmergencyPages /\ page'.actionInProgress = TRUE
  BY DEF EmergencyInv, EmergencyPages, ExecuteEmergencyAction, DialogAnswers
<1>3. /\ Request(op, "none", "handler") \in FleetCalls
      /\ Request(op, "none", "handler").by = "handler" /\ Request(op, "none", "handler").stage = "sent"
  BY FleetRequest DEF Callers, FleetOps
<1>4. Awaited(calls) = {}
  BY <1>2 DEF EmergencyInv, OneAwaited
<1>5. calls' \in Seq(FleetCalls)
  BY <1>1, <1>3, SentCalls DEF EmergencyInv
<1>6. OneAwaited(calls', page'.actionInProgress)
  BY <1>1, <1>2, <1>3, <1>4, AwaitedSend DEF EmergencyInv
<1>7. FleetTypes' /\ FleetLedger'
  BY <1>1, <1>2, <1>3, SentKept, LedgerKept DEF EmergencyInv
<1>8. QED BY <1>2, <1>5, <1>6, <1>7 DEF EmergencyInv

\* Answers and the moment the client gives up are alike: a call is forgotten
\* or, for a command without an answer, orphaned.
Forgotten(i, rest) == rest = GivenUp(i) \/ (calls[i].stage = "served" /\ rest = Heard(i))

LEMMA ForgottenCalls ==
  ASSUME EmergencyInv, NEW i \in DOMAIN calls, NEW rest, Forgotten(i, rest)
  PROVE  /\ rest \in Seq(FleetCalls)
         /\ calls[i].by # "handler" => OneAwaited(rest, page.actionInProgress)
         /\ calls[i].by = "handler" => Awaited(rest) = {}
         /\ \A c \in Unsettled(rest) : \E d \in Unsettled(calls) : d.op = c.op
         /\ Unsettled(calls) # {} => Unsettled(rest) # {}
<1>1. CASE rest = GivenUp(i)
  <2>1. rest \in Seq(FleetCalls)
    BY <1>1, GivenUpCalls DEF EmergencyInv, FleetCalls
  <2>2. /\ calls[i].by # "handler" => OneAwaited(rest, page.actionInProgress)
        /\ calls[i].by = "handler" => Awaited(rest) = {}
    BY <1>1, AwaitedGiveUp DEF EmergencyInv, FleetCalls
  <2>3. QED BY <1>1, <2>1, <2>2, GivenUpKept DEF EmergencyInv
<1>2. CASE calls[i].stage = "served" /\ rest = Heard(i)
  <2>1. rest \in Seq(FleetCalls)
    BY <1>2, HeardCalls DEF EmergencyInv, Heard
  <2>2. /\ calls[i].by # "handler" => OneAwaited(rest, page.actionInProgress)
        /\ calls[i].by = "handler" => Awaited(rest) = {}
    BY <1>2, AwaitedHear DEF EmergencyInv, Heard
  <2>3. QED BY <1>2, <2>1, <2>2, HeardKept DEF EmergencyInv
<1>3. QED BY <1>1, <1>2 DEF Forgotten

(* The status is shown, and if the handler awaited it, the handler ends.   *)
LEMMA StatusStep ==
  ASSUME EmergencyInv, NEW i \in DOMAIN calls, NEW a \in Replies(FleetStates), NEW rest,
         Forgotten(i, rest), StatusAnswered(i, a, rest)
  PROVE  EmergencyInv'
<1>1. calls' = rest /\ UNCHANGED fleet
  BY DEF StatusAnswered
<1>2. calls[i].by \in Callers
  BY CallTypes DEF EmergencyInv
<1>3. /\ page' \in EmergencyPages
      /\ page'.actionInProgress = (page.actionInProgress /\ calls[i].by # "handler")
  BY ReplyTypes DEF EmergencyInv, EmergencyPages, StatusAnswered, StatusShown
<1>4. OneAwaited(rest, page'.actionInProgress)
  <2>1. CASE calls[i].by # "handler"
    <3>1. page'.actionInProgress = page.actionInProgress
      BY <1>3, <2>1 DEF EmergencyInv, EmergencyPages
    <3>2. QED BY <2>1, <3>1, ForgottenCalls
  <2>2. CASE calls[i].by = "handler"
    BY <1>3, <2>2, ForgottenCalls DEF OneAwaited
  <2>3. QED BY <2>1, <2>2
<1>5. FleetTypes' /\ FleetLedger'
  BY <1>1, ForgottenCalls, LedgerKept DEF EmergencyInv
<1>6. QED BY <1>1, <1>3, <1>4, <1>5, ForgottenCalls DEF EmergencyInv

(* The command is over, and the handler awaits one more status.            *)
LEMMA CommandStep ==
  ASSUME EmergencyInv, NEW i \in DOMAIN calls, NEW a \in Replies(FleetStates), NEW rest,
         Forgotten(i, rest), FleetCommandAnswered(i, a, rest)
  PROVE  EmergencyInv'
<1>1. calls' = Append(rest, FetchStatus("handler")) /\ UNCHANGED fleet /\ calls[i].by = "handler"
  BY DEF FleetCommandAnswered
<1>2. i \in Awaited(calls)
  BY <1>1 DEF Awaited
<1>3. page' \in EmergencyPages /\ page'.actionInProgress = TRUE
  <2>1. page.actionInProgress = TRUE
    BY <1>2 DEF EmergencyInv, OneAwaited, EmergencyPages
  <2>2. QED BY <2>1, ReplyTypes DEF EmergencyInv, EmergencyPages, FleetCommandAnswered
<1>4. FetchStatus("handler") \in FleetCalls /\ FetchStatus("handler").by = "handler"
      /\ FetchStatus("handler").stage = "sent"
  BY FetchStatusRequest DEF Callers
<1>5. rest \in Seq(FleetCalls) /\ Awaited(rest) = {}
  BY <1>1, ForgottenCalls
<1>6. calls' \in Seq(FleetCalls)
  BY <1>1, <1>4, <1>5, SentCalls
<1>7. OneAwaited(calls', page'.actionInProgress)
  BY <1>1, <1>3, <1>4, <1>5, AwaitedSend
<1>8. Unsettled(calls') = Unsettled(rest)
  BY <1>1, <1>4, <1>5, SentKept
<1>9. FleetTypes' /\ FleetLedger'
  BY <1>1, <1>8, ForgottenCalls, LedgerKept DEF EmergencyInv
<1>10. QED BY <1>3, <1>6, <1>7, <1>9 DEF EmergencyInv

LEMMA AnswerStep ==
  ASSUME EmergencyInv, NEW i \in DOMAIN calls, HearFleet(i) \/ GiveUpFleet(i)
  PROVE  EmergencyInv'
<1>1. calls[i].answer \in Replies(FleetStates) /\ NoResponse \in Replies(FleetStates)
  BY CallTypes, ReplyTypes DEF EmergencyInv
<1>2. CASE HearFleet(i)
  <2>1. Forgotten(i, Heard(i)) BY <1>2 DEF HearFleet, Forgotten
  <2>2. QED BY <1>1, <1>2, <2>1, StatusStep, CommandStep DEF HearFleet
<1>3. CASE GiveUpFleet(i)
  <2>1. Forgotten(i, GivenUp(i)) BY DEF Forgotten
  <2>2. QED BY <1>1, <1>3, <2>1, StatusStep, CommandStep DEF GiveUpFleet
<1>4. QED BY <1>2, <1>3

LEMMA LoseStep ==
  ASSUME EmergencyInv, NEW i \in DOMAIN calls, LoseRequest(i), UNCHANGED fleet
  PROVE  EmergencyInv'
<1>1. /\ calls' = Heard(i) /\ page' = page
      /\ calls[i].by = "nobody" /\ calls[i].stage = "sent"
  BY DEF LoseRequest, Heard
<1>2. calls' \in Seq(FleetCalls)
  BY <1>1, HeardCalls DEF EmergencyInv, Heard
<1>3. OneAwaited(calls', page'.actionInProgress)
  BY <1>1, AwaitedHear DEF EmergencyInv, Heard
<1>4. FleetTypes' /\ FleetLedger'
  BY <1>1, HeardKept, LedgerKept DEF EmergencyInv
<1>5. QED BY <1>1, <1>2, <1>3, <1>4 DEF EmergencyInv

LEMMA ReturnStep ==
  ASSUME EmergencyInv, ReturnToEmergency
  PROVE  EmergencyInv'
<1>1. PICK rest \in Abandoned : calls' = Append(rest, FetchStatus("page"))
  BY DEF ReturnToEmergency, Remount
<1>2. page' \in EmergencyPages /\ page'.actionInProgress = FALSE /\ UNCHANGED fleet
  BY DEF ReturnToEmergency, Remount, EmergencyMounted, EmergencyPages
<1>3. FetchStatus("page") \in FleetCalls /\ FetchStatus("page").by # "handler"
      /\ FetchStatus("page").stage = "sent"
  BY FetchStatusRequest DEF Callers
<1>4. rest \in Seq(FleetCalls)
  BY LeftCalls DEF EmergencyInv, FleetCalls
<1>5. Awaited(rest) = {}
  BY AwaitedLeave DEF EmergencyInv, FleetCalls
<1>6. calls' \in Seq(FleetCalls)
  BY <1>1, <1>3, <1>4, SentCalls
<1>7. OneAwaited(calls', page'.actionInProgress)
  BY <1>1, <1>2, <1>3, <1>4, <1>5, AwaitedSend DEF OneAwaited
<1>8. Unsettled(calls') = Unsettled(rest)
  BY <1>1, <1>3, <1>4, SentKept
<1>9. FleetTypes' /\ FleetLedger'
  BY <1>2, <1>8, LeftKept, LedgerKept DEF EmergencyInv
<1>10. QED BY <1>2, <1>6, <1>7, <1>9 DEF EmergencyInv

-----------------------------------------------------------------------------
LEMMA EmergencyMountInv ==
  ASSUME page = EmergencyMounted, calls = <<FetchStatus("page")>>, FleetInit
  PROVE  EmergencyInv
<1>1. FetchStatus("page") \in FleetCalls /\ FetchStatus("page").by # "handler"
      /\ FetchStatus("page").stage = "sent"
  BY FetchStatusRequest DEF Callers
<1>2. calls \in Seq(FleetCalls) /\ Awaited(calls) = {} /\ Unsettled(calls) = {}
  BY <1>1 DEF Awaited, Unsettled, InFlight
<1>3. page \in EmergencyPages /\ page.actionInProgress = FALSE
  BY DEF EmergencyMounted, EmergencyPages
<1>4. FleetTypes /\ FleetLedger
  BY <1>2 DEF FleetInit, FleetTypes, FleetLedger, Matches, FleetStates
<1>5. QED BY <1>2, <1>3, <1>4 DEF EmergencyInv, OneAwaited

LEMMA EmergencyNextInv ==
  ASSUME EmergencyInv, EmergencyNext
  PROVE  EmergencyInv'
<1>1. CASE FleetServer
  BY <1>1, ServeStep, SetStep, RecordEventStep, RedisStep DEF FleetServer
<1>2. CASE FleetPage
  BY <1>2, PollStep, DialogStep, ExecuteStep, AnswerStep DEF FleetPage
<1>3. CASE ForeignFleetCommand BY <1>3, PollStep
<1>4. CASE ReturnToEmergency BY <1>4, ReturnStep
<1>5. CASE \E i \in DOMAIN calls : LoseRequest(i) /\ UNCHANGED fleet
  BY <1>5, LoseStep
<1>6. QED BY <1>1, <1>2, <1>3, <1>4, <1>5 DEF EmergencyNext

(* What the invariant says in the words of the properties.                 *)
LEMMA EmergencyInvImplies ==
  ASSUME EmergencyInv
  PROVE  EmergencyTypeOK /\ OneEmergencyCommand /\ FleetKeyIsRecorded
<1>1. Handled = Awaited(calls)
  BY DEF Handled, Awaited
<1>2. OneEmergencyCommand
  BY <1>1 DEF EmergencyInv, OneEmergencyCommand, OneAwaited
<1>3. Unrecorded = {} => Unsettled(calls) = {}
  BY DEF Unrecorded, Unsettled, InFlight
<1>4. FleetKeyIsRecorded
  BY <1>3 DEF EmergencyInv, FleetKeyIsRecorded, FleetLedger, Matches
<1>5. EmergencyTypeOK
  BY DEF EmergencyInv, EmergencyTypeOK, EmergencyPages, FleetTypes
<1>6. QED BY <1>2, <1>4, <1>5

-----------------------------------------------------------------------------
(* The inbox.                                                              *)

Lists == [Approvals -> ApprovalStatuses]
InboxOps == {"getApprovals"} \cup ApprovalCommands
Ids == Approvals \cup {NoId}
StatusFilters == {"PENDING", "ALL"}
InboxArgs == [id : Ids, filter : StatusFilters]
InboxValues == Lists \cup {"ALLOW"}
InboxCalls == CallSet(InboxOps, InboxArgs, Replies(InboxValues))

Notices == {"none", "approved", "denied", "already been processed", "expired", "failed",
            "Failed to fetch approvals"}

InboxPages ==
  [approvals : Lists, statusFilter : StatusFilters, loading : BOOLEAN, isRefreshing : BOOLEAN,
   actionInProgressId : Ids,
   confirmAction : [id : Approvals, action : {"approve", "deny"}] \cup {NoConfirm},
   toast : [message : Notices, id : Ids]]

\* The requests with an outcome, which no handler takes back.
Closed(status) == {r \in Approvals : status[r] \in {"APPROVED", "DENIED", "EXPIRED"}}

\* What a call under way says about the rows, given those that are closed and
\* those that are authorized.
CallIsTrue(c, closed, auth) ==
  /\ c.op = "getApprovals" /\ c.answer.ok => c.answer.value \in Lists
  /\ c.op \in ApprovalCommands => c.arg.id \in Approvals
  /\ c.stage \in {"allowed", "refused"} => c.op = "approveRequest"
  /\ c.stage = "allowed" => c.arg.id \in auth
  /\ c.op = "approveRequest" /\ c.answer.ok => c.arg.id \in auth /\ c.arg.id \in closed
  /\ c.op = "denyRequest" => ~c.answer.ok
  /\ c.op \in ApprovalCommands /\ c.answer = Failed("Approval request has expired") =>
       c.arg.id \in closed

ToastIsTrue(t, closed, auth) ==
  /\ t.message = "approved" => t.id \in auth
  /\ t.message \in {"approved", "denied", "expired"} => t.id \in closed

InboxRows == approval \in Lists /\ authorized \subseteq Approvals

InboxInv ==
  /\ page \in InboxPages
  /\ calls \in Seq(InboxCalls)
  /\ OneAwaited(calls, page.actionInProgressId # NoId)
  /\ InboxRows
  /\ ToastIsTrue(page.toast, Closed(approval), authorized)
  /\ \A c \in InFlight(calls) : CallIsTrue(c, Closed(approval), authorized)

\* Authorizations and outcomes are for ever.
InboxProgress ==
  InboxRows' /\ authorized \subseteq authorized' /\ Closed(approval) \subseteq Closed(approval')

-----------------------------------------------------------------------------
LEMMA InboxCallTypes ==
  ASSUME calls \in Seq(InboxCalls), NEW i \in DOMAIN calls
  PROVE  /\ calls[i] \in InboxCalls /\ calls[i] \in InFlight(calls)
         /\ calls[i].op \in InboxOps /\ calls[i].arg \in InboxArgs /\ calls[i].by \in Callers
         /\ calls[i].answer \in Replies(InboxValues)
<1>1. calls[i] \in InboxCalls OBVIOUS
<1>2. QED BY <1>1 DEF InboxCalls, CallSet, InFlight

LEMMA TruthStays ==
  ASSUME NEW closed, NEW auth, NEW closed2, NEW auth2, closed \subseteq closed2, auth \subseteq auth2
  PROVE  /\ \A c : CallIsTrue(c, closed, auth) => CallIsTrue(c, closed2, auth2)
         /\ \A t : ToastIsTrue(t, closed, auth) => ToastIsTrue(t, closed2, auth2)
BY DEF CallIsTrue, ToastIsTrue

LEMMA InboxStays ==
  ASSUME InboxRows, UNCHANGED approvalRows
  PROVE  InboxProgress
BY DEF InboxRows, InboxProgress, Closed, approvalRows

LEMMA OrphanIsTrue ==
  ASSUME NEW c \in InboxCalls, NEW closed, NEW auth, CallIsTrue(c, closed, auth)
  PROVE  CallIsTrue(Orphaned(c), closed, auth)
<1>1. /\ Orphaned(c).op = c.op /\ Orphaned(c).arg = c.arg /\ Orphaned(c).stage = c.stage
      /\ Orphaned(c).answer = c.answer
  BY DEF Orphaned, InboxCalls, CallSet
<1>2. QED BY <1>1 DEF CallIsTrue

(* A new request says nothing about the rows yet.                          *)
LEMMA InboxRequest ==
  ASSUME NEW op \in InboxOps, NEW arg \in InboxArgs, NEW by \in Callers,
         op \in ApprovalCommands => arg.id \in Approvals, NEW closed, NEW auth
  PROVE  /\ Request(op, arg, by) \in InboxCalls
         /\ Request(op, arg, by).by = by
         /\ CallIsTrue(Request(op, arg, by), closed, auth)
<1>1. /\ Request(op, arg, by) \in InboxCalls
      /\ Request(op, arg, by).by = by /\ Request(op, arg, by).op = op
      /\ Request(op, arg, by).arg = arg /\ Request(op, arg, by).stage = "sent"
      /\ Request(op, arg, by).answer = NoResponse
  BY RequestType DEF InboxCalls
<1>2. ~NoResponse.ok /\ NoResponse # Failed("Approval request has expired")
  BY DEF NoResponse, Failed, ErrorMessage
<1>3. QED BY <1>1, <1>2 DEF CallIsTrue

LEMMA FetchListRequest ==
  ASSUME NEW filter \in StatusFilters, NEW by \in Callers, NEW closed, NEW auth
  PROVE  /\ FetchApprovalList(filter, by) \in InboxCalls /\ FetchApprovalList(filter, by).by = by
         /\ CallIsTrue(FetchApprovalList(filter, by), closed, auth)
<1>1. [id |-> NoId, filter |-> filter] \in InboxArgs BY DEF InboxArgs, Ids
<1>2. "getApprovals" \in InboxOps /\ "getApprovals" \notin ApprovalCommands
  BY DEF InboxOps, ApprovalCommands
<1>3. QED BY <1>1, <1>2, InboxRequest DEF FetchApprovalList

(* What a step has to keep.                                                *)
LEMMA InboxKept ==
  ASSUME InboxInv, InboxProgress,
         page' \in InboxPages, calls' \in Seq(InboxCalls),
         OneAwaited(calls', page'.actionInProgressId # NoId),
         ToastIsTrue(page'.toast, Closed(approval'), authorized'),
         \A c \in InFlight(calls') :
           \/ c \in InFlight(calls) \/ \E d \in InFlight(calls) : c = Orphaned(d)
           \/ CallIsTrue(c, Closed(approval'), authorized')
  PROVE  InboxInv'
<1>1. ASSUME NEW c \in InFlight(calls)
      PROVE  /\ CallIsTrue(c, Closed(approval'), authorized')
             /\ CallIsTrue(Orphaned(c), Closed(approval'), authorized')
  <2>1. c \in InboxCalls BY DEF InboxInv, InFlight
  <2>2. CallIsTrue(c, Closed(approval'), authorized')
    BY TruthStays DEF InboxInv, InboxProgress
  <2>3. QED BY <2>1, <2>2, OrphanIsTrue
<1>2. \A c \in InFlight(calls') : CallIsTrue(c, Closed(approval'), authorized')
  BY <1>1
<1>3. QED BY <1>2 DEF InboxInv, InboxProgress

LEMMA SameToast ==
  ASSUME InboxInv, InboxProgress, page'.toast = page.toast
  PROVE  ToastIsTrue(page'.toast, Closed(approval'), authorized')
BY TruthStays DEF InboxInv, InboxProgress

-----------------------------------------------------------------------------
(* Steps of the server.                                                    *)

(* A call is answered, and the answer is true of the rows as they are now. *)
LEMMA InboxServed ==
  ASSUME InboxInv, InboxProgress, page' = page,
         NEW i \in DOMAIN calls, NEW a \in Replies(InboxValues), calls' = Served(i, a),
         CallIsTrue(Answered(calls[i], a), Closed(approval'), authorized')
  PROVE  InboxInv'
<1>1. /\ calls' \in Seq(InboxCalls)
      /\ InFlight(calls') \subseteq InFlight(calls) \cup {Answered(calls[i], a)}
  BY ServedCalls DEF InboxInv, InboxCalls
<1>2. OneAwaited(calls', page'.actionInProgressId # NoId)
  BY AwaitedServe DEF InboxInv, InboxCalls
<1>3. ToastIsTrue(page'.toast, Closed(approval'), authorized')
  BY SameToast
<1>4. QED BY <1>1, <1>2, <1>3, InboxKept DEF InboxInv

(* The fields of a call that is answered.                                  *)
LEMMA AnsweredFields ==
  ASSUME NEW c \in InboxCalls, NEW a \in Replies(InboxValues)
  PROVE  /\ Answered(c, a).op = c.op /\ Answered(c, a).arg = c.arg
         /\ Answered(c, a).stage = "served" /\ Answered(c, a).answer = a
<1>1. Answered(c, a) \in InboxCalls
  BY DEF Answered, InboxCalls, CallSet, Stages
<1>2. QED BY <1>1 DEF Answered, InboxCalls, CallSet

(* An error that does not say the request has expired.                     *)
LEMMA InboxRefused ==
  ASSUME InboxInv, UNCHANGED <<page, approvalRows>>,
         NEW i \in DOMAIN calls, NEW m \in Texts \ {"Approval request has expired"},
         calls' = Served(i, Failed(m))
  PROVE  InboxInv'
<1>1. InboxProgress BY InboxStays DEF InboxInv
<1>2. Failed(m) \in Replies(InboxValues) /\ ~Failed(m).ok
      /\ Failed(m) # Failed("Approval request has expired")
  BY ReplyTypes DEF Failed
<1>3. calls[i] \in InboxCalls /\ CallIsTrue(calls[i], Closed(approval), authorized)
  BY InboxCallTypes DEF InboxInv
<1>4. CallIsTrue(Answered(calls[i], Failed(m)), Closed(approval'), authorized')
  <2>1. approval' = approval /\ authorized' = authorized
    BY DEF approvalRows
  <2>2. PICK c : c = Answered(calls[i], Failed(m))
    OBVIOUS
  <2>3. /\ c.op = calls[i].op /\ c.arg = calls[i].arg
        /\ c.stage = "served" /\ c.answer = Failed(m)
    BY <1>2, <1>3, <2>2, AnsweredFields
  <2>4. CallIsTrue(c, Closed(approval), authorized)
    BY <1>2, <1>3, <2>3 DEF CallIsTrue
  <2>5. QED BY <2>1, <2>2, <2>4
<1>5. QED BY <1>1, <1>2, <1>4, InboxServed

LEMMA ErrorTexts ==
  /\ ServerError = Failed("Request failed with status code 500")
  /\ NoResponse = Failed("timeout of 10000ms exceeded")
  /\ "Request failed with status code 500" \in Texts \ {"Approval request has expired"}
  /\ "Cannot approve request with status" \in Texts \ {"Approval request has expired"}
  /\ "Cannot deny request with status" \in Texts \ {"Approval request has expired"}
  /\ "Approval re-evaluation resulted in DENY" \in Texts \ {"Approval request has expired"}
  /\ "Approval request has expired" \in Texts
BY DEF ServerError, NoResponse, ErrorMessage, Texts

LEMMA ServeListStepOfInbox ==
  ASSUME InboxInv, NEW i \in DOMAIN calls, ServeApprovals(i)
  PROVE  InboxInv'
<1>1. /\ calls[i] \in InboxCalls /\ calls[i].op = "getApprovals"
      /\ CallIsTrue(calls[i], Closed(approval), authorized) /\ calls[i].stage = "sent"
      /\ page' = page /\ UNCHANGED approvalRows
  BY InboxCallTypes DEF InboxInv, ServeApprovals
<1>2. InboxProgress BY <1>1, InboxStays DEF InboxInv
<1>3. Listed(calls[i].arg.filter) \in Lists
  BY DEF InboxInv, InboxRows, Listed, Lists, ApprovalStatuses
<1>4. PICK v \in Lists : calls' = Served(i, Ok(v))
  BY <1>3 DEF ServeApprovals
<1>5. PICK a \in Replies(InboxValues) : a = Ok(v) /\ a.ok /\ a.value \in Lists
  <2>1. v \in InboxValues BY DEF InboxValues
  <2>2. Ok(v) \in Replies(InboxValues) BY <2>1, ReplyTypes
  <2>3. Ok(v).ok /\ Ok(v).value = v BY DEF Ok
  <2>4. QED BY <2>2, <2>3
<1>6. CallIsTrue(Answered(calls[i], a), Closed(approval'), authorized')
  <2>1. ~Failed("Approval request has expired").ok BY DEF Failed
  <2>2. QED BY <1>1, <1>5, <2>1, AnsweredFields DEF CallIsTrue, ApprovalCommands
<1>7. QED BY <1>1, <1>2, <1>4, <1>5, <1>6, InboxServed

LEMMA ExpireStep ==
  ASSUME InboxInv, NEW i \in DOMAIN calls, ExpireOnApprove(i)
  PROVE  InboxInv'
<1> DEFINE m == "Approval request has expired"
<1>1. /\ calls[i] \in InboxCalls /\ calls[i].op = "approveRequest"
      /\ CallIsTrue(calls[i], Closed(approval), authorized) /\ calls[i].stage = "sent"
      /\ page' = page /\ authorized' = authorized /\ calls' = Served(i, Failed(m))
  BY InboxCallTypes DEF InboxInv, ExpireOnApprove, Reached
<1>2. PICK r \in Approvals : r = calls[i].arg.id
  BY <1>1 DEF CallIsTrue, ApprovalCommands
<1>3. approval[r] = "PENDING" /\ approval' = [approval EXCEPT ![r] = "EXPIRED"]
  BY <1>2 DEF ExpireOnApprove
<1>4. InboxProgress /\ r \in Closed(approval')
  BY <1>1, <1>3 DEF InboxInv, InboxRows, InboxProgress, Lists, ApprovalStatuses, Closed
<1>5. Failed(m) \in Replies(InboxValues) /\ ~Failed(m).ok
  BY ReplyTypes, ErrorTexts DEF Failed
<1>6. CallIsTrue(calls[i], Closed(approval'), authorized')
  BY <1>1, <1>4, TruthStays DEF InboxProgress
<1>7. CallIsTrue(Answered(calls[i], Failed(m)), Closed(approval'), authorized')
  BY <1>1, <1>2, <1>4, <1>5, <1>6, AnsweredFields DEF CallIsTrue
<1>8. QED BY <1>1, <1>4, <1>5, <1>7, InboxServed

Staged(c, stage) == [c EXCEPT !.stage = stage]

LEMMA StagedFields ==
  ASSUME NEW c \in InboxCalls, NEW stage \in Stages
  PROVE  /\ Staged(c, stage) \in InboxCalls
         /\ Staged(c, stage).op = c.op /\ Staged(c, stage).arg = c.arg /\ Staged(c, stage).by = c.by
         /\ Staged(c, stage).stage = stage /\ Staged(c, stage).answer = c.answer
<1>1. Staged(c, stage) \in InboxCalls
  BY DEF Staged, InboxCalls, CallSet
<1>2. QED BY <1>1 DEF Staged, InboxCalls, CallSet

LEMMA ReEvaluateStep ==
  ASSUME InboxInv, NEW i \in DOMAIN calls, ReEvaluate(i)
  PROVE  InboxInv'
<1>1. /\ calls[i] \in InboxCalls /\ calls[i].op = "approveRequest"
      /\ CallIsTrue(calls[i], Closed(approval), authorized) /\ calls[i].stage = "sent"
      /\ page' = page /\ approval' = approval
  BY InboxCallTypes DEF InboxInv, ReEvaluate, Reached
<1>2. PICK r \in Approvals : r = calls[i].arg.id
  BY <1>1 DEF CallIsTrue, ApprovalCommands
<1>3. CASE calls' = Served(i, ServerError) /\ UNCHANGED authorized
  BY <1>1, <1>3, ErrorTexts, InboxRefused DEF approvalRows
<1>4. ASSUME NEW stage \in {"allowed", "refused"},
             calls' = [calls EXCEPT ![i].stage = stage],
             authorized' = IF stage = "allowed" THEN authorized \cup {calls[i].arg.id} ELSE authorized
      PROVE  InboxInv'
  <2>1. InboxProgress /\ (stage = "allowed" => r \in authorized')
    BY <1>1, <1>2, <1>4 DEF InboxInv, InboxRows, InboxProgress
  <2>2. PICK c \in InboxCalls : c = Staged(calls[i], stage)
    BY <1>1, StagedFields DEF Stages
  <2>3. /\ c.op = "approveRequest" /\ c.arg = calls[i].arg /\ c.by = calls[i].by
        /\ c.stage = stage /\ c.answer = calls[i].answer
    BY <1>1, <2>2, StagedFields DEF Stages
  <2>4. calls' = Changed(calls, i, c)
    <3>1. calls \in [DOMAIN calls -> InboxCalls] BY DEF InboxInv
    <3>2. QED BY <1>4, <2>2, <3>1 DEF Changed, Staged
  <2>5. calls' \in Seq(InboxCalls) /\ InFlight(calls') \subseteq InFlight(calls) \cup {c}
    BY <2>4, ChangedCalls DEF InboxInv
  <2>6. OneAwaited(calls', page'.actionInProgressId # NoId)
    BY <1>1, <2>3, <2>4, AwaitedChange DEF InboxInv
  <2>7. CallIsTrue(calls[i], Closed(approval'), authorized')
    BY <1>1, <2>1, TruthStays DEF InboxProgress
  <2>8. CallIsTrue(c, Closed(approval'), authorized')
    BY <1>1, <1>2, <2>1, <2>3, <2>7 DEF CallIsTrue
  <2>9. QED BY <1>1, <2>1, <2>5, <2>6, <2>8, SameToast, InboxKept DEF InboxInv
<1>5. QED BY <1>3, <1>4 DEF ReEvaluate

LEMMA OutcomeStep ==
  ASSUME InboxInv, NEW i \in DOMAIN calls, WriteOutcome(i)
  PROVE  InboxInv'
<1>1. /\ calls[i] \in InboxCalls /\ calls[i].stage \in {"allowed", "refused"}
      /\ CallIsTrue(calls[i], Closed(approval), authorized)
      /\ page' = page /\ authorized' = authorized
  BY InboxCallTypes DEF InboxInv, WriteOutcome
<1>2. calls[i].op = "approveRequest"
  BY <1>1 DEF CallIsTrue
<1>3. PICK r \in Approvals : r = calls[i].arg.id
  BY <1>1, <1>2 DEF CallIsTrue, ApprovalCommands
<1>4. CASE calls' = Served(i, ServerError) /\ UNCHANGED approval
  BY <1>1, <1>4, ErrorTexts, InboxRefused DEF approvalRows
<1>5. CASE /\ approval' = [approval EXCEPT ![calls[i].arg.id] =
                             IF calls[i].stage = "allowed" THEN "APPROVED" ELSE "DENIED"]
           /\ calls' = Served(i, IF calls[i].stage = "allowed" THEN Ok("ALLOW")
                                 ELSE Failed("Approval re-evaluation resulted in DENY"))
  <2>1. PICK s \in {"APPROVED", "DENIED"} : approval' = [approval EXCEPT ![r] = s]
    BY <1>3, <1>5
  <2>2. InboxProgress /\ r \in Closed(approval')
    BY <1>1, <2>1 DEF InboxInv, InboxRows, InboxProgress, Lists, ApprovalStatuses, Closed
  <2>3. PICK a \in Replies(InboxValues) :
          /\ calls' = Served(i, a) /\ a # Failed("Approval request has expired")
          /\ a.ok => r \in authorized
    <3>1. CASE calls[i].stage = "allowed"
      <4>1. Ok("ALLOW") \in Replies(InboxValues) /\ r \in authorized
        BY <1>1, <1>3, <3>1, ReplyTypes DEF InboxValues, CallIsTrue
      <4>2. Ok("ALLOW") # Failed("Approval request has expired") BY DEF Ok, Failed
      <4>3. QED BY <1>5, <3>1, <4>1, <4>2
    <3>2. CASE calls[i].stage # "allowed"
      <4>1. Failed("Approval re-evaluation resulted in DENY") \in Replies(InboxValues)
        BY ReplyTypes, ErrorTexts
      <4>2. /\ Failed("Approval re-evaluation resulted in DENY") # Failed("Approval request has expired")
            /\ ~Failed("Approval re-evaluation resulted in DENY").ok
        BY DEF Failed
      <4>3. QED BY <1>5, <3>2, <4>1, <4>2
    <3>3. QED BY <3>1, <3>2
  <2>4. CallIsTrue(Answered(calls[i], a), Closed(approval'), authorized')
    <3> DEFINE c == Answered(calls[i], a)
    <3>1. c.op = "approveRequest" /\ c.arg = calls[i].arg /\ c.stage = "served" /\ c.answer = a
      BY <1>1, <1>2, AnsweredFields
    <3> HIDE DEF c
    <3>2. CallIsTrue(c, Closed(approval'), authorized')
      BY <1>1, <1>3, <2>2, <2>3, <3>1 DEF CallIsTrue
    <3>3. QED BY <3>2 DEF c
  <2>5. QED BY <1>1, <2>2, <2>3, <2>4, InboxServed
<1>6. QED BY <1>4, <1>5 DEF WriteOutcome

LEMMA ServeInboxStep ==
  ASSUME InboxInv, NEW i \in DOMAIN calls, ServeApproval(i)
  PROVE  InboxInv'
<1>1. CASE RefuseProcessed(i)
  BY <1>1, ErrorTexts, InboxRefused DEF RefuseProcessed
<1>2. CASE DenyPending(i)
  BY <1>2, ErrorTexts, InboxRefused DEF DenyPending
<1>3. QED
  BY <1>1, <1>2, ServeListStepOfInbox, ExpireStep, ReEvaluateStep, OutcomeStep DEF ServeApproval

LEMMA RequestStep ==
  ASSUME InboxInv, NEW r \in Approvals, RequestApproval(r)
  PROVE  InboxInv'
<1>1. /\ page' = page /\ calls' = calls /\ authorized' = authorized
      /\ approval[r] = "absent" /\ approval' = [approval EXCEPT ![r] = "PENDING"]
  BY DEF RequestApproval
<1>2. InboxProgress
  BY <1>1 DEF InboxInv, InboxRows, InboxProgress, Lists, ApprovalStatuses, Closed
<1>3. QED BY <1>1, <1>2, SameToast, InboxKept DEF InboxInv

-----------------------------------------------------------------------------
(* Steps of the page and of other operators.                               *)

(* A call is sent that no handler awaits.                                  *)
LEMMA InboxSend ==
  ASSUME InboxInv, UNCHANGED approvalRows,
         NEW c \in InboxCalls, c.by # "handler", CallIsTrue(c, Closed(approval), authorized),
         calls' = Append(calls, c),
         page' \in InboxPages, page'.actionInProgressId = page.actionInProgressId,
         page'.toast = page.toast
  PROVE  InboxInv'
<1>1. InboxProgress /\ approval' = approval /\ authorized' = authorized
  BY InboxStays DEF InboxInv, approvalRows
<1>2. calls' \in Seq(InboxCalls) /\ InFlight(calls') = InFlight(calls) \cup {c}
  BY SentCalls DEF InboxInv
<1>3. OneAwaited(calls', page'.actionInProgressId # NoId)
  BY AwaitedSend DEF InboxInv
<1>4. QED BY <1>1, <1>2, <1>3, SameToast, InboxKept

LEMMA InboxFetchStep ==
  ASSUME InboxInv, PollApprovals \/ RefreshApprovals \/ ChangeFilter
  PROVE  InboxInv'
<1>1. PICK filter \in StatusFilters : calls' = Append(calls, FetchApprovalList(filter, "page"))
  BY DEF PollApprovals, RefreshApprovals, ChangeFilter, InboxInv, InboxPages, StatusFilters
<1>2. /\ UNCHANGED approvalRows /\ page' \in InboxPages
      /\ page'.actionInProgressId = page.actionInProgressId /\ page'.toast = page.toast
  BY DEF PollApprovals, RefreshApprovals, ChangeFilter, InboxInv, InboxPages, StatusFilters
<1>3. /\ FetchApprovalList(filter, "page") \in InboxCalls
      /\ FetchApprovalList(filter, "page").by # "handler"
      /\ CallIsTrue(FetchApprovalList(filter, "page"), Closed(approval), authorized)
  BY FetchListRequest DEF Callers
<1>4. QED BY <1>1, <1>2, <1>3, InboxSend

LEMMA ForeignApprovalStep ==
  ASSUME InboxInv, ForeignApprovalCommand
  PROVE  InboxInv'
<1>1. PICK op \in ApprovalCommands, r \in Approvals :
        calls' = Append(calls, Request(op, [id |-> r, filter |-> "PENDING"], "nobody"))
  BY DEF ForeignApprovalCommand, ForeignCall
<1>2. PICK arg \in InboxArgs : arg = [id |-> r, filter |-> "PENDING"] /\ arg.id \in Approvals
  <2>1. /\ [id |-> r, filter |-> "PENDING"] \in InboxArgs
        /\ [id |-> r, filter |-> "PENDING"].id \in Approvals
    BY DEF InboxArgs, Ids, StatusFilters
  <2>2. QED BY <2>1
<1>3. /\ Request(op, arg, "nobody") \in InboxCalls /\ Request(op, arg, "nobody").by # "handler"
      /\ CallIsTrue(Request(op, arg, "nobody"), Closed(approval), authorized)
  BY <1>2, InboxRequest DEF Callers, InboxOps
<1>4. page' = page /\ UNCHANGED approvalRows
  BY DEF ForeignApprovalCommand
<1>5. QED BY <1>1, <1>2, <1>3, <1>4, InboxSend DEF InboxInv

(* Dialog and toast: the calls are left alone.                             *)
LEMMA InboxDialogStep ==
  ASSUME InboxInv, OpenApprovalDialog \/ CancelApprovalDialog \/ CloseToast
  PROVE  InboxInv'
<1>1. calls' = calls /\ UNCHANGED approvalRows
  BY DEF OpenApprovalDialog, CancelApprovalDialog, CloseToast
<1>2. /\ page' \in InboxPages /\ page'.actionInProgressId = page.actionInProgressId
      /\ page'.toast \in {page.toast, Toasted("none", NoId)}
  <2>1. CASE OpenApprovalDialog
    BY <2>1 DEF OpenApprovalDialog, InboxInv, InboxPages
  <2>2. CASE CancelApprovalDialog
    BY <2>2 DEF CancelApprovalDialog, InboxInv, InboxPages
  <2>3. CASE CloseToast
    BY <2>3 DEF CloseToast, InboxInv, InboxPages, Toasted, Notices, Ids
  <2>4. QED BY <2>1, <2>2, <2>3
<1>3. InboxProgress /\ approval' = approval /\ authorized' = authorized
  BY <1>1, InboxStays DEF InboxInv, approvalRows
<1>4. ToastIsTrue(page'.toast, Closed(approval'), authorized')
  <2>1. ToastIsTrue(Toasted("none", NoId), Closed(approval'), authorized')
    BY DEF ToastIsTrue, Toasted
  <2>2. QED BY <1>2, <1>3, <2>1, SameToast
<1>5. QED BY <1>1, <1>2, <1>3, <1>4, InboxKept DEF InboxInv

LEMMA ExecuteApprovalStep ==
  ASSUME InboxInv, ExecuteApprovalAction
  PROVE  InboxInv'
<1>1. PICK confirmed \in [id : Approvals, action : {"approve", "deny"}] :
        /\ page' = [page EXCEPT !.actionInProgressId = confirmed.id]
        /\ calls' = Append(calls,
             Request(IF confirmed.action = "approve" THEN "approveRequest" ELSE "denyRequest",
                     [id |-> confirmed.id, filter |-> page.statusFilter], "handler"))
  <2>1. page.confirmAction \in [id : Approvals, action : {"approve", "deny"}]
    BY DEF ExecuteApprovalAction, InboxInv, InboxPages
  <2>2. QED BY <2>1 DEF ExecuteApprovalAction
<1>2. PICK op \in ApprovalCommands, arg \in InboxArgs :
        calls' = Append(calls, Request(op, arg, "handler")) /\ arg.id \in Approvals
  <2>1. /\ page.statusFilter \in StatusFilters /\ confirmed.id \in Approvals
    BY DEF InboxInv, InboxPages
  <2>2. /\ [id |-> confirmed.id, filter |-> page.statusFilter] \in InboxArgs
        /\ [id |-> confirmed.id, filter |-> page.statusFilter].id \in Approvals
    BY <2>1 DEF InboxArgs, Ids
  <2>3. QED BY <1>1, <2>2 DEF ApprovalCommands
<1>3. /\ page.actionInProgressId = NoId /\ UNCHANGED approvalRows
      /\ page' \in InboxPages /\ page'.actionInProgressId # NoId /\ page'.toast = page.toast
  <2>1. confirmed.id \in Approvals /\ confirmed.id # NoId
    BY NoIdAssumption
  <2>2. QED BY <1>1, <2>1 DEF ExecuteApprovalAction, InboxInv, InboxPages, Ids
<1>4. /\ Request(op, arg, "handler") \in InboxCalls /\ Request(op, arg, "handler").by = "handler"
      /\ CallIsTrue(Request(op, arg, "handler"), Closed(approval), authorized)
  BY <1>2, InboxRequest DEF Callers, InboxOps
<1>5. Awaited(calls) = {}
  BY <1>3 DEF InboxInv, OneAwaited
<1>6. calls' \in Seq(InboxCalls)
      /\ InFlight(calls') = InFlight(calls) \cup {Request(op, arg, "handler")}
  BY <1>2, <1>4, SentCalls DEF InboxInv
<1>7. OneAwaited(calls', page'.actionInProgressId # NoId)
  BY <1>2, <1>3, <1>4, <1>5, AwaitedSend DEF InboxInv
<1>8. InboxProgress /\ approval' = approval /\ authorized' = authorized
  BY <1>3, InboxStays DEF InboxInv, approvalRows
<1>9. QED BY <1>3, <1>4, <1>6, <1>7, <1>8, SameToast, InboxKept

(* The answer was heard, or the client has given up.                       *)
Gone(i, rest) == rest = GivenUp(i) \/ (calls[i].stage = "served" /\ rest = Heard(i))

LEMMA InboxGone ==
  ASSUME InboxInv, NEW i \in DOMAIN calls, NEW rest, Gone(i, rest)
  PROVE  /\ rest \in Seq(InboxCalls)
         /\ calls[i].by # "handler" => OneAwaited(rest, page.actionInProgressId # NoId)
         /\ calls[i].by = "handler" => Awaited(rest) = {}
         /\ \A c \in InFlight(rest) :
              c \in InFlight(calls) \/ \E d \in InFlight(calls) : c = Orphaned(d)
<1>1. CASE rest = GivenUp(i)
  <2>1. /\ rest \in Seq(InboxCalls)
        /\ InFlight(rest) \subseteq InFlight(calls) \cup {Orphaned(calls[i])}
    BY <1>1, GivenUpCalls DEF InboxInv, InboxCalls
  <2>2. /\ calls[i].by # "handler" => OneAwaited(rest, page.actionInProgressId # NoId)
        /\ calls[i].by = "handler" => Awaited(rest) = {}
    BY <1>1, AwaitedGiveUp DEF InboxInv, InboxCalls
  <2>3. calls[i] \in InFlight(calls) BY DEF InFlight
  <2>4. QED BY <2>1, <2>2, <2>3
<1>2. CASE rest = Heard(i)
  <2>1. rest \in Seq(InboxCalls) /\ InFlight(rest) \subseteq InFlight(calls)
    BY <1>2, HeardCalls DEF InboxInv, Heard
  <2>2. /\ calls[i].by # "handler" => OneAwaited(rest, page.actionInProgressId # NoId)
        /\ calls[i].by = "handler" => Awaited(rest) = {}
    BY <1>2, AwaitedHear DEF InboxInv, Heard
  <2>3. QED BY <2>1, <2>2
<1>3. QED BY <1>1, <1>2 DEF Gone

(* A list is shown, and if the handler awaited it, the handler ends.       *)
LEMMA ListStep ==
  ASSUME InboxInv, NEW i \in DOMAIN calls, NEW a \in Replies(InboxValues), NEW rest,
         Gone(i, rest), a.ok => a.value \in Lists, ListAnswered(i, a, rest)
  PROVE  InboxInv'
<1>1. calls' = rest /\ UNCHANGED approvalRows
  BY DEF ListAnswered
<1>2. PICK shown \in Lists, told \in [message : Notices, id : Ids], busy \in Ids :
        /\ page' = [page EXCEPT !.approvals = shown, !.toast = told, !.loading = FALSE,
                                !.isRefreshing = FALSE, !.actionInProgressId = busy]
        /\ told \in {page.toast, Toasted("Failed to fetch approvals", NoId)}
        /\ busy = IF calls[i].by = "handler" THEN NoId ELSE page.actionInProgressId
  <2>1. (IF a.ok THEN a.value ELSE page.approvals) \in Lists
    BY DEF InboxInv, InboxPages
  <2>2. Toasted("Failed to fetch approvals", NoId) \in [message : Notices, id : Ids]
    BY DEF Toasted, Notices, Ids
  <2>3. (IF a.ok THEN page.toast ELSE Toasted("Failed to fetch approvals", NoId))
          \in [message : Notices, id : Ids]
    BY <2>2 DEF InboxInv, InboxPages
  <2>4. (IF calls[i].by = "handler" THEN NoId ELSE page.actionInProgressId) \in Ids
    BY DEF InboxInv, InboxPages, Ids
  <2>5. QED BY <2>1, <2>3, <2>4 DEF ListAnswered
<1>3. page' \in InboxPages /\ page'.toast = told /\ page'.actionInProgressId = busy
  BY <1>2 DEF InboxInv, InboxPages
<1>4. InboxProgress /\ approval' = approval /\ authorized' = authorized
  BY <1>1, InboxStays DEF InboxInv, approvalRows
<1>5. ToastIsTrue(page'.toast, Closed(approval'), authorized')
  <2>1. ToastIsTrue(Toasted("Failed to fetch approvals", NoId), Closed(approval'), authorized')
    BY DEF ToastIsTrue, Toasted
  <2>2. QED BY <1>2, <1>3, <1>4, <2>1, SameToast
<1>6. OneAwaited(rest, page'.actionInProgressId # NoId)
  <2>1. CASE calls[i].by = "handler"
    BY <1>2, <1>3, <2>1, InboxGone DEF OneAwaited
  <2>2. CASE calls[i].by # "handler"
    BY <1>2, <1>3, <2>2, InboxGone
  <2>3. QED BY <2>1, <2>2
<1>7. QED BY <1>1, <1>3, <1>4, <1>5, <1>6, InboxGone, InboxKept

(* What the operator is told follows from the answer.                      *)
LEMMA NoticeTypes ==
  ASSUME NEW op \in ApprovalCommands, NEW a \in Replies(InboxValues)
  PROVE  /\ Notice(op, a) \in Notices \ {"none"}
         /\ Notice(op, a) = "approved" => a.ok /\ op = "approveRequest"
         /\ Notice(op, a) = "denied" => a.ok /\ op = "denyRequest"
         /\ Notice(op, a) = "expired" => a = Failed("Approval request has expired")
<1>1. CASE a.ok
  BY <1>1 DEF Notice, Notices, ApprovalCommands
<1>2. CASE ~a.ok
  <2>1. PICK m \in Texts : a = Failed(m) /\ a.value = m
    BY <1>2 DEF Replies, Failed
  <2>2. Mentions(m) = {"expired"} => m = "Approval request has expired"
    BY <2>1 DEF Mentions, Texts
  <2>3. CASE Mentions(m) \cap {"already", "status"} # {}
    BY <1>2, <2>1, <2>3 DEF Notice, Notices
  <2>4. CASE Mentions(m) \cap {"already", "status"} = {} /\ Mentions(m) = {"expired"}
    BY <1>2, <2>1, <2>2, <2>4 DEF Notice, Notices
  <2>5. CASE Mentions(m) \cap {"already", "status"} = {} /\ Mentions(m) # {"expired"}
    BY <1>2, <2>1, <2>5 DEF Notice, Notices
  <2>6. QED BY <2>3, <2>4, <2>5
<1>3. QED BY <1>1, <1>2

(* The command is over, the operator is told, and the handler awaits the   *)
(* list once more.                                                         *)
LEMMA ApprovalOverStep ==
  ASSUME InboxInv, NEW i \in DOMAIN calls, NEW a \in Replies(InboxValues), NEW rest,
         Gone(i, rest), ApprovalCommandAnswered(i, a, rest),
         a = NoResponse \/ a = calls[i].answer
  PROVE  InboxInv'
<1>1. /\ calls[i].op \in ApprovalCommands /\ calls[i].by = "handler" /\ UNCHANGED approvalRows
      /\ calls[i].arg \in InboxArgs /\ calls[i].arg.filter \in StatusFilters
      /\ CallIsTrue(calls[i], Closed(approval), authorized)
  BY InboxCallTypes DEF ApprovalCommandAnswered, InboxInv, InboxArgs
<1>2. PICK r \in Approvals : r = calls[i].arg.id
  BY <1>1 DEF CallIsTrue
<1>3. PICK n \in Notices : n = Notice(calls[i].op, a)
  BY <1>1, NoticeTypes
<1>4. ToastIsTrue(Toasted(n, r), Closed(approval), authorized)
  <2>1. ~NoResponse.ok /\ NoResponse # Failed("Approval request has expired")
    BY DEF NoResponse, Failed, ErrorMessage
  <2>2. n \in {"approved", "denied", "expired"} => a = calls[i].answer
    BY <1>1, <1>3, <2>1, NoticeTypes
  <2>3. /\ n = "approved" => r \in authorized /\ r \in Closed(approval)
        /\ n = "denied" => FALSE
        /\ n = "expired" => r \in Closed(approval)
    BY <1>1, <1>2, <1>3, <2>2, NoticeTypes DEF CallIsTrue
  <2>4. QED BY <2>3 DEF ToastIsTrue, Toasted
<1>5. PICK told \in [message : Notices, id : Ids] :
        told = Toasted(n, r) /\ page' = [page EXCEPT !.toast = told, !.confirmAction = NoConfirm]
  BY <1>2, <1>3 DEF ApprovalCommandAnswered, Toasted, Ids
<1>6. i \in Awaited(calls)
  BY <1>1 DEF Awaited
<1>7. page' \in InboxPages /\ page'.toast = told /\ page'.actionInProgressId # NoId
  <2>1. page.actionInProgressId # NoId
    BY <1>6 DEF InboxInv, OneAwaited
  <2>2. QED BY <1>5, <2>1 DEF InboxInv, InboxPages
<1>8. PICK c \in InboxCalls :
        /\ c = FetchApprovalList(calls[i].arg.filter, "handler") /\ c.by = "handler"
        /\ CallIsTrue(c, Closed(approval), authorized)
  BY <1>1, FetchListRequest DEF Callers
<1>9. rest \in Seq(InboxCalls) /\ Awaited(rest) = {} /\ calls' = Append(rest, c)
  BY <1>1, <1>8, InboxGone DEF ApprovalCommandAnswered
<1>10. calls' \in Seq(InboxCalls) /\ InFlight(calls') = InFlight(rest) \cup {c}
  BY <1>9, SentCalls
<1>11. OneAwaited(calls', page'.actionInProgressId # NoId)
  BY <1>7, <1>8, <1>9, AwaitedSend
<1>12. InboxProgress /\ approval' = approval /\ authorized' = authorized
  BY <1>1, InboxStays DEF InboxInv, approvalRows
<1>13. \A d \in InFlight(calls') :
         \/ d \in InFlight(calls) \/ \E e \in InFlight(calls) : d = Orphaned(e)
         \/ CallIsTrue(d, Closed(approval'), authorized')
  BY <1>8, <1>10, <1>12, InboxGone
<1>14. QED BY <1>4, <1>5, <1>7, <1>10, <1>11, <1>12, <1>13, InboxKept

LEMMA InboxAnswerStep ==
  ASSUME InboxInv, NEW i \in DOMAIN calls, HearApprovals(i) \/ GiveUpApprovals(i)
  PROVE  InboxInv'
<1>1. /\ calls[i].answer \in Replies(InboxValues) /\ NoResponse \in Replies(InboxValues)
      /\ ~NoResponse.ok /\ CallIsTrue(calls[i], Closed(approval), authorized)
  BY InboxCallTypes, ReplyTypes DEF InboxInv
<1>2. calls[i].op = "getApprovals" /\ calls[i].answer.ok => calls[i].answer.value \in Lists
  BY <1>1 DEF CallIsTrue
<1>3. CASE HearApprovals(i)
  <2>1. Gone(i, Heard(i)) BY <1>3 DEF HearApprovals, Gone
  <2>2. CASE ListAnswered(i, calls[i].answer, Heard(i))
    <3>1. calls[i].op = "getApprovals" BY <2>2 DEF ListAnswered
    <3>2. QED BY <1>1, <1>2, <2>1, <2>2, <3>1, ListStep
  <2>3. CASE ApprovalCommandAnswered(i, calls[i].answer, Heard(i))
    BY <1>1, <2>1, <2>3, ApprovalOverStep
  <2>4. QED BY <1>3, <2>2, <2>3 DEF HearApprovals
<1>4. CASE GiveUpApprovals(i)
  <2>1. Gone(i, GivenUp(i)) BY DEF Gone
  <2>2. QED BY <1>1, <1>4, <2>1, ListStep, ApprovalOverStep DEF GiveUpApprovals
<1>5. QED BY <1>3, <1>4

LEMMA InboxLoseStep ==
  ASSUME InboxInv, NEW i \in DOMAIN calls, LoseRequest(i), UNCHANGED approvalRows
  PROVE  InboxInv'
<1>1. calls' = Heard(i) /\ page' = page /\ calls[i].by # "handler"
  BY DEF LoseRequest, Heard
<1>2. /\ calls' \in Seq(InboxCalls) /\ InFlight(calls') \subseteq InFlight(calls)
      /\ OneAwaited(calls', page'.actionInProgressId # NoId)
  BY <1>1, HeardCalls, AwaitedHear DEF InboxInv, Heard
<1>3. InboxProgress BY InboxStays DEF InboxInv
<1>4. QED BY <1>1, <1>2, <1>3, SameToast, InboxKept DEF InboxInv

LEMMA MountedInbox ==
  /\ ApprovalsMounted \in InboxPages /\ ApprovalsMounted.actionInProgressId = NoId
  /\ ApprovalsMounted.toast = Toasted("none", NoId)
  /\ \A closed, auth : ToastIsTrue(ApprovalsMounted.toast, closed, auth)
<1>1. [r \in Approvals |-> "absent"] \in Lists BY DEF Lists, ApprovalStatuses
<1>2. Toasted("none", NoId) \in [message : Notices, id : Ids]
  BY DEF Toasted, Notices, Ids
<1>3. ApprovalsMounted \in InboxPages
  BY <1>1, <1>2 DEF ApprovalsMounted, InboxPages, StatusFilters, Ids
<1>4. \A closed, auth : ToastIsTrue(Toasted("none", NoId), closed, auth)
  BY DEF ToastIsTrue, Toasted
<1>5. QED BY <1>3, <1>4 DEF ApprovalsMounted

LEMMA InboxReturnStep ==
  ASSUME InboxInv, ReturnToApprovals
  PROVE  InboxInv'
<1>1. PICK c \in InboxCalls :
        /\ c = FetchApprovalList("PENDING", "page") /\ c.by # "handler"
        /\ CallIsTrue(c, Closed(approval), authorized)
  BY FetchListRequest DEF Callers, StatusFilters
<1>2. PICK rest \in Abandoned :
        calls' = Append(rest, c) /\ page' = ApprovalsMounted /\ UNCHANGED approvalRows
  BY <1>1 DEF ReturnToApprovals, Remount
<1>3. /\ rest \in Seq(InboxCalls) /\ Awaited(rest) = {}
      /\ \A d \in InFlight(rest) : \E e \in InFlight(calls) : d = Orphaned(e)
  BY LeftCalls, AwaitedLeave DEF InboxInv, InboxCalls
<1>4. calls' \in Seq(InboxCalls) /\ InFlight(calls') = InFlight(rest) \cup {c}
  BY <1>2, <1>3, SentCalls
<1>5. OneAwaited(calls', FALSE)
  BY <1>1, <1>2, <1>3, AwaitedSend DEF OneAwaited
<1>6. InboxProgress /\ approval' = approval /\ authorized' = authorized
  BY <1>2, InboxStays DEF InboxInv, approvalRows
<1>7. OneAwaited(calls', page'.actionInProgressId # NoId)
  BY <1>2, <1>5, MountedInbox
<1>8. QED BY <1>1, <1>2, <1>3, <1>4, <1>6, <1>7, MountedInbox, InboxKept

LEMMA ApprovalsMountInv ==
  ASSUME page = ApprovalsMounted, calls = <<FetchApprovalList("PENDING", "page")>>,
         InboxInit \/ (approval = [r \in Approvals |-> "absent"] /\ authorized = {})
  PROVE  InboxInv
<1>1. PICK c \in InboxCalls :
        /\ c = FetchApprovalList("PENDING", "page") /\ c.by # "handler"
        /\ CallIsTrue(c, Closed(approval), authorized)
  BY FetchListRequest DEF Callers, StatusFilters
<1>2. calls \in Seq(InboxCalls) /\ Awaited(calls) = {} /\ InFlight(calls) = {c}
  BY <1>1 DEF Awaited, InFlight
<1>3. InboxRows
  BY DEF InboxInit, InboxRows, Lists, ApprovalStatuses
<1>4. QED BY <1>1, <1>2, <1>3, MountedInbox DEF InboxInv, OneAwaited

LEMMA ApprovalsNextInv ==
  ASSUME InboxInv, ApprovalsNext
  PROVE  InboxInv'
<1>1. CASE ApprovalsPageNext
  BY <1>1, InboxFetchStep, InboxDialogStep, ExecuteApprovalStep, InboxAnswerStep DEF ApprovalsPageNext
<1>2. CASE ForeignApprovalCommand BY <1>2, ForeignApprovalStep
<1>3. CASE ReturnToApprovals BY <1>3, InboxReturnStep
<1>4. CASE \E r \in Approvals : RequestApproval(r) BY <1>4, RequestStep
<1>5. CASE \E i \in DOMAIN calls : ServeApproval(i) BY <1>5, ServeInboxStep
<1>6. CASE \E i \in DOMAIN calls : LoseRequest(i) /\ UNCHANGED approvalRows
  BY <1>6, InboxLoseStep
<1>7. QED BY <1>1, <1>2, <1>3, <1>4, <1>5, <1>6 DEF ApprovalsNext

(* What the invariant says in the words of the properties.                 *)
LEMMA InboxInvImplies ==
  ASSUME InboxInv
  PROVE  OneApprovalCommand /\ NoticesAreTrue
<1>1. {i \in DOMAIN calls : calls[i].by = "handler"} = Awaited(calls)
  BY DEF Awaited
<1>2. OneApprovalCommand
  BY <1>1 DEF InboxInv, OneApprovalCommand, OneAwaited
<1>3. NoticesAreTrue
  BY DEF InboxInv, NoticesAreTrue, ToastIsTrue, Closed
<1>4. QED BY <1>2, <1>3

-----------------------------------------------------------------------------
(* The registry of agents.                                                 *)

Roster == [Agents -> AgentStatuses]
AgentOps == {"getAgents"} \cup AgentCommands
AgentIds == Agents \cup {NoAgent}
Reports == {Report(a, contained) : a \in Agents, contained \in BOOLEAN}
AgentValues == Roster \cup Reports \cup {"ACTIVE"}
AgentCalls == CallSet(AgentOps, AgentIds, Replies(AgentValues))

AgentPages ==
  [agents : [Agents -> AgentStatuses \cup {"none"}], loading : BOOLEAN, isRefreshing : BOOLEAN,
   actionInProgressId : AgentIds,
   confirmTarget : [agent : Agents, action : {"quarantine", "restore"}] \cup {NoTarget},
   quarantineModalResult : Reports \cup {NoReport}]

Stopped(scale) == {a \in Agents : scale[a] = 0}

Containing == {"contained", "uncontained"}

\* Agents with a quarantine between Kubernetes and its commit.
Contained(s) == {c.arg : c \in {d \in InFlight(s) : d.stage \in Containing}}

ReportHolds(report, stopped) == report.overall = "SUCCESS" => report.agent \in stopped

\* What a call under way says about the deployments.
CallHolds(c, stopped) ==
  /\ c.op = "getAgents" /\ c.answer.ok => c.answer.value \in Roster
  /\ c.op \in AgentCommands => c.arg \in Agents
  /\ c.stage \in Containing => c.op = "quarantineAgent"
  /\ c.stage = "contained" => c.arg \in stopped
  /\ c.op = "quarantineAgent" /\ c.answer.ok =>
       c.answer.value \in Reports /\ ReportHolds(c.answer.value, stopped)

AgentTypes ==
  row \in Roster /\ replicas \in [Agents -> {0, 1}] /\ excused \subseteq Agents

\* An active agent with a stopped deployment was set to active, or its
\* quarantine has not been committed.
Explained(status, scale, excuses, open) ==
  \A a \in Agents : scale[a] = 0 /\ status[a] = "ACTIVE" => a \in excuses \/ a \in open

RosterInv ==
  /\ page \in AgentPages
  /\ calls \in Seq(AgentCalls)
  /\ OneAwaited(calls, page.actionInProgressId # NoAgent)
  /\ AgentTypes
  /\ ReportHolds(page.quarantineModalResult, Stopped(replicas))
  /\ \A c \in InFlight(calls) : CallHolds(c, Stopped(replicas))
  /\ Explained(row, replicas, excused, Contained(calls))

-----------------------------------------------------------------------------
LEMMA AgentCallTypes ==
  ASSUME calls \in Seq(AgentCalls), NEW i \in DOMAIN calls
  PROVE  /\ calls[i] \in AgentCalls /\ calls[i] \in InFlight(calls)
         /\ calls[i].op \in AgentOps /\ calls[i].arg \in AgentIds /\ calls[i].by \in Callers
         /\ calls[i].stage \in Stages /\ calls[i].answer \in Replies(AgentValues)
<1>1. calls[i] \in AgentCalls OBVIOUS
<1>2. QED BY <1>1 DEF AgentCalls, CallSet, InFlight

LEMMA HoldingStays ==
  ASSUME NEW stopped, NEW stopped2, stopped \subseteq stopped2
  PROVE  /\ \A c : CallHolds(c, stopped) => CallHolds(c, stopped2)
         /\ \A r : ReportHolds(r, stopped) => ReportHolds(r, stopped2)
BY DEF CallHolds, ReportHolds

LEMMA OrphanHolds ==
  ASSUME NEW c \in AgentCalls
  PROVE  /\ Orphaned(c).op = c.op /\ Orphaned(c).arg = c.arg /\ Orphaned(c).stage = c.stage
         /\ Orphaned(c).answer = c.answer
         /\ \A stopped : CallHolds(c, stopped) => CallHolds(Orphaned(c), stopped)
<1>1. /\ Orphaned(c).op = c.op /\ Orphaned(c).arg = c.arg /\ Orphaned(c).stage = c.stage
      /\ Orphaned(c).answer = c.answer
  BY DEF Orphaned, AgentCalls, CallSet
<1>2. QED BY <1>1 DEF CallHolds

LEMMA AnsweredAgentCall ==
  ASSUME NEW c \in AgentCalls, NEW a \in Replies(AgentValues)
  PROVE  /\ Answered(c, a).op = c.op /\ Answered(c, a).arg = c.arg
         /\ Answered(c, a).stage = "served" /\ Answered(c, a).answer = a
<1>1. Answered(c, a) \in AgentCalls
  BY DEF Answered, AgentCalls, CallSet, Stages
<1>2. QED BY <1>1 DEF Answered, AgentCalls, CallSet

LEMMA StagedAgentCall ==
  ASSUME NEW c \in AgentCalls, NEW stage \in Stages
  PROVE  /\ Staged(c, stage) \in AgentCalls
         /\ Staged(c, stage).op = c.op /\ Staged(c, stage).arg = c.arg /\ Staged(c, stage).by = c.by
         /\ Staged(c, stage).stage = stage /\ Staged(c, stage).answer = c.answer
<1>1. Staged(c, stage) \in AgentCalls
  BY DEF Staged, AgentCalls, CallSet
<1>2. QED BY <1>1 DEF Staged, AgentCalls, CallSet

LEMMA ReportType ==
  ASSUME NEW b \in Agents, NEW contained \in BOOLEAN
  PROVE  Report(b, contained) \in Reports
BY DEF Report, Reports

LEMMA AgentRequest ==
  ASSUME NEW op \in AgentOps, NEW arg \in AgentIds, NEW by \in Callers,
         op \in AgentCommands => arg \in Agents, NEW stopped
  PROVE  /\ Request(op, arg, by) \in AgentCalls
         /\ Request(op, arg, by).by = by
         /\ CallHolds(Request(op, arg, by), stopped)
<1>1. /\ Request(op, arg, by) \in AgentCalls
      /\ Request(op, arg, by).by = by /\ Request(op, arg, by).op = op
      /\ Request(op, arg, by).arg = arg /\ Request(op, arg, by).stage = "sent"
      /\ Request(op, arg, by).answer = NoResponse
  BY RequestType DEF AgentCalls
<1>2. ~NoResponse.ok
  BY ReplyTypes
<1>3. QED BY <1>1, <1>2 DEF CallHolds, Containing

LEMMA FetchAgentsRequest ==
  ASSUME NEW by \in Callers, NEW stopped
  PROVE  /\ FetchAgents(by) \in AgentCalls /\ FetchAgents(by).by = by
         /\ CallHolds(FetchAgents(by), stopped)
BY AgentRequest DEF FetchAgents, AgentOps, AgentCommands, AgentIds

(* What a step has to keep. No step starts a deployment again.             *)
LEMMA RosterKept ==
  ASSUME RosterInv, AgentTypes', Stopped(replicas) \subseteq Stopped(replicas'),
         page' \in AgentPages, calls' \in Seq(AgentCalls),
         OneAwaited(calls', page'.actionInProgressId # NoAgent),
         ReportHolds(page'.quarantineModalResult, Stopped(replicas')),
         \A c \in InFlight(calls') :
           \/ c \in InFlight(calls) \/ \E d \in InFlight(calls) : c = Orphaned(d)
           \/ CallHolds(c, Stopped(replicas')),
         Explained(row', replicas', excused', Contained(calls'))
  PROVE  RosterInv'
<1>1. ASSUME NEW c \in InFlight(calls)
      PROVE  CallHolds(c, Stopped(replicas')) /\ CallHolds(Orphaned(c), Stopped(replicas'))
  <2>1. c \in AgentCalls BY DEF RosterInv, InFlight
  <2>2. CallHolds(c, Stopped(replicas'))
    BY HoldingStays DEF RosterInv
  <2>3. QED BY <2>1, <2>2, OrphanHolds
<1>2. \A c \in InFlight(calls') : CallHolds(c, Stopped(replicas'))
  BY <1>1
<1>3. QED BY <1>2 DEF RosterInv

(* The same for a step that leaves the rows alone and forgets no           *)
(* quarantine that is between Kubernetes and its commit.                   *)
LEMMA RosterKeptRows ==
  ASSUME RosterInv, UNCHANGED agentRows,
         page' \in AgentPages, calls' \in Seq(AgentCalls),
         OneAwaited(calls', page'.actionInProgressId # NoAgent),
         ReportHolds(page'.quarantineModalResult, Stopped(replicas)),
         \A c \in InFlight(calls') :
           \/ c \in InFlight(calls) \/ \E d \in InFlight(calls) : c = Orphaned(d)
           \/ CallHolds(c, Stopped(replicas)),
         Contained(calls) \subseteq Contained(calls')
  PROVE  RosterInv'
<1>1. row' = row /\ replicas' = replicas /\ excused' = excused
  BY DEF agentRows
<1>2. AgentTypes' BY <1>1 DEF RosterInv, AgentTypes
<1>3. Explained(row', replicas', excused', Contained(calls'))
  BY <1>1 DEF RosterInv, Explained
<1>4. QED BY <1>1, <1>2, <1>3, RosterKept

-----------------------------------------------------------------------------
(* Steps of the server.                                                    *)

(* A call is answered: it was the only one that may have been between      *)
(* Kubernetes and its commit.                                              *)
LEMMA AgentServed ==
  ASSUME RosterInv, AgentTypes', replicas' = replicas, page' = page,
         NEW i \in DOMAIN calls, NEW a \in Replies(AgentValues), calls' = Served(i, a),
         CallHolds(Answered(calls[i], a), Stopped(replicas)),
         \A b \in Agents : row'[b] = "ACTIVE" /\ b \notin excused' =>
           /\ row[b] = "ACTIVE" /\ b \notin excused
           /\ calls[i].stage \in Containing => calls[i].arg # b
  PROVE  RosterInv'
<1>1. /\ calls' \in Seq(AgentCalls)
      /\ InFlight(calls') \subseteq InFlight(calls) \cup {Answered(calls[i], a)}
      /\ \A k \in DOMAIN calls \ {i} : calls[k] \in InFlight(calls')
  BY ServedCalls DEF RosterInv, AgentCalls
<1>2. OneAwaited(calls', page'.actionInProgressId # NoAgent)
  BY AwaitedServe DEF RosterInv, AgentCalls
<1>3. ASSUME NEW b \in Agents, replicas'[b] = 0, row'[b] = "ACTIVE", b \notin excused'
      PROVE  b \in Contained(calls')
  <2>1. b \in Contained(calls) /\ (calls[i].stage \in Containing => calls[i].arg # b)
    BY <1>3 DEF RosterInv, Explained
  <2>2. PICK k \in DOMAIN calls : calls[k].arg = b /\ calls[k].stage \in Containing
    BY <2>1 DEF Contained, InFlight
  <2>3. k # i BY <2>1, <2>2
  <2>4. QED BY <1>1, <2>2, <2>3 DEF Contained
<1>4. Explained(row', replicas', excused', Contained(calls'))
  BY <1>3 DEF Explained
<1>5. QED BY <1>1, <1>2, <1>4, RosterKept DEF RosterInv

LEMMA ServeRosterStep ==
  ASSUME RosterInv, NEW i \in DOMAIN calls, ServeAgents(i)
  PROVE  RosterInv'
<1>1. /\ calls[i] \in AgentCalls /\ calls[i].op = "getAgents" /\ calls[i].stage = "sent"
      /\ page' = page /\ row' = row /\ replicas' = replicas /\ excused' = excused
  BY AgentCallTypes DEF RosterInv, ServeAgents, agentRows
<1>2. PICK a \in Replies(AgentValues) : calls' = Served(i, a) /\ a.value \in Roster
  <2>1. row \in AgentValues /\ row \in Roster BY DEF RosterInv, AgentTypes, AgentValues
  <2>2. Ok(row) \in Replies(AgentValues) BY <2>1, ReplyTypes
  <2>3. Ok(row).value = row BY DEF Ok
  <2>4. QED BY <2>1, <2>2, <2>3 DEF ServeAgents
<1>3. CallHolds(Answered(calls[i], a), Stopped(replicas))
  BY <1>1, <1>2, AnsweredAgentCall DEF CallHolds, AgentCommands, Containing
<1>4. AgentTypes' BY <1>1 DEF RosterInv, AgentTypes
<1>5. calls[i].stage \notin Containing BY <1>1 DEF Containing
<1>6. QED BY <1>1, <1>2, <1>3, <1>4, <1>5, AgentServed

LEMMA ContainStep ==
  ASSUME RosterInv, NEW i \in DOMAIN calls, ContainAgent(i)
  PROVE  RosterInv'
<1>1. /\ calls[i] \in AgentCalls /\ calls[i].op = "quarantineAgent" /\ calls[i].stage = "sent"
      /\ CallHolds(calls[i], Stopped(replicas))
      /\ page' = page /\ row' = row /\ excused' = excused
  BY AgentCallTypes DEF RosterInv, ContainAgent
<1>2. PICK a \in Agents : a = calls[i].arg
  BY <1>1 DEF CallHolds, AgentCommands
<1>3. PICK stage \in Containing :
        /\ replicas' = [replicas EXCEPT ![a] = 0] \/ (replicas' = replicas /\ stage = "uncontained")
        /\ calls' = [calls EXCEPT ![i].stage = stage]
  BY <1>2 DEF ContainAgent, Containing
<1>4. /\ AgentTypes' /\ Stopped(replicas) \subseteq Stopped(replicas')
      /\ stage = "contained" => a \in Stopped(replicas')
      /\ \A b \in Agents : b # a => replicas'[b] = replicas[b]
  BY <1>1, <1>3 DEF RosterInv, AgentTypes, Stopped
<1>5. PICK c \in AgentCalls :
        /\ c = Staged(calls[i], stage) /\ c.op = "quarantineAgent" /\ c.arg = a
        /\ c.by = calls[i].by /\ c.stage = stage /\ c.answer = calls[i].answer
  BY <1>1, <1>2, StagedAgentCall DEF Containing, Stages
<1>6. calls' = Changed(calls, i, c)
  <2>1. calls \in [DOMAIN calls -> AgentCalls] BY DEF RosterInv
  <2>2. QED BY <1>3, <1>5, <2>1 DEF Changed, Staged
<1>7. /\ calls' \in Seq(AgentCalls) /\ InFlight(calls') \subseteq InFlight(calls) \cup {c}
      /\ c \in InFlight(calls') /\ \A k \in DOMAIN calls \ {i} : calls[k] \in InFlight(calls')
  BY <1>6, ChangedCalls DEF RosterInv
<1>8. OneAwaited(calls', page'.actionInProgressId # NoAgent)
  BY <1>1, <1>5, <1>6, AwaitedChange DEF RosterInv
<1>9. CallHolds(c, Stopped(replicas'))
  <2>1. CallHolds(calls[i], Stopped(replicas')) BY <1>1, <1>4, HoldingStays
  <2>2. QED BY <1>1, <1>2, <1>4, <1>5, <2>1 DEF CallHolds
<1>10. ReportHolds(page'.quarantineModalResult, Stopped(replicas'))
  BY <1>1, <1>4, HoldingStays DEF RosterInv
<1>11. ASSUME NEW b \in Agents, replicas'[b] = 0, row'[b] = "ACTIVE", b \notin excused'
       PROVE  b \in Contained(calls')
  <2>1. CASE b = a
    BY <1>5, <1>7, <2>1 DEF Contained, Containing
  <2>2. CASE b # a
    <3>1. b \in Contained(calls)
      BY <1>1, <1>4, <1>11, <2>2 DEF RosterInv, Explained
    <3>2. PICK k \in DOMAIN calls : calls[k].arg = b /\ calls[k].stage \in Containing
      BY <3>1 DEF Contained, InFlight
    <3>3. k # i BY <1>2, <2>2, <3>2
    <3>4. QED BY <1>7, <3>2, <3>3 DEF Contained
  <2>3. QED BY <2>1, <2>2
<1>12. Explained(row', replicas', excused', Contained(calls'))
  BY <1>11 DEF Explained
<1>13. QED BY <1>1, <1>4, <1>7, <1>8, <1>9, <1>10, <1>12, RosterKept DEF RosterInv

LEMMA CommitQuarantineStep ==
  ASSUME RosterInv, NEW i \in DOMAIN calls, CommitQuarantine(i)
  PROVE  RosterInv'
<1>1. /\ calls[i] \in AgentCalls /\ calls[i].stage \in Containing
      /\ CallHolds(calls[i], Stopped(replicas)) /\ page' = page /\ replicas' = replicas
  BY AgentCallTypes DEF RosterInv, CommitQuarantine, Containing
<1>2. calls[i].op = "quarantineAgent"
  BY <1>1 DEF CallHolds
<1>3. PICK b \in Agents : b = calls[i].arg
  BY <1>1, <1>2 DEF CallHolds, AgentCommands
<1>4. CASE calls' = Served(i, ServerError) /\ excused' = excused \cup {calls[i].arg}
           /\ UNCHANGED <<row, overtaken>>
  <2>1. PICK a \in Replies(AgentValues) : a = ServerError /\ ~a.ok BY ReplyTypes
  <2>2. CallHolds(Answered(calls[i], a), Stopped(replicas))
    BY <1>1, <1>2, <1>3, <2>1, AnsweredAgentCall DEF CallHolds, Containing
  <2>3. AgentTypes' BY <1>1, <1>3, <1>4 DEF RosterInv, AgentTypes
  <2>4. QED BY <1>1, <1>3, <1>4, <2>1, <2>2, <2>3, AgentServed
<1>5. CASE /\ row' = [row EXCEPT ![calls[i].arg] = "REVOKED"]
           /\ calls' = Served(i, Ok(Report(calls[i].arg, calls[i].stage = "contained")))
           /\ excused' = excused \ {calls[i].arg}
  <2>1. PICK r \in Reports : r = Report(b, calls[i].stage = "contained")
    <3>1. (calls[i].stage = "contained") \in BOOLEAN OBVIOUS
    <3>2. Report(b, calls[i].stage = "contained") \in Reports BY <3>1, ReportType
    <3>3. QED BY <3>2
  <2>2. ReportHolds(r, Stopped(replicas))
    BY <1>1, <1>3, <2>1 DEF ReportHolds, Report, CallHolds
  <2>3. PICK a \in Replies(AgentValues) : a = Ok(r) /\ a.value = r
    <3>1. r \in AgentValues BY DEF AgentValues
    <3>2. Ok(r) \in Replies(AgentValues) BY <3>1, ReplyTypes
    <3>3. Ok(r).value = r BY DEF Ok
    <3>4. QED BY <3>2, <3>3
  <2>4. CallHolds(Answered(calls[i], a), Stopped(replicas))
    BY <1>1, <1>2, <1>3, <2>2, <2>3, AnsweredAgentCall DEF CallHolds, Containing
  <2>5. AgentTypes'
    BY <1>1, <1>3, <1>5 DEF RosterInv, AgentTypes, Roster, AgentStatuses
  <2>6. \A d \in Agents : row'[d] = IF d = b THEN "REVOKED" ELSE row[d]
    BY <1>3, <1>5 DEF RosterInv, AgentTypes, Roster
  <2>7. \A d \in Agents : row'[d] = "ACTIVE" /\ d \notin excused' =>
          row[d] = "ACTIVE" /\ d \notin excused /\ d # b
    BY <1>3, <1>5, <2>6
  <2>8. calls' = Served(i, a)
    BY <1>3, <1>5, <2>1, <2>3
  <2>9. QED BY <1>1, <1>3, <2>4, <2>5, <2>7, <2>8, AgentServed
<1>6. QED BY <1>4, <1>5 DEF CommitQuarantine

LEMMA RestoreStep ==
  ASSUME RosterInv, NEW i \in DOMAIN calls, RestoreAgent(i)
  PROVE  RosterInv'
<1>1. /\ calls[i] \in AgentCalls /\ calls[i].op = "restoreAgent" /\ calls[i].stage = "sent"
      /\ CallHolds(calls[i], Stopped(replicas)) /\ page' = page /\ replicas' = replicas
  BY AgentCallTypes DEF RosterInv, RestoreAgent
<1>2. PICK b \in Agents : b = calls[i].arg
  BY <1>1 DEF CallHolds, AgentCommands
<1>3. PICK a \in Replies(AgentValues) :
        /\ calls' = Served(i, a)
        /\ \/ row' = [row EXCEPT ![b] = "ACTIVE"] /\ excused' = excused \cup {b}
           \/ row' = row /\ excused' = excused
  <2>1. Ok("ACTIVE") \in Replies(AgentValues) /\ ServerError \in Replies(AgentValues)
    BY ReplyTypes DEF AgentValues
  <2>2. QED BY <1>2, <2>1 DEF RestoreAgent
<1>4. CallHolds(Answered(calls[i], a), Stopped(replicas))
  BY <1>1, <1>2, AnsweredAgentCall DEF CallHolds, AgentCommands, Containing
<1>5. AgentTypes'
  BY <1>1, <1>3 DEF RosterInv, AgentTypes, Roster, AgentStatuses
<1>6. \A d \in Agents : row'[d] = "ACTIVE" /\ d \notin excused' =>
        row[d] = "ACTIVE" /\ d \notin excused
  BY <1>3 DEF RosterInv, AgentTypes, Roster
<1>7. calls[i].stage \notin Containing BY <1>1 DEF Containing
<1>8. QED BY <1>1, <1>3, <1>4, <1>5, <1>6, <1>7, AgentServed

LEMMA PatchStep ==
  ASSUME RosterInv, NEW b \in Agents, PatchAgent(b)
  PROVE  RosterInv'
<1>1. page' = page /\ calls' = calls /\ replicas' = replicas
  BY DEF PatchAgent
<1>2. PICK s \in AgentStatuses :
        /\ row' = [row EXCEPT ![b] = s]
        /\ excused' = IF s = "ACTIVE" THEN excused \cup {b} ELSE excused \ {b}
  BY DEF PatchAgent
<1>3. AgentTypes'
  BY <1>1, <1>2 DEF RosterInv, AgentTypes, Roster
<1>4. \A d \in Agents : row'[d] = "ACTIVE" /\ d \notin excused' =>
        row[d] = "ACTIVE" /\ d \notin excused
  BY <1>2 DEF RosterInv, AgentTypes, Roster
<1>5. Explained(row', replicas', excused', Contained(calls'))
  BY <1>1, <1>4 DEF RosterInv, Explained
<1>6. QED BY <1>1, <1>3, <1>5, RosterKept DEF RosterInv

-----------------------------------------------------------------------------
(* Steps of the page and of other operators.                               *)

(* A call is sent that no handler awaits.                                  *)
LEMMA AgentSend ==
  ASSUME RosterInv, UNCHANGED agentRows,
         NEW c \in AgentCalls, c.by # "handler", CallHolds(c, Stopped(replicas)),
         calls' = Append(calls, c),
         page' \in AgentPages, page'.actionInProgressId = page.actionInProgressId,
         page'.quarantineModalResult = page.quarantineModalResult
  PROVE  RosterInv'
<1>1. calls' \in Seq(AgentCalls) /\ InFlight(calls') = InFlight(calls) \cup {c}
  BY SentCalls DEF RosterInv
<1>2. OneAwaited(calls', page'.actionInProgressId # NoAgent)
  BY AwaitedSend DEF RosterInv
<1>3. Contained(calls) \subseteq Contained(calls')
  BY <1>1 DEF Contained
<1>4. QED BY <1>1, <1>2, <1>3, RosterKeptRows DEF RosterInv

LEMMA RefreshStep ==
  ASSUME RosterInv, RefreshAgents
  PROVE  RosterInv'
<1>1. /\ calls' = Append(calls, FetchAgents("page")) /\ UNCHANGED agentRows
      /\ page' \in AgentPages /\ page'.actionInProgressId = page.actionInProgressId
      /\ page'.quarantineModalResult = page.quarantineModalResult
  BY DEF RefreshAgents, RosterInv, AgentPages
<1>2. /\ FetchAgents("page") \in AgentCalls /\ FetchAgents("page").by # "handler"
      /\ CallHolds(FetchAgents("page"), Stopped(replicas))
  BY FetchAgentsRequest DEF Callers
<1>3. QED BY <1>1, <1>2, AgentSend

LEMMA ForeignAgentStep ==
  ASSUME RosterInv, ForeignAgentCommand
  PROVE  RosterInv'
<1>1. PICK op \in AgentCommands, b \in Agents : calls' = Append(calls, Request(op, b, "nobody"))
  BY DEF ForeignAgentCommand, ForeignCall
<1>2. /\ Request(op, b, "nobody") \in AgentCalls /\ Request(op, b, "nobody").by # "handler"
      /\ CallHolds(Request(op, b, "nobody"), Stopped(replicas))
  BY AgentRequest DEF Callers, AgentOps, AgentIds
<1>3. page' = page /\ UNCHANGED agentRows
  BY DEF ForeignAgentCommand
<1>4. QED BY <1>1, <1>2, <1>3, AgentSend DEF RosterInv

LEMMA AgentDialogStep ==
  ASSUME RosterInv, OpenAgentDialog \/ CancelAgentDialog \/ CloseReport
  PROVE  RosterInv'
<1>1. calls' = calls /\ UNCHANGED agentRows
  BY DEF OpenAgentDialog, CancelAgentDialog, CloseReport
<1>2. /\ page' \in AgentPages /\ page'.actionInProgressId = page.actionInProgressId
      /\ page'.quarantineModalResult \in {page.quarantineModalResult, NoReport}
  <2>1. CASE OpenAgentDialog
    BY <2>1 DEF OpenAgentDialog, RosterInv, AgentPages
  <2>2. CASE CancelAgentDialog
    BY <2>2 DEF CancelAgentDialog, RosterInv, AgentPages
  <2>3. CASE CloseReport
    BY <2>3 DEF CloseReport, RosterInv, AgentPages
  <2>4. QED BY <2>1, <2>2, <2>3
<1>3. ReportHolds(page'.quarantineModalResult, Stopped(replicas))
  <2>1. ReportHolds(NoReport, Stopped(replicas)) BY DEF ReportHolds, NoReport
  <2>2. QED BY <1>2, <2>1 DEF RosterInv
<1>4. QED BY <1>1, <1>2, <1>3, RosterKeptRows DEF RosterInv

LEMMA ExecuteAgentStep ==
  ASSUME RosterInv, ExecuteAgentAction
  PROVE  RosterInv'
<1>1. PICK target \in [agent : Agents, action : {"quarantine", "restore"}] :
        /\ page' = [page EXCEPT !.actionInProgressId = target.agent]
        /\ calls' = Append(calls,
             Request(IF target.action = "quarantine" THEN "quarantineAgent" ELSE "restoreAgent",
                     target.agent, "handler"))
  <2>1. page.confirmTarget \in [agent : Agents, action : {"quarantine", "restore"}]
    BY DEF ExecuteAgentAction, RosterInv, AgentPages
  <2>2. QED BY <2>1 DEF ExecuteAgentAction
<1>2. PICK op \in AgentCommands, b \in Agents :
        calls' = Append(calls, Request(op, b, "handler")) /\ b = target.agent
  BY <1>1 DEF AgentCommands
<1>3. /\ page.actionInProgressId = NoAgent /\ UNCHANGED agentRows
      /\ page' \in AgentPages /\ page'.actionInProgressId # NoAgent
      /\ page'.quarantineModalResult = page.quarantineModalResult
  BY <1>1, <1>2, NoAgentAssumption DEF ExecuteAgentAction, RosterInv, AgentPages, AgentIds
<1>4. /\ Request(op, b, "handler") \in AgentCalls /\ Request(op, b, "handler").by = "handler"
      /\ CallHolds(Request(op, b, "handler"), Stopped(replicas))
  BY AgentRequest DEF Callers, AgentOps, AgentIds
<1>5. Awaited(calls) = {}
  BY <1>3 DEF RosterInv, OneAwaited
<1>6. calls' \in Seq(AgentCalls)
      /\ InFlight(calls') = InFlight(calls) \cup {Request(op, b, "handler")}
  BY <1>2, <1>4, SentCalls DEF RosterInv
<1>7. OneAwaited(calls', page'.actionInProgressId # NoAgent)
  BY <1>2, <1>3, <1>4, <1>5, AwaitedSend DEF RosterInv
<1>8. Contained(calls) \subseteq Contained(calls')
  BY <1>6 DEF Contained
<1>9. QED BY <1>3, <1>4, <1>6, <1>7, <1>8, RosterKeptRows DEF RosterInv

(* The answer was heard, or the client has given up: a quarantine that has *)
(* not been committed stays under way.                                     *)
LEMMA AgentGone ==
  ASSUME RosterInv, NEW i \in DOMAIN calls, NEW rest, Gone(i, rest)
  PROVE  /\ rest \in Seq(AgentCalls)
         /\ calls[i].by # "handler" => OneAwaited(rest, page.actionInProgressId # NoAgent)
         /\ calls[i].by = "handler" => Awaited(rest) = {}
         /\ \A c \in InFlight(rest) :
              c \in InFlight(calls) \/ \E d \in InFlight(calls) : c = Orphaned(d)
         /\ Contained(calls) \subseteq Contained(rest)
<1>1. /\ calls[i] \in AgentCalls /\ calls[i] \in InFlight(calls)
      /\ calls[i].stage \in Containing => calls[i].op = "quarantineAgent"
  BY AgentCallTypes DEF RosterInv, CallHolds
<1>2. CASE rest = GivenUp(i)
  <2>1. /\ rest \in Seq(AgentCalls)
        /\ InFlight(rest) \subseteq InFlight(calls) \cup {Orphaned(calls[i])}
        /\ \A k \in DOMAIN calls \ {i} : calls[k] \in InFlight(rest)
        /\ calls[i].op \in Commands /\ calls[i].stage # "served" => Orphaned(calls[i]) \in InFlight(rest)
    BY <1>2, GivenUpCalls DEF RosterInv, AgentCalls
  <2>2. /\ calls[i].by # "handler" => OneAwaited(rest, page.actionInProgressId # NoAgent)
        /\ calls[i].by = "handler" => Awaited(rest) = {}
    BY <1>2, AwaitedGiveUp DEF RosterInv, AgentCalls
  <2>3. ASSUME NEW k \in DOMAIN calls, calls[k].stage \in Containing
        PROVE  calls[k].arg \in Contained(rest)
    <3>1. CASE k # i BY <2>1, <2>3, <3>1 DEF Contained
    <3>2. CASE k = i
      <4>1. Orphaned(calls[i]) \in InFlight(rest)
        BY <1>1, <2>1, <2>3, <3>2 DEF Commands, Containing
      <4>2. Orphaned(calls[i]).arg = calls[i].arg /\ Orphaned(calls[i]).stage = calls[i].stage
        BY <1>1, OrphanHolds
      <4>3. QED BY <2>3, <3>2, <4>1, <4>2 DEF Contained
    <3>3. QED BY <3>1, <3>2
  <2>4. QED BY <1>1, <2>1, <2>2, <2>3 DEF Contained, InFlight
<1>3. CASE calls[i].stage = "served" /\ rest = Heard(i)
  <2>1. /\ rest \in Seq(AgentCalls) /\ InFlight(rest) \subseteq InFlight(calls)
        /\ \A k \in DOMAIN calls \ {i} : calls[k] \in InFlight(rest)
    BY <1>3, HeardCalls DEF RosterInv, Heard
  <2>2. /\ calls[i].by # "handler" => OneAwaited(rest, page.actionInProgressId # NoAgent)
        /\ calls[i].by = "handler" => Awaited(rest) = {}
    BY <1>3, AwaitedHear DEF RosterInv, Heard
  <2>3. ASSUME NEW k \in DOMAIN calls, calls[k].stage \in Containing
        PROVE  calls[k].arg \in Contained(rest)
    BY <1>3, <2>1, <2>3 DEF Contained, Containing
  <2>4. QED BY <2>1, <2>2, <2>3 DEF Contained, InFlight
<1>4. QED BY <1>2, <1>3 DEF Gone

(* The roster is shown, and if the handler awaited it, the handler ends.   *)
LEMMA RosterStep ==
  ASSUME RosterInv, NEW i \in DOMAIN calls, NEW a \in Replies(AgentValues), NEW rest,
         Gone(i, rest), a.ok => a.value \in Roster, RosterAnswered(i, a, rest)
  PROVE  RosterInv'
<1>1. calls' = rest /\ UNCHANGED agentRows
  BY DEF RosterAnswered
<1>2. PICK shown \in [Agents -> AgentStatuses \cup {"none"}], busy \in AgentIds :
        /\ page' = [page EXCEPT !.agents = shown, !.loading = FALSE, !.isRefreshing = FALSE,
                                !.actionInProgressId = busy]
        /\ busy = IF calls[i].by = "handler" THEN NoAgent ELSE page.actionInProgressId
  <2>1. (IF a.ok THEN a.value ELSE page.agents) \in [Agents -> AgentStatuses \cup {"none"}]
    BY DEF RosterInv, AgentPages, Roster
  <2>2. (IF calls[i].by = "handler" THEN NoAgent ELSE page.actionInProgressId) \in AgentIds
    BY DEF RosterInv, AgentPages, AgentIds
  <2>3. QED BY <2>1, <2>2 DEF RosterAnswered
<1>3. /\ page' \in AgentPages /\ page'.actionInProgressId = busy
      /\ page'.quarantineModalResult = page.quarantineModalResult
  BY <1>2 DEF RosterInv, AgentPages
<1>4. OneAwaited(rest, page'.actionInProgressId # NoAgent)
  <2>1. CASE calls[i].by = "handler"
    BY <1>2, <1>3, <2>1, AgentGone DEF OneAwaited
  <2>2. CASE calls[i].by # "handler"
    BY <1>2, <1>3, <2>2, AgentGone
  <2>3. QED BY <2>1, <2>2
<1>5. QED BY <1>1, <1>3, <1>4, AgentGone, RosterKeptRows DEF RosterInv

(* The command is over, a quarantine is reported, and the handler awaits   *)
(* the roster once more.                                                   *)
LEMMA AgentOverStep ==
  ASSUME RosterInv, NEW i \in DOMAIN calls, NEW a \in Replies(AgentValues), NEW rest,
         Gone(i, rest), AgentCommandAnswered(i, a, rest),
         a = NoResponse \/ a = calls[i].answer
  PROVE  RosterInv'
<1>1. /\ calls[i].op \in AgentCommands /\ calls[i].by = "handler" /\ UNCHANGED agentRows
      /\ CallHolds(calls[i], Stopped(replicas))
  BY AgentCallTypes DEF AgentCommandAnswered, RosterInv
<1>2. PICK shown \in Reports \cup {NoReport} :
        /\ page' = [page EXCEPT !.confirmTarget = NoTarget, !.quarantineModalResult = shown]
        /\ ReportHolds(shown, Stopped(replicas))
  <2>1. CASE a.ok /\ calls[i].op = "quarantineAgent"
    <3>1. a = calls[i].answer BY <2>1, ReplyTypes
    <3>2. a.value \in Reports /\ ReportHolds(a.value, Stopped(replicas))
      BY <1>1, <2>1, <3>1 DEF CallHolds
    <3>3. QED BY <2>1, <3>2 DEF AgentCommandAnswered
  <2>2. CASE ~(a.ok /\ calls[i].op = "quarantineAgent")
    BY <2>2 DEF AgentCommandAnswered, RosterInv, AgentPages
  <2>3. QED BY <2>1, <2>2
<1>3. i \in Awaited(calls)
  BY <1>1 DEF Awaited
<1>4. /\ page' \in AgentPages /\ page'.actionInProgressId # NoAgent
      /\ page'.quarantineModalResult = shown
  <2>1. page.actionInProgressId # NoAgent
    BY <1>3 DEF RosterInv, OneAwaited
  <2>2. QED BY <1>2, <2>1 DEF RosterInv, AgentPages
<1>5. PICK c \in AgentCalls :
        c = FetchAgents("handler") /\ c.by = "handler" /\ CallHolds(c, Stopped(replicas))
  BY FetchAgentsRequest DEF Callers
<1>6. rest \in Seq(AgentCalls) /\ Awaited(rest) = {} /\ calls' = Append(rest, c)
  BY <1>1, <1>5, AgentGone DEF AgentCommandAnswered
<1>7. calls' \in Seq(AgentCalls) /\ InFlight(calls') = InFlight(rest) \cup {c}
  BY <1>6, SentCalls
<1>8. OneAwaited(calls', page'.actionInProgressId # NoAgent)
  BY <1>4, <1>5, <1>6, AwaitedSend
<1>9. Contained(calls) \subseteq Contained(calls')
  <2>1. Contained(rest) \subseteq Contained(calls') BY <1>7 DEF Contained
  <2>2. QED BY <2>1, AgentGone
<1>10. \A d \in InFlight(calls') :
         \/ d \in InFlight(calls) \/ \E e \in InFlight(calls) : d = Orphaned(e)
         \/ CallHolds(d, Stopped(replicas))
  BY <1>5, <1>7, AgentGone
<1>11. QED BY <1>1, <1>2, <1>4, <1>7, <1>8, <1>9, <1>10, RosterKeptRows

LEMMA AgentAnswerStep ==
  ASSUME RosterInv, NEW i \in DOMAIN calls, HearAgents(i) \/ GiveUpAgents(i)
  PROVE  RosterInv'
<1>1. /\ calls[i].answer \in Replies(AgentValues) /\ NoResponse \in Replies(AgentValues)
      /\ ~NoResponse.ok /\ CallHolds(calls[i], Stopped(replicas))
  BY AgentCallTypes, ReplyTypes DEF RosterInv
<1>2. calls[i].op = "getAgents" /\ calls[i].answer.ok => calls[i].answer.value \in Roster
  BY <1>1 DEF CallHolds
<1>3. CASE HearAgents(i)
  <2>1. Gone(i, Heard(i)) BY <1>3 DEF HearAgents, Gone
  <2>2. CASE RosterAnswered(i, calls[i].answer, Heard(i))
    <3>1. calls[i].op = "getAgents" BY <2>2 DEF RosterAnswered
    <3>2. QED BY <1>1, <1>2, <2>1, <2>2, <3>1, RosterStep
  <2>3. CASE AgentCommandAnswered(i, calls[i].answer, Heard(i))
    BY <1>1, <2>1, <2>3, AgentOverStep
  <2>4. QED BY <1>3, <2>2, <2>3 DEF HearAgents
<1>4. CASE GiveUpAgents(i)
  <2>1. Gone(i, GivenUp(i)) BY DEF Gone
  <2>2. QED BY <1>1, <1>4, <2>1, RosterStep, AgentOverStep DEF GiveUpAgents
<1>5. QED BY <1>3, <1>4

LEMMA AgentLoseStep ==
  ASSUME RosterInv, NEW i \in DOMAIN calls, LoseRequest(i), UNCHANGED agentRows
  PROVE  RosterInv'
<1>1. calls' = Heard(i) /\ page' = page /\ calls[i].by # "handler" /\ calls[i].stage = "sent"
  BY DEF LoseRequest, Heard
<1>2. /\ calls' \in Seq(AgentCalls) /\ InFlight(calls') \subseteq InFlight(calls)
      /\ \A k \in DOMAIN calls \ {i} : calls[k] \in InFlight(calls')
      /\ OneAwaited(calls', page'.actionInProgressId # NoAgent)
  BY <1>1, HeardCalls, AwaitedHear DEF RosterInv, Heard
<1>3. ASSUME NEW k \in DOMAIN calls, calls[k].stage \in Containing
      PROVE  calls[k].arg \in Contained(calls')
  BY <1>1, <1>2, <1>3 DEF Contained, Containing
<1>4. Contained(calls) \subseteq Contained(calls')
  BY <1>3 DEF Contained, InFlight
<1>5. QED BY <1>1, <1>2, <1>4, RosterKeptRows DEF RosterInv

LEMMA MountedRoster ==
  /\ AgentsMounted \in AgentPages /\ AgentsMounted.actionInProgressId = NoAgent
  /\ \A stopped : ReportHolds(AgentsMounted.quarantineModalResult, stopped)
<1>1. [a \in Agents |-> "none"] \in [Agents -> AgentStatuses \cup {"none"}] OBVIOUS
<1>2. AgentsMounted \in AgentPages
  BY <1>1 DEF AgentsMounted, AgentPages, AgentIds
<1>3. \A stopped : ReportHolds(NoReport, stopped)
  BY DEF ReportHolds, NoReport
<1>4. QED BY <1>2, <1>3 DEF AgentsMounted

LEMMA AgentReturnStep ==
  ASSUME RosterInv, ReturnToAgents
  PROVE  RosterInv'
<1>1. PICK c \in AgentCalls :
        c = FetchAgents("page") /\ c.by # "handler" /\ CallHolds(c, Stopped(replicas))
  BY FetchAgentsRequest DEF Callers
<1>2. PICK rest \in Abandoned :
        calls' = Append(rest, c) /\ page' = AgentsMounted /\ UNCHANGED agentRows
  BY <1>1 DEF ReturnToAgents, Remount
<1>3. /\ rest \in Seq(AgentCalls) /\ Awaited(rest) = {}
      /\ \A d \in InFlight(rest) : \E e \in InFlight(calls) : d = Orphaned(e)
      /\ \A d \in InFlight(calls) :
           d.op \in Commands /\ d.stage # "served" => Orphaned(d) \in InFlight(rest)
  BY LeftCalls, AwaitedLeave DEF RosterInv, AgentCalls
<1>4. calls' \in Seq(AgentCalls) /\ InFlight(calls') = InFlight(rest) \cup {c}
  BY <1>2, <1>3, SentCalls
<1>5. OneAwaited(calls', FALSE)
  BY <1>1, <1>2, <1>3, AwaitedSend DEF OneAwaited
<1>6. OneAwaited(calls', page'.actionInProgressId # NoAgent)
  BY <1>2, <1>5, MountedRoster
<1>7. ASSUME NEW k \in DOMAIN calls, calls[k].stage \in Containing
      PROVE  calls[k].arg \in Contained(calls')
  <2>1. /\ calls[k] \in AgentCalls /\ calls[k] \in InFlight(calls)
        /\ calls[k].op = "quarantineAgent"
    BY <1>7, AgentCallTypes DEF RosterInv, CallHolds
  <2>2. Orphaned(calls[k]) \in InFlight(rest)
    BY <1>3, <1>7, <2>1 DEF Commands, Containing
  <2>3. Orphaned(calls[k]).arg = calls[k].arg /\ Orphaned(calls[k]).stage = calls[k].stage
    BY <2>1, OrphanHolds
  <2>4. QED BY <1>4, <1>7, <2>2, <2>3 DEF Contained
<1>8. Contained(calls) \subseteq Contained(calls')
  BY <1>7 DEF Contained, InFlight
<1>9. QED BY <1>1, <1>2, <1>3, <1>4, <1>6, <1>8, MountedRoster, RosterKeptRows

LEMMA AgentsMountInv ==
  ASSUME page = AgentsMounted, calls = <<FetchAgents("page")>>,
         \/ AgentsServerInit
         \/ /\ row = [a \in Agents |-> "ACTIVE"] /\ replicas = [a \in Agents |-> 1]
            /\ excused = {}
  PROVE  RosterInv
<1>1. PICK c \in AgentCalls :
        c = FetchAgents("page") /\ c.by # "handler" /\ CallHolds(c, Stopped(replicas))
  BY FetchAgentsRequest DEF Callers
<1>2. calls \in Seq(AgentCalls) /\ Awaited(calls) = {} /\ InFlight(calls) = {c}
  BY <1>1 DEF Awaited, InFlight
<1>3. AgentTypes /\ \A a \in Agents : replicas[a] # 0
  BY DEF AgentsServerInit, AgentTypes, Roster, AgentStatuses
<1>4. Explained(row, replicas, excused, Contained(calls))
  BY <1>3 DEF Explained
<1>5. QED BY <1>1, <1>2, <1>3, <1>4, MountedRoster DEF RosterInv, OneAwaited

LEMMA AgentsNextInv ==
  ASSUME RosterInv, AgentsNext
  PROVE  RosterInv'
<1>1. CASE AgentsPageNext
  BY <1>1, RefreshStep, AgentDialogStep, ExecuteAgentStep, AgentAnswerStep DEF AgentsPageNext
<1>2. CASE ForeignAgentCommand BY <1>2, ForeignAgentStep
<1>3. CASE ReturnToAgents BY <1>3, AgentReturnStep
<1>4. CASE \E a \in Agents : PatchAgent(a) BY <1>4, PatchStep
<1>5. CASE \E i \in DOMAIN calls : ServeAgent(i)
  BY <1>5, ServeRosterStep, ContainStep, CommitQuarantineStep, RestoreStep DEF ServeAgent
<1>6. CASE \E i \in DOMAIN calls : LoseRequest(i) /\ UNCHANGED <<agentRows, overtaken>>
  BY <1>6, AgentLoseStep
<1>7. QED BY <1>1, <1>2, <1>3, <1>4, <1>5, <1>6 DEF AgentsNext

(* What the invariant says in the words of the properties.                 *)
LEMMA RosterInvImplies ==
  ASSUME RosterInv
  PROVE  OneAgentCommand /\ ReportIsTrue /\ StoppedIsExplained
<1>1. {i \in DOMAIN calls : calls[i].by = "handler"} = Awaited(calls)
  BY DEF Awaited
<1>2. OneAgentCommand
  BY <1>1 DEF RosterInv, OneAgentCommand, OneAwaited
<1>3. ReportIsTrue
  BY DEF RosterInv, ReportIsTrue, ReportHolds, Stopped
<1>4. StoppedIsExplained
  <2>1. ASSUME NEW a \in Agents, replicas[a] = 0, row[a] = "ACTIVE", a \notin excused
        PROVE  \E i \in DOMAIN calls :
                 calls[i].arg = a /\ calls[i].stage \in {"contained", "uncontained"}
    <3>1. a \in Contained(calls) BY <2>1 DEF RosterInv, Explained
    <3>2. QED BY <3>1 DEF Contained, InFlight, Containing
  <2>2. QED BY <2>1 DEF StoppedIsExplained
<1>5. QED BY <1>2, <1>3, <1>4

-----------------------------------------------------------------------------
(* What the roster shows. The invariant stands beside RosterInv, which     *)
(* gives the types.                                                        *)

FetchesAreAwaited(s) == \A c \in InFlight(s) : c.op = "getAgents" => c.by # "nobody"

\* A command of the page was answered: when the handler hears of it, it fetches.
Announced(s) ==
  \E c \in InFlight(s) : c.op \in AgentCommands /\ c.by # "nobody" /\ c.stage = "served"

\* The newest fetch, if it was answered, was answered with the table, and
\* the table is what the page shows when no fetch is under way.
ShowsTheTable(shown, s, status) ==
  /\ \A k : IsLast(s, "getAgents", k) /\ s[k].stage = "served" =>
       s[k].answer.ok /\ s[k].answer.value = status
  /\ (\A c \in InFlight(s) : c.op # "getAgents") => shown = status

RosterFresh ==
  /\ overtaken \in BOOLEAN /\ FetchesAreAwaited(calls)
  /\ overtaken \/ Announced(calls) \/ ShowsTheTable(page.agents, calls, row)

(* A fetch is sent: it is the newest, and it was not answered yet.         *)
LEMMA FetchSent ==
  ASSUME NEW s \in Seq(AgentCalls), NEW by \in Callers \ {"nobody"}, NEW shown, NEW status,
         FetchesAreAwaited(s)
  PROVE  /\ FetchesAreAwaited(Sent(s, FetchAgents(by)))
         /\ ShowsTheTable(shown, Sent(s, FetchAgents(by)), status)
<1> DEFINE c == FetchAgents(by)
<1>1. c \in AgentCalls /\ c.op = "getAgents" /\ c.by = by /\ c.stage = "sent"
  BY RequestType DEF FetchAgents, AgentCalls, AgentOps, AgentIds
<1> HIDE DEF c
<1>2. InFlight(Sent(s, c)) = InFlight(s) \cup {c}
  BY <1>1, SentCalls DEF Sent
<1>3. \A k : IsLast(Sent(s, c), "getAgents", k) => Sent(s, c)[k] = c
  BY <1>1, LastSent
<1>4. FetchesAreAwaited(Sent(s, c)) /\ ShowsTheTable(shown, Sent(s, c), status)
  BY <1>1, <1>2, <1>3 DEF FetchesAreAwaited, ShowsTheTable
<1>5. QED BY <1>4 DEF c

(* A command is sent.                                                      *)
LEMMA CommandSent ==
  ASSUME NEW s \in Seq(AgentCalls), NEW c \in AgentCalls, c.op # "getAgents",
         NEW shown, NEW status, FetchesAreAwaited(s),
         Announced(s) \/ ShowsTheTable(shown, s, status)
  PROVE  /\ FetchesAreAwaited(Sent(s, c))
         /\ Announced(Sent(s, c)) \/ ShowsTheTable(shown, Sent(s, c), status)
<1>1. InFlight(Sent(s, c)) = InFlight(s) \cup {c}
  BY SentCalls DEF Sent
<1>2. FetchesAreAwaited(Sent(s, c)) BY <1>1 DEF FetchesAreAwaited
<1>3. Announced(s) => Announced(Sent(s, c)) BY <1>1 DEF Announced
<1>4. ASSUME ShowsTheTable(shown, s, status) PROVE ShowsTheTable(shown, Sent(s, c), status)
  <2>1. \A k : IsLast(Sent(s, c), "getAgents", k) =>
          IsLast(s, "getAgents", k) /\ Sent(s, c)[k] = s[k]
    BY LastSent
  <2>2. QED BY <1>1, <1>4, <2>1 DEF ShowsTheTable
<1>5. QED BY <1>2, <1>3, <1>4

(* A command that was not answered before is, takes another step, or ends. *)
LEMMA CommandMoves ==
  ASSUME NEW s \in Seq(AgentCalls), NEW i \in DOMAIN s, s[i].op # "getAgents",
         NEW t, NEW c \in AgentCalls, c.op = s[i].op,
         t = Without(s, i) \/ t = Changed(s, i, c),
         s[i].stage # "served" \/ s[i].by = "nobody",
         NEW shown, NEW status, FetchesAreAwaited(s),
         Announced(s) \/ ShowsTheTable(shown, s, status)
  PROVE  /\ FetchesAreAwaited(t)
         /\ Announced(t) \/ ShowsTheTable(shown, t, status)
<1>1. /\ InFlight(t) \subseteq InFlight(s) \cup {c}
      /\ \A k \in DOMAIN s \ {i} : s[k] \in InFlight(t)
  BY HeardCalls, ChangedCalls
<1>2. FetchesAreAwaited(t) BY <1>1 DEF FetchesAreAwaited
<1>3. Announced(s) => Announced(t) BY <1>1 DEF Announced, InFlight
<1>4. ASSUME ShowsTheTable(shown, s, status) PROVE ShowsTheTable(shown, t, status)
  <2>1. ASSUME NEW k, IsLast(t, "getAgents", k)
        PROVE  \E m : IsLast(s, "getAgents", m) /\ t[k] = s[m]
    <3>1. CASE t = Without(s, i)
      BY <2>1, <3>1, LastHeard
    <3>2. CASE t = Changed(s, i, c)
      <4>1. IsLast(s, "getAgents", k) /\ t[k] = (IF k = i THEN c ELSE s[k])
        BY <2>1, <3>2, LastChanged
      <4>2. k # i BY <4>1 DEF IsLast
      <4>3. QED BY <4>1, <4>2
    <3>3. QED BY <3>1, <3>2
  <2>2. (\A d \in InFlight(t) : d.op # "getAgents") => \A d \in InFlight(s) : d.op # "getAgents"
    BY <1>1 DEF InFlight
  <2>3. QED BY <1>4, <2>1, <2>2 DEF ShowsTheTable
<1>5. QED BY <1>2, <1>3, <1>4

LEMMA CommandServed ==
  ASSUME RosterInv, RosterFresh, NEW i \in DOMAIN calls, NEW a \in Replies(AgentValues),
         calls[i].op \in AgentCommands, calls[i].stage # "served", calls' = Served(i, a), page' = page,
         \/ (row' = row /\ overtaken' = overtaken)
         \/ overtaken' = (overtaken \/ calls[i].by = "nobody")
  PROVE  RosterFresh'
<1>1. calls[i] \in AgentCalls /\ calls[i].op # "getAgents"
  BY AgentCallTypes DEF RosterInv, AgentCommands
<1> DEFINE c == Answered(calls[i], a)
<1>2. c \in AgentCalls /\ c.op = calls[i].op /\ c.by = calls[i].by /\ c.stage = "served"
  <2>1. c \in AgentCalls
    BY <1>1 DEF Answered, AgentCalls, CallSet, Stages
  <2>2. QED BY <1>1, <2>1 DEF Answered, AgentCalls, CallSet
<1>3. /\ calls[i].by = "nobody" => calls' = Without(calls, i)
      /\ calls[i].by # "nobody" => calls' = Changed(calls, i, c)
  BY DEF Served, Answered, Changed
<1> HIDE DEF c
<1>4. /\ FetchesAreAwaited(calls')
      /\ Announced(calls) \/ ShowsTheTable(page.agents, calls, row) =>
           Announced(calls') \/ ShowsTheTable(page.agents, calls', row)
  <2>1. FetchesAreAwaited(calls) /\ calls \in Seq(AgentCalls) BY DEF RosterInv, RosterFresh
  <2>2. InFlight(calls') \subseteq InFlight(calls) \cup {c}
    BY <1>2, <1>3, <2>1, HeardCalls, ChangedCalls
  <2>3. FetchesAreAwaited(calls') BY <1>1, <1>2, <2>1, <2>2 DEF FetchesAreAwaited
  <2>4. QED BY <1>1, <1>2, <1>3, <2>1, <2>3, CommandMoves
<1>5. calls[i].by # "nobody" => Announced(calls')
  <2>1. calls[i].by # "nobody" => c \in InFlight(calls')
    BY <1>2, <1>3, ChangedCalls DEF RosterInv
  <2>2. QED BY <1>2, <2>1 DEF Announced
<1>6. overtaken' \in BOOLEAN BY DEF RosterFresh
<1>7. QED BY <1>4, <1>5, <1>6 DEF RosterFresh

LEMMA FreshServeSteps ==
  ASSUME RosterInv, RosterFresh, NEW i \in DOMAIN calls, ServeAgent(i)
  PROVE  RosterFresh'
<1>1. CASE ServeAgents(i)
  <2> DEFINE c == Answered(calls[i], Ok(row))
  <2>1. /\ calls[i].op = "getAgents" /\ calls[i].by # "nobody" /\ calls' = Served(i, Ok(row))
        /\ calls[i] \in AgentCalls /\ page' = page /\ row' = row /\ overtaken' = overtaken
        /\ calls[i].stage = "sent"
    BY <1>1, AgentCallTypes DEF ServeAgents, agentRows, RosterInv, RosterFresh, FetchesAreAwaited
  <2>2. Ok(row) \in Replies(AgentValues) /\ Ok(row).ok /\ Ok(row).value = row
    <3>1. row \in AgentValues BY DEF RosterInv, AgentTypes, AgentValues
    <3>2. QED BY <3>1, ReplyTypes DEF Ok
  <2>3. c \in AgentCalls /\ c.op = "getAgents" /\ c.by # "nobody" /\ c.answer = Ok(row)
    <3>1. c \in AgentCalls
      BY <2>1, <2>2 DEF Answered, AgentCalls, CallSet, Stages
    <3>2. QED BY <2>1, <3>1 DEF Answered, AgentCalls, CallSet
  <2>4. calls' = Changed(calls, i, c)
    BY <2>1 DEF Served, Answered, Changed
  <2> HIDE DEF c
  <2>5. /\ InFlight(calls') \subseteq InFlight(calls) \cup {c} /\ c \in InFlight(calls')
        /\ \A k \in DOMAIN calls \ {i} : calls[k] \in InFlight(calls')
    BY <2>3, <2>4, ChangedCalls DEF RosterInv
  <2>6. FetchesAreAwaited(calls')
    BY <2>3, <2>5 DEF RosterFresh, FetchesAreAwaited
  <2>7. Announced(calls) => Announced(calls')
    BY <2>1, <2>5 DEF Announced, InFlight
  <2>8. ASSUME ShowsTheTable(page.agents, calls, row) PROVE ShowsTheTable(page.agents, calls', row)
    <3>1. \A k : IsLast(calls', "getAgents", k) =>
            IsLast(calls, "getAgents", k) /\ calls'[k] = (IF k = i THEN c ELSE calls[k])
      BY <2>1, <2>3, <2>4, LastChanged DEF RosterInv
    <3>2. QED BY <2>2, <2>3, <2>5, <2>8, <3>1 DEF ShowsTheTable
  <2>9. QED BY <2>1, <2>6, <2>7, <2>8 DEF RosterFresh
<1>2. CASE ContainAgent(i)
  <2>1. /\ calls[i] \in AgentCalls /\ calls[i].op = "quarantineAgent" /\ calls[i].stage = "sent"
        /\ page' = page /\ row' = row /\ overtaken' = overtaken
    BY <1>2, AgentCallTypes DEF RosterInv, ContainAgent
  <2>2. PICK stage \in Containing : calls' = [calls EXCEPT ![i].stage = stage]
    BY <1>2 DEF ContainAgent, Containing
  <2> DEFINE c == Staged(calls[i], stage)
  <2>3. c \in AgentCalls /\ c.op = calls[i].op
    BY <2>1, StagedAgentCall DEF Containing, Stages
  <2>4. calls' = Changed(calls, i, c)
    <3>1. calls \in [DOMAIN calls -> AgentCalls] BY DEF RosterInv
    <3>2. QED BY <2>2, <3>1 DEF Changed, Staged
  <2> HIDE DEF c
  <2>5. calls \in Seq(AgentCalls) /\ InFlight(calls') \subseteq InFlight(calls) \cup {c}
    BY <2>3, <2>4, ChangedCalls DEF RosterInv
  <2>6. FetchesAreAwaited(calls')
    BY <2>1, <2>3, <2>5 DEF RosterFresh, FetchesAreAwaited
  <2>7. QED BY <2>1, <2>3, <2>4, <2>5, <2>6, CommandMoves DEF RosterFresh
<1>3. CASE CommitQuarantine(i)
  <2>1. calls[i].op \in AgentCommands /\ calls[i].stage # "served" /\ page' = page
    BY <1>3, AgentCallTypes DEF RosterInv, CommitQuarantine, CallHolds, Containing, AgentCommands
  <2>2. Ok(Report(calls[i].arg, calls[i].stage = "contained")) \in Replies(AgentValues)
    <3>1. calls[i].arg \in Agents BY <2>1, AgentCallTypes DEF RosterInv, CallHolds
    <3>2. Report(calls[i].arg, calls[i].stage = "contained") \in AgentValues
      <4>1. (calls[i].stage = "contained") \in BOOLEAN OBVIOUS
      <4>2. QED BY <3>1, <4>1, ReportType DEF AgentValues
    <3>3. QED BY <3>2, ReplyTypes
  <2>3. ServerError \in Replies(AgentValues) BY ReplyTypes
  <2>4. QED BY <1>3, <2>1, <2>2, <2>3, CommandServed DEF CommitQuarantine
<1>4. CASE RestoreAgent(i)
  <2>1. calls[i].op \in AgentCommands /\ calls[i].stage # "served" /\ page' = page
    BY <1>4 DEF RestoreAgent, AgentCommands
  <2>2. Ok("ACTIVE") \in Replies(AgentValues) /\ ServerError \in Replies(AgentValues)
    BY ReplyTypes DEF AgentValues
  <2>3. QED BY <1>4, <2>1, <2>2, CommandServed DEF RestoreAgent
<1>5. QED BY <1>1, <1>2, <1>3, <1>4 DEF ServeAgent

(* A refresh, a command of the page, and those of other operators.         *)
LEMMA FreshSendSteps ==
  ASSUME RosterInv, RosterFresh, RefreshAgents \/ ExecuteAgentAction \/ ForeignAgentCommand
  PROVE  RosterFresh'
<1>1. calls \in Seq(AgentCalls) /\ FetchesAreAwaited(calls) /\ overtaken \in BOOLEAN
  BY DEF RosterInv, RosterFresh
<1>2. CASE RefreshAgents
  <2>1. calls' = Sent(calls, FetchAgents("page")) /\ overtaken' \in BOOLEAN
    BY <1>2 DEF RefreshAgents, Sent
  <2>2. QED BY <1>1, <2>1, FetchSent DEF RosterFresh, Callers
<1>3. ASSUME NEW op \in AgentCommands, NEW a \in Agents, NEW by \in Callers,
             calls' = Append(calls, Request(op, a, by)),
             page'.agents = page.agents, row' = row, overtaken' = overtaken
      PROVE  RosterFresh'
  <2> DEFINE c == Request(op, a, by)
  <2>1. c \in AgentCalls BY AgentRequest DEF AgentOps, AgentIds
  <2>2. c.op # "getAgents" BY DEF Request, AgentCommands
  <2> HIDE DEF c
  <2>3. calls' = Sent(calls, c) BY <1>3 DEF c, Sent
  <2>4. InFlight(calls') = InFlight(calls) \cup {c} BY <1>1, <2>1, <2>3, SentCalls DEF Sent
  <2>5. FetchesAreAwaited(calls') BY <1>1, <2>2, <2>4 DEF FetchesAreAwaited
  <2>6. QED BY <1>1, <1>3, <2>1, <2>2, <2>3, <2>5, CommandSent DEF RosterFresh
<1>4. CASE ExecuteAgentAction
  <2>1. PICK target \in [agent : Agents, action : {"quarantine", "restore"}] :
          calls' = Append(calls,
             Request(IF target.action = "quarantine" THEN "quarantineAgent" ELSE "restoreAgent",
                     target.agent, "handler"))
    <3>1. page.confirmTarget \in [agent : Agents, action : {"quarantine", "restore"}]
      BY <1>4 DEF ExecuteAgentAction, RosterInv, AgentPages
    <3>2. QED BY <1>4, <3>1 DEF ExecuteAgentAction
  <2>2. PICK op \in AgentCommands, b \in Agents : calls' = Append(calls, Request(op, b, "handler"))
    BY <2>1 DEF AgentCommands
  <2>3. page'.agents = page.agents /\ row' = row /\ overtaken' = overtaken
    BY <1>4 DEF ExecuteAgentAction, RosterInv, AgentPages, agentRows
  <2>4. QED BY <1>3, <2>2, <2>3 DEF Callers
<1>5. CASE ForeignAgentCommand
  BY <1>3, <1>5 DEF ForeignAgentCommand, ForeignCall, Callers, agentRows
<1>6. QED BY <1>2, <1>4, <1>5

(* The roster is shown. When nothing was overtaken, the answer belongs to  *)
(* the oldest fetch, and if that was the only one, it shows the table.     *)
LEMMA FreshRosterStep ==
  ASSUME RosterInv, RosterFresh, NEW i \in DOMAIN calls, NEW a \in Replies(AgentValues), NEW rest,
         Gone(i, rest), RosterAnswered(i, a, rest),
         a.ok => a = calls[i].answer /\ calls[i].stage = "served"
  PROVE  RosterFresh'
<1>1. /\ calls[i].op = "getAgents" /\ calls[i].by # "nobody" /\ row' = row /\ calls' = rest
      /\ overtaken' = (overtaken \/ ~a.ok \/ Overtakes(i)) /\ overtaken' \in BOOLEAN
  BY ReplyTypes DEF RosterAnswered, Waiting, agentRows, RosterFresh, Overtakes
<1>2. rest = Without(calls, i) /\ calls \in Seq(AgentCalls)
  BY <1>1 DEF Gone, GivenUp, Heard, Commands, RosterInv
<1>3. /\ InFlight(calls') \subseteq InFlight(calls)
      /\ \A k \in DOMAIN calls \ {i} : calls[k] \in InFlight(calls')
  BY <1>1, <1>2, HeardCalls
<1>4. FetchesAreAwaited(calls') BY <1>3 DEF RosterFresh, FetchesAreAwaited
<1>5. ASSUME ~overtaken' PROVE Announced(calls') \/ ShowsTheTable(page'.agents, calls', row)
  <2>1. ~overtaken /\ a.ok /\ ~Overtakes(i) BY <1>1, <1>5
  <2>2. page'.agents = a.value
    BY <2>1 DEF RosterAnswered, RosterInv, AgentPages
  <2>3. Announced(calls) => Announced(calls')
    BY <1>1, <1>3 DEF Announced, InFlight, AgentCommands
  <2>4. ASSUME ShowsTheTable(page.agents, calls, row)
        PROVE  ShowsTheTable(page'.agents, calls', row)
    <3>1. ASSUME NEW k, IsLast(calls', "getAgents", k)
          PROVE  IsLast(calls, "getAgents", Before(i, k)) /\ calls'[k] = calls[Before(i, k)]
      <4>1. /\ Before(i, k) \in DOMAIN calls /\ calls[Before(i, k)].op = "getAgents"
            /\ calls'[k] = calls[Before(i, k)]
            /\ IsLast(calls, "getAgents", Before(i, k)) \/ Before(i, k) < i
        BY <1>1, <1>2, <3>1, LastHeard
      <4>2. ~(Before(i, k) < i) BY <2>1, <4>1 DEF Overtakes, CallsOf
      <4>3. QED BY <4>1, <4>2
    <3>2. ASSUME \A c \in InFlight(calls') : c.op # "getAgents" PROVE a.value = row
      <4>1. IsLast(calls, "getAgents", i) BY <1>1, <1>2, <3>2, LastOne
      <4>2. QED BY <2>1, <2>4, <4>1 DEF ShowsTheTable
    <3>3. QED BY <2>2, <2>4, <3>1, <3>2 DEF ShowsTheTable
  <2>5. QED BY <2>1, <2>3, <2>4 DEF RosterFresh
<1>6. QED BY <1>1, <1>4, <1>5 DEF RosterFresh

LEMMA FetchIsNotOrphaned ==
  ASSUME RosterInv, RosterFresh, NEW i \in DOMAIN calls, NEW rest, Gone(i, rest)
  PROVE  FetchesAreAwaited(rest)
<1>1. calls \in Seq(AgentCalls) /\ calls[i] \in AgentCalls
  BY AgentCallTypes DEF RosterInv
<1>2. CASE rest = GivenUp(i) /\ calls[i].op \in Commands /\ calls[i].stage # "served"
  <2>1. InFlight(rest) \subseteq InFlight(calls) \cup {Orphaned(calls[i])}
    BY <1>1, <1>2, GivenUpCalls DEF AgentCalls
  <2>2. Orphaned(calls[i]).op # "getAgents"
    BY <1>1, <1>2, OrphanHolds DEF Commands
  <2>3. QED BY <2>1, <2>2 DEF RosterFresh, FetchesAreAwaited
<1>3. CASE rest = Without(calls, i)
  BY <1>1, <1>3, HeardCalls DEF RosterFresh, FetchesAreAwaited
<1>4. QED BY <1>2, <1>3 DEF Gone, GivenUp, Heard

LEMMA FreshAnswerStep ==
  ASSUME RosterInv, RosterFresh, NEW i \in DOMAIN calls, HearAgents(i) \/ GiveUpAgents(i)
  PROVE  RosterFresh'
<1>1. /\ calls[i].answer \in Replies(AgentValues) /\ NoResponse \in Replies(AgentValues)
      /\ ~NoResponse.ok
  BY AgentCallTypes, ReplyTypes DEF RosterInv
<1>2. ASSUME NEW a, NEW rest, Gone(i, rest), AgentCommandAnswered(i, a, rest) PROVE RosterFresh'
  <2>1. rest \in Seq(AgentCalls) BY <1>2, AgentGone
  <2>2. FetchesAreAwaited(rest) BY <1>2, FetchIsNotOrphaned
  <2>3. calls' = Sent(rest, FetchAgents("handler")) /\ overtaken' \in BOOLEAN
    BY <1>2 DEF AgentCommandAnswered, Sent, RosterFresh
  <2>4. QED BY <2>1, <2>2, <2>3, FetchSent DEF RosterFresh, Callers
<1>3. Gone(i, GivenUp(i)) /\ (calls[i].stage = "served" => Gone(i, Heard(i))) BY DEF Gone
<1>4. CASE HearAgents(i)
  BY <1>1, <1>2, <1>3, <1>4, FreshRosterStep DEF HearAgents
<1>5. CASE GiveUpAgents(i)
  BY <1>1, <1>2, <1>3, <1>5, FreshRosterStep DEF GiveUpAgents
<1>6. QED BY <1>4, <1>5

LEMMA FreshLoseStep ==
  ASSUME RosterInv, RosterFresh, NEW i \in DOMAIN calls, LoseRequest(i),
         UNCHANGED <<agentRows, overtaken>>
  PROVE  RosterFresh'
<1>1. /\ calls[i] \in AgentCalls /\ calls[i].by = "nobody" /\ calls[i].op # "getAgents"
      /\ calls' = Without(calls, i) /\ page' = page /\ row' = row /\ overtaken' = overtaken
  BY AgentCallTypes DEF LoseRequest, agentRows, RosterInv, RosterFresh, FetchesAreAwaited
<1>2. calls \in Seq(AgentCalls) /\ InFlight(calls') \subseteq InFlight(calls)
  BY <1>1, HeardCalls DEF RosterInv
<1>3. FetchesAreAwaited(calls') BY <1>2 DEF RosterFresh, FetchesAreAwaited
<1>4. QED BY <1>1, <1>2, <1>3, CommandMoves DEF RosterFresh

LEMMA FreshReturnStep ==
  ASSUME RosterInv, RosterFresh, ReturnToAgents
  PROVE  RosterFresh'
<1>1. PICK rest \in Abandoned :
        calls' = Append(rest, FetchAgents("page")) /\ overtaken' = FALSE
  BY DEF ReturnToAgents, Remount
<1>2. /\ rest \in Seq(AgentCalls)
      /\ \A d \in InFlight(rest) :
           \E e \in InFlight(calls) : d = Orphaned(e) /\ e.op \in Commands
  BY LeftCalls DEF RosterInv, AgentCalls
<1>3. \A d \in InFlight(rest) : d.op # "getAgents"
  <2>1. \A e \in InFlight(calls) : Orphaned(e).op = e.op
    BY OrphanHolds DEF RosterInv, InFlight
  <2>2. QED BY <1>2, <2>1 DEF Commands
<1>4. FetchesAreAwaited(rest) BY <1>3 DEF FetchesAreAwaited
<1>5. calls' = Sent(rest, FetchAgents("page")) BY <1>1 DEF Sent
<1>6. QED BY <1>1, <1>2, <1>4, <1>5, FetchSent DEF RosterFresh, Callers

LEMMA FreshMountInv ==
  ASSUME calls = <<FetchAgents("page")>>, overtaken = FALSE
  PROVE  RosterFresh
<1>1. <<>> \in Seq(AgentCalls) /\ FetchesAreAwaited(<<>>) BY DEF FetchesAreAwaited, InFlight
<1>2. calls = Sent(<<>>, FetchAgents("page")) BY DEF Sent
<1>3. QED BY <1>1, <1>2, FetchSent DEF RosterFresh, Callers

LEMMA FreshNextInv ==
  ASSUME RosterInv, RosterFresh, AgentsNext
  PROVE  RosterFresh'
<1>1. CASE OpenAgentDialog \/ CancelAgentDialog \/ CloseReport
  <2>1. page'.agents = page.agents
    BY <1>1 DEF OpenAgentDialog, CancelAgentDialog, CloseReport, RosterInv, AgentPages
  <2>2. calls' = calls /\ row' = row /\ overtaken' = overtaken
    BY <1>1 DEF OpenAgentDialog, CancelAgentDialog, CloseReport, agentRows
  <2>3. QED BY <2>1, <2>2 DEF RosterFresh
<1>2. CASE RefreshAgents \/ ExecuteAgentAction \/ ForeignAgentCommand
  BY <1>2, FreshSendSteps
<1>3. ASSUME NEW i \in DOMAIN calls, HearAgents(i) \/ GiveUpAgents(i) PROVE RosterFresh'
  BY <1>3, FreshAnswerStep
<1>4. CASE ReturnToAgents BY <1>4, FreshReturnStep
<1>5. ASSUME NEW a \in Agents, PatchAgent(a) PROVE RosterFresh'
  BY <1>5 DEF PatchAgent, RosterFresh
<1>6. ASSUME NEW i \in DOMAIN calls, ServeAgent(i) PROVE RosterFresh'
  BY <1>6, FreshServeSteps
<1>7. ASSUME NEW i \in DOMAIN calls, LoseRequest(i), UNCHANGED <<agentRows, overtaken>>
      PROVE  RosterFresh'
  BY <1>7, FreshLoseStep
<1>8. QED BY <1>1, <1>2, <1>3, <1>4, <1>5, <1>6, <1>7 DEF AgentsNext, AgentsPageNext

LEMMA RosterFreshImplies ==
  ASSUME RosterFresh
  PROVE  RosterIsExplained
BY DEF RosterFresh, RosterIsExplained, Announced, ShowsTheTable, InFlight

-----------------------------------------------------------------------------
(* The store of the policies. An update inserts the number it has read a   *)
(* while ago, so the invariant bounds that number by the versions that are *)
(* there when the row is inserted.                                         *)

PolicyOps == {"getPolicies", "updatePolicy"}
PolicyValues == [Policies -> Nat] \cup Nat
PolicyArgs == Policies \cup {NoPolicy}
PolicyCalls == CallSet(PolicyOps, PolicyArgs, Replies(PolicyValues))

UpdatesNamePolicies ==
  \A c \in InFlight(calls) : c.op = "updatePolicy" => c.arg \in Policies

\* A number that was read is at most one past the versions that are there.
NumbersAreBounded ==
  \A c \in InFlight(calls) : c.stage = "numbered" =>
    c.arg \in Policies /\ c.answer.value \in 1..(Len(versions[c.arg]) + 1)

StoreInv ==
  /\ calls \in Seq(PolicyCalls)
  /\ versions \in [Policies -> Seq(Nat)]
  /\ VersionsAreConsecutive
  /\ UpdatesNamePolicies /\ NumbersAreBounded

-----------------------------------------------------------------------------
(* What the versions of a policy are while they are consecutive.           *)
LEMMA NumbersAreAnInterval ==
  ASSUME versions \in [Policies -> Seq(Nat)], VersionsAreConsecutive, NEW p \in Policies
  PROVE  /\ Len(versions[p]) \in Nat
         /\ NumbersOf(p) = 1..Len(versions[p])
         /\ Latest(p) = Len(versions[p])
<1>1. /\ versions[p] \in Seq(Nat) /\ Len(versions[p]) \in Nat
      /\ DOMAIN versions[p] = 1..Len(versions[p])
      /\ versions[p] = <<>> <=> Len(versions[p]) = 0
  OBVIOUS
<1>2. NumbersOf(p) = 1..Len(versions[p])
  BY <1>1 DEF NumbersOf, VersionsAreConsecutive
<1>3. CASE versions[p] = <<>> BY <1>1, <1>2, <1>3 DEF Latest
<1>4. CASE versions[p] # <<>>
  <2>1. Len(versions[p]) \in NumbersOf(p) /\ \A w \in NumbersOf(p) : w <= Len(versions[p])
    BY <1>1, <1>2, <1>4
  <2>2. \A v \in NumbersOf(p) : (\A w \in NumbersOf(p) : w <= v) => v = Len(versions[p])
    BY <1>1, <1>2, <2>1
  <2>3. QED BY <1>1, <1>2, <1>4, <2>1, <2>2 DEF Latest
<1>5. QED BY <1>1, <1>2, <1>3, <1>4

LEMMA PolicyCallTypes ==
  ASSUME calls \in Seq(PolicyCalls), NEW i \in DOMAIN calls
  PROVE  /\ calls[i] \in PolicyCalls /\ calls[i] \in InFlight(calls)
         /\ calls[i].op \in PolicyOps /\ calls[i].answer \in Replies(PolicyValues)
<1>1. calls[i] \in PolicyCalls OBVIOUS
<1>2. QED BY <1>1 DEF PolicyCalls, CallSet, InFlight

(* A step that leaves the versions alone keeps the invariant, if every     *)
(* call it leaves was there before or carries no number.                   *)
HarmlessCall(c) ==
  \/ c \in InFlight(calls)
  \/ \E d \in InFlight(calls) : c = Orphaned(d)
  \/ c.stage # "numbered" /\ (c.op = "updatePolicy" => c.arg \in Policies)

LEMMA StoreKept ==
  ASSUME StoreInv, versions' = versions, calls' \in Seq(PolicyCalls),
         \A c \in InFlight(calls') : HarmlessCall(c)
  PROVE  StoreInv'
<1>1. \A d \in InFlight(calls) : d \in PolicyCalls
  BY DEF StoreInv, InFlight
<1>2. \A d \in InFlight(calls) :
        /\ Orphaned(d).op = d.op /\ Orphaned(d).arg = d.arg
        /\ Orphaned(d).stage = d.stage /\ Orphaned(d).answer = d.answer
  BY <1>1 DEF Orphaned, PolicyCalls, CallSet
<1>3. UpdatesNamePolicies'
  <2>1. SUFFICES ASSUME NEW c \in InFlight(calls'), c.op = "updatePolicy"
                 PROVE  c.arg \in Policies
    BY DEF UpdatesNamePolicies
  <2>2. HarmlessCall(c) OBVIOUS
  <2>3. QED BY <1>2, <2>1, <2>2 DEF StoreInv, UpdatesNamePolicies, HarmlessCall
<1>4. NumbersAreBounded'
  BY <1>2 DEF StoreInv, NumbersAreBounded, HarmlessCall
<1>5. QED BY <1>3, <1>4 DEF StoreInv, VersionsAreConsecutive

LEMMA PolicyRequest ==
  ASSUME NEW op \in PolicyOps, NEW arg \in PolicyArgs, NEW by \in Callers,
         op = "updatePolicy" => arg \in Policies
  PROVE  /\ Request(op, arg, by) \in PolicyCalls
         /\ HarmlessCall(Request(op, arg, by))
<1>1. /\ Request(op, arg, by) \in PolicyCalls
      /\ Request(op, arg, by).op = op /\ Request(op, arg, by).arg = arg
      /\ Request(op, arg, by).stage = "sent"
  BY RequestType DEF PolicyCalls
<1>2. QED BY <1>1 DEF HarmlessCall

-----------------------------------------------------------------------------
(* One lemma for each kind of step.                                        *)

LEMMA SendPolicyCall ==
  ASSUME StoreInv, NEW c \in PolicyCalls, HarmlessCall(c),
         calls' = Append(calls, c), versions' = versions
  PROVE  StoreInv'
<1>1. calls' \in Seq(PolicyCalls) /\ InFlight(calls') = InFlight(calls) \cup {c}
  BY SentCalls DEF StoreInv
<1>2. QED BY <1>1, StoreKept DEF HarmlessCall

LEMMA CreateStep ==
  ASSUME StoreInv, NEW p \in Policies, CreatePolicy(p)
  PROVE  StoreInv'
<1>1. versions[p] = <<>> /\ calls' = calls /\ versions' = [versions EXCEPT ![p] = <<1>>]
  BY DEF CreatePolicy
<1>2. /\ <<1>> \in Seq(Nat) /\ Len(<<1>>) = 1 /\ DOMAIN <<1>> = {1} /\ <<1>>[1] = 1
      /\ Len(versions[p]) = 0
  BY <1>1
<1>3. versions' \in [Policies -> Seq(Nat)]
  BY <1>1, <1>2 DEF StoreInv
<1>4. \A q \in Policies : versions'[q] = IF q = p THEN <<1>> ELSE versions[q]
  BY <1>1 DEF StoreInv
<1>5. VersionsAreConsecutive'
  BY <1>2, <1>4 DEF StoreInv, VersionsAreConsecutive
<1>6. \A q \in Policies : /\ Len(versions[q]) \in Nat /\ Len(versions'[q]) \in Nat
                          /\ Len(versions[q]) <= Len(versions'[q])
  BY <1>2, <1>3, <1>4 DEF StoreInv
<1>7. NumbersAreBounded'
  BY <1>1, <1>6 DEF StoreInv, NumbersAreBounded
<1>8. QED BY <1>1, <1>3, <1>5, <1>7 DEF StoreInv, UpdatesNamePolicies

Numbered(c, a) == [c EXCEPT !.stage = "numbered", !.answer = a]

LEMMA NumberedType ==
  ASSUME NEW c \in PolicyCalls, NEW a \in Replies(PolicyValues)
  PROVE  /\ Numbered(c, a) \in PolicyCalls /\ Numbered(c, a).op = c.op
         /\ Numbered(c, a).arg = c.arg /\ Numbered(c, a).stage = "numbered"
         /\ Numbered(c, a).answer = a
<1>1. Numbered(c, a) \in PolicyCalls
  BY DEF Numbered, PolicyCalls, CallSet, Stages
<1>2. QED BY <1>1 DEF Numbered, PolicyCalls, CallSet

(* The number read is one past the versions that are there.                *)
LEMMA ReadStep ==
  ASSUME StoreInv, NEW i \in DOMAIN calls, ReadVersions(i)
  PROVE  StoreInv'
<1> DEFINE p == calls[i].arg
<1>1. /\ calls[i] \in PolicyCalls /\ calls[i].op = "updatePolicy" /\ versions' = versions
      /\ calls[i] \in InFlight(calls) /\ p \in Policies
  BY PolicyCallTypes DEF StoreInv, ReadVersions, UpdatesNamePolicies
<1>2. Len(versions[p]) \in Nat /\ Latest(p) = Len(versions[p])
  BY <1>1, NumbersAreAnInterval DEF StoreInv
<1>3. PICK n \in Nat : n = Len(versions[p]) + 1 /\ n = Latest(p) + 1
  BY <1>2
<1>4. Ok(n) \in Replies(PolicyValues) /\ Ok(n).value = n
  BY ReplyTypes DEF Ok, PolicyValues
<1>5. PICK c \in PolicyCalls : c = Numbered(calls[i], Ok(n))
  BY <1>1, <1>4, NumberedType
<1>6. /\ c \in PolicyCalls /\ c.op = "updatePolicy" /\ c.arg = p
      /\ c.stage = "numbered" /\ c.answer.value = n
  BY <1>1, <1>4, <1>5, NumberedType
<1>7. calls' = Changed(calls, i, c)
  BY <1>3, <1>5 DEF ReadVersions, Changed, Numbered
<1>8. calls' \in Seq(PolicyCalls) /\ InFlight(calls') \subseteq InFlight(calls) \cup {c}
  BY <1>6, <1>7, ChangedCalls DEF StoreInv
<1>9. \A d \in InFlight(calls') : d \in InFlight(calls) \/ d = c
  BY <1>8
<1>10. UpdatesNamePolicies'
  BY <1>1, <1>6, <1>9 DEF StoreInv, UpdatesNamePolicies
<1>11. NumbersAreBounded'
  <2>1. c.answer.value \in 1..(Len(versions[p]) + 1)
    BY <1>2, <1>3, <1>6
  <2>2. QED BY <1>1, <1>6, <1>9, <2>1 DEF StoreInv, NumbersAreBounded
<1>12. QED BY <1>1, <1>8, <1>10, <1>11 DEF StoreInv, VersionsAreConsecutive

LEMMA AppendNumber ==
  ASSUME NEW t \in Seq(Nat), NEW n \in Nat
  PROVE  \E s \in Seq(Nat) :
           /\ s = Append(t, n) /\ Len(s) = Len(t) + 1
           /\ \A k \in 1..Len(t) : s[k] = t[k]
           /\ s[Len(t) + 1] = n /\ DOMAIN s = 1..(Len(t) + 1)
<1>1. /\ Append(t, n) \in Seq(Nat) /\ DOMAIN Append(t, n) = 1..(Len(t) + 1)
      /\ \A k \in 1..Len(t) : Append(t, n)[k] = t[k]
      /\ Append(t, n)[Len(t) + 1] = n
  BY AppendCall
<1>2. Len(Append(t, n)) = Len(t) + 1
  OBVIOUS
<1>3. WITNESS Append(t, n) \in Seq(Nat)
<1>4. QED BY <1>1, <1>2

(* Only the next number can be missing, so an insert extends the interval. *)
LEMMA InsertStep ==
  ASSUME StoreInv, NEW i \in DOMAIN calls, InsertVersion(i)
  PROVE  StoreInv'
<1> DEFINE p == calls[i].arg
           n == calls[i].answer.value
<1>1. /\ calls[i] \in PolicyCalls /\ calls[i] \in InFlight(calls)
      /\ calls[i].answer \in Replies(PolicyValues) /\ calls[i].stage = "numbered"
      /\ calls' = Served(i, calls[i].answer)
  BY PolicyCallTypes DEF StoreInv, InsertVersion
<1>2. p \in Policies /\ n \in 1..(Len(versions[p]) + 1)
  BY <1>1 DEF StoreInv, NumbersAreBounded
<1>3. /\ calls' \in Seq(PolicyCalls)
      /\ InFlight(calls') \subseteq InFlight(calls) \cup {Answered(calls[i], calls[i].answer)}
  BY <1>1, ServedCalls DEF StoreInv, PolicyCalls
<1>4. PICK c : c = Answered(calls[i], calls[i].answer)
  OBVIOUS
<1>5. c.stage = "served" /\ c.op = calls[i].op /\ c.arg = p
  BY <1>1, <1>4 DEF Answered, PolicyCalls, CallSet
<1>6. \A d \in InFlight(calls') : HarmlessCall(d)
  BY <1>2, <1>3, <1>4, <1>5 DEF HarmlessCall
<1>7. CASE versions' = versions
  BY <1>3, <1>6, <1>7, StoreKept
<1>8. CASE n \notin NumbersOf(p) /\ versions' = [versions EXCEPT ![p] = Append(@, n)]
  <2>1. Len(versions[p]) \in Nat /\ NumbersOf(p) = 1..Len(versions[p])
    BY <1>2, NumbersAreAnInterval DEF StoreInv
  <2>2. n = Len(versions[p]) + 1
    BY <1>2, <1>8, <2>1
  <2>3. PICK s \in Seq(Nat) :
          /\ s = Append(versions[p], n) /\ Len(s) = Len(versions[p]) + 1
          /\ \A k \in 1..Len(versions[p]) : s[k] = versions[p][k]
          /\ s[Len(versions[p]) + 1] = n /\ DOMAIN s = 1..(Len(versions[p]) + 1)
    <3>1. versions[p] \in Seq(Nat) /\ n \in Nat BY <1>2, <2>1, <2>2 DEF StoreInv
    <3>2. QED BY <3>1, AppendNumber
  <2>4. versions' = [versions EXCEPT ![p] = s]
    BY <1>8, <2>3
  <2>5. versions' \in [Policies -> Seq(Nat)]
    BY <1>2, <2>4 DEF StoreInv
  <2>6. \A q \in Policies : versions'[q] = IF q = p THEN s ELSE versions[q]
    BY <2>4 DEF StoreInv
  <2>7. VersionsAreConsecutive'
    <3>1. \A k \in DOMAIN s : s[k] = k
      <4>1. ASSUME NEW k \in 1..Len(versions[p]) PROVE s[k] = k
        <5>1. versions[p][k] = k
          BY <1>2, <2>1 DEF StoreInv, VersionsAreConsecutive
        <5>2. QED BY <2>3, <5>1
      <4>2. QED BY <2>1, <2>2, <2>3, <4>1
    <3>2. QED BY <2>6, <3>1 DEF StoreInv, VersionsAreConsecutive
  <2>8. \A q \in Policies : /\ Len(versions[q]) \in Nat /\ Len(versions'[q]) \in Nat
                            /\ Len(versions[q]) <= Len(versions'[q])
    <3>1. ASSUME NEW q \in Policies
          PROVE  Len(versions[q]) \in Nat /\ Len(versions'[q]) \in Nat
                 /\ Len(versions[q]) <= Len(versions'[q])
      <4>1. Len(versions[q]) \in Nat BY DEF StoreInv
      <4>2. Len(s) \in Nat /\ Len(versions[p]) <= Len(s) BY <2>1, <2>3
      <4>3. QED BY <2>6, <4>1, <4>2
    <3>2. QED BY <3>1
  <2>9. \A d \in InFlight(calls') : d \in InFlight(calls) \/ d = c
    BY <1>3, <1>4
  <2>10. UpdatesNamePolicies'
    BY <1>2, <1>5, <2>9 DEF StoreInv, UpdatesNamePolicies
  <2>11. NumbersAreBounded'
    BY <1>5, <2>8, <2>9 DEF StoreInv, NumbersAreBounded
  <2>12. QED BY <1>3, <2>5, <2>7, <2>10, <2>11 DEF StoreInv
<1>9. QED BY <1>7, <1>8 DEF InsertVersion

LEMMA ServeListStep ==
  ASSUME StoreInv, NEW i \in DOMAIN calls, ServePolicies(i)
  PROVE  StoreInv'
<1>1. /\ calls[i] \in PolicyCalls /\ calls[i].op = "getPolicies" /\ versions' = versions
  BY PolicyCallTypes DEF StoreInv, ServePolicies
<1>2. [q \in Policies |-> Latest(q)] \in PolicyValues
  BY NumbersAreAnInterval DEF StoreInv, PolicyValues
<1>3. PICK a \in Replies(PolicyValues) : calls' = Served(i, a)
  BY <1>2, ReplyTypes DEF ServePolicies
<1>4. /\ calls' \in Seq(PolicyCalls)
      /\ InFlight(calls') \subseteq InFlight(calls) \cup {Answered(calls[i], a)}
  BY <1>3, ServedCalls DEF StoreInv, PolicyCalls
<1>5. Answered(calls[i], a).stage = "served" /\ Answered(calls[i], a).op = "getPolicies"
  BY <1>1 DEF Answered, PolicyCalls, CallSet
<1>6. QED BY <1>1, <1>4, <1>5, StoreKept DEF HarmlessCall

LEMMA ForgetPolicyCall ==
  ASSUME StoreInv, NEW i \in DOMAIN calls, versions' = versions,
         calls' = Heard(i) \/ calls' = GivenUp(i)
  PROVE  StoreInv'
<1>1. CASE calls' = Heard(i)
  <2>1. calls' \in Seq(PolicyCalls) /\ InFlight(calls') \subseteq InFlight(calls)
    BY <1>1, HeardCalls DEF StoreInv, Heard
  <2>2. QED BY <2>1, StoreKept DEF HarmlessCall
<1>2. CASE calls' = GivenUp(i)
  <2>1. /\ calls' \in Seq(PolicyCalls)
        /\ InFlight(calls') \subseteq InFlight(calls) \cup {Orphaned(calls[i])}
    BY <1>2, GivenUpCalls DEF StoreInv, PolicyCalls
  <2>2. calls[i] \in InFlight(calls)
    BY DEF InFlight
  <2>3. QED BY <2>1, <2>2, StoreKept DEF HarmlessCall
<1>3. QED BY <1>1, <1>2

LEMMA ReturnToListStep ==
  ASSUME StoreInv, ReturnToPolicies
  PROVE  StoreInv'
<1>1. PICK rest \in Abandoned : calls' = Append(rest, FetchPolicies) /\ versions' = versions
  BY DEF ReturnToPolicies, Remount
<1>2. /\ rest \in Seq(PolicyCalls)
      /\ \A c \in InFlight(rest) : \E d \in InFlight(calls) : c = Orphaned(d)
  BY LeftCalls DEF StoreInv, PolicyCalls
<1>3. FetchPolicies \in PolicyCalls /\ HarmlessCall(FetchPolicies)
  BY PolicyRequest DEF FetchPolicies, PolicyOps, PolicyArgs, Callers
<1>4. calls' \in Seq(PolicyCalls) /\ InFlight(calls') = InFlight(rest) \cup {FetchPolicies}
  BY <1>1, <1>2, <1>3, SentCalls
<1>5. QED BY <1>1, <1>2, <1>3, <1>4, StoreKept DEF HarmlessCall

-----------------------------------------------------------------------------
LEMMA PoliciesMountInv ==
  ASSUME calls = <<FetchPolicies>>, PoliciesServerInit \/ versions = [p \in Policies |-> <<>>]
  PROVE  StoreInv
<1>1. FetchPolicies \in PolicyCalls /\ FetchPolicies.op = "getPolicies" /\ FetchPolicies.stage = "sent"
  <2>1. NoPolicy \in PolicyArgs /\ "getPolicies" \in PolicyOps /\ "page" \in Callers
    BY DEF PolicyArgs, PolicyOps, Callers
  <2>2. QED BY <2>1, RequestType DEF FetchPolicies, PolicyCalls
<1>2. calls \in Seq(PolicyCalls) /\ InFlight(calls) = {FetchPolicies}
  BY <1>1 DEF InFlight
<1>3. \A p \in Policies : versions[p] \in {<<>>, <<1>>}
  BY DEF PoliciesServerInit
<1>4. versions \in [Policies -> Seq(Nat)]
  <2>1. <<>> \in Seq(Nat) /\ <<1>> \in Seq(Nat) OBVIOUS
  <2>2. \A p \in Policies : versions[p] \in Seq(Nat) BY <1>3, <2>1
  <2>3. versions = [p \in Policies |-> versions[p]]
    BY DEF PoliciesServerInit
  <2>4. QED BY <2>2, <2>3
<1>5. VersionsAreConsecutive
  BY <1>3 DEF VersionsAreConsecutive
<1>6. QED BY <1>1, <1>2, <1>4, <1>5 DEF StoreInv, UpdatesNamePolicies, NumbersAreBounded

LEMMA PoliciesNextInv ==
  ASSUME StoreInv, PoliciesNext
  PROVE  StoreInv'
<1>1. CASE RefreshPolicies
  <2>1. FetchPolicies \in PolicyCalls /\ HarmlessCall(FetchPolicies)
    BY PolicyRequest DEF FetchPolicies, PolicyOps, PolicyArgs, Callers
  <2>2. QED BY <1>1, <2>1, SendPolicyCall DEF RefreshPolicies
<1>2. CASE ViewPolicy \/ ClosePolicyViewer
  <2>1. calls' = calls /\ versions' = versions
    BY <1>2 DEF ViewPolicy, ClosePolicyViewer
  <2>2. QED BY <2>1, StoreKept DEF StoreInv, HarmlessCall
<1>3. CASE ReturnToPolicies BY <1>3, ReturnToListStep
<1>4. ASSUME NEW p \in Policies, CreatePolicy(p) \/ StartUpdate(p) PROVE StoreInv'
  <2>1. CASE CreatePolicy(p) BY <2>1, CreateStep
  <2>2. CASE StartUpdate(p)
    <3>1. Request("updatePolicy", p, "nobody") \in PolicyCalls
          /\ HarmlessCall(Request("updatePolicy", p, "nobody"))
      BY PolicyRequest DEF PolicyOps, PolicyArgs, Callers
    <3>2. QED BY <2>2, <3>1, SendPolicyCall DEF StartUpdate, ForeignCall
  <2>3. QED BY <1>4, <2>1, <2>2
<1>5. ASSUME NEW i \in DOMAIN calls,
             ServePolicies(i) \/ ReadVersions(i) \/ InsertVersion(i)
      PROVE  StoreInv'
  BY <1>5, ServeListStep, ReadStep, InsertStep
<1>6. ASSUME NEW i \in DOMAIN calls,
             \/ HearPolicies(i) \/ GiveUpPolicies(i)
             \/ LoseRequest(i) /\ UNCHANGED versions
      PROVE  StoreInv'
  <2>1. versions' = versions /\ (calls' = Heard(i) \/ calls' = GivenUp(i))
    BY <1>6 DEF HearPolicies, GiveUpPolicies, PoliciesAnswered, LoseRequest, Heard
  <2>2. QED BY <2>1, ForgetPolicyCall
<1>7. QED BY <1>1, <1>2, <1>3, <1>4, <1>5, <1>6 DEF PoliciesNext

-----------------------------------------------------------------------------
(* What the list shows. The invariant stands beside StoreInv.              *)

PolicyPages ==
  [policies : [Policies -> Nat], loading : BOOLEAN, isRefreshing : BOOLEAN,
   selectedPolicy : [policy : Policies, version : Nat \ {0}] \cup {NoSelection}]

\* An answer to the page gives each policy a version, or 0.
ListFits(c) == c.op = "getPolicies" /\ c.answer.ok => c.answer.value \in [Policies -> Nat]

ListInv == page \in PolicyPages /\ \A c \in InFlight(calls) : ListFits(c)

LEMMA ListKept ==
  ASSUME StoreInv, ListInv, page' \in PolicyPages,
         \A c \in InFlight(calls') :
           \/ c \in InFlight(calls) \/ \E d \in InFlight(calls) : c = Orphaned(d)
           \/ ListFits(c)
  PROVE  ListInv'
<1>1. \A d \in InFlight(calls) : d \in PolicyCalls
  BY DEF StoreInv, InFlight
<1>2. \A d \in InFlight(calls) : Orphaned(d).op = d.op /\ Orphaned(d).answer = d.answer
  BY <1>1 DEF Orphaned, PolicyCalls, CallSet
<1>3. QED BY <1>2 DEF ListInv, ListFits

LEMMA PolicyRequestFits ==
  ASSUME NEW op \in PolicyOps, NEW arg \in PolicyArgs, NEW by \in Callers
  PROVE  Request(op, arg, by) \in PolicyCalls /\ ListFits(Request(op, arg, by))
<1>1. /\ Request(op, arg, by) \in PolicyCalls
      /\ Request(op, arg, by).answer = NoResponse
  BY RequestType DEF PolicyCalls
<1>2. ~NoResponse.ok BY ReplyTypes
<1>3. QED BY <1>1, <1>2 DEF ListFits

LEMMA ListServerSteps ==
  ASSUME StoreInv, ListInv, NEW i \in DOMAIN calls,
         ServePolicies(i) \/ ReadVersions(i) \/ InsertVersion(i)
  PROVE  ListInv'
<1>1. /\ calls[i] \in PolicyCalls /\ calls[i] \in InFlight(calls)
      /\ calls[i].answer \in Replies(PolicyValues) /\ ListFits(calls[i])
  BY PolicyCallTypes DEF StoreInv, ListInv
<1>2. ASSUME NEW a \in Replies(PolicyValues), calls' = Served(i, a), page' = page,
             calls[i].op = "getPolicies" /\ a.ok => a.value \in [Policies -> Nat]
      PROVE  ListInv'
  <2>1. InFlight(calls') \subseteq InFlight(calls) \cup {Answered(calls[i], a)}
    BY <1>2, ServedCalls DEF StoreInv, PolicyCalls
  <2>2. Answered(calls[i], a).op = calls[i].op /\ Answered(calls[i], a).answer = a
    BY <1>1 DEF Answered, PolicyCalls, CallSet
  <2>3. ListFits(Answered(calls[i], a)) BY <1>2, <2>2 DEF ListFits
  <2>4. page' \in PolicyPages BY <1>2 DEF ListInv
  <2>5. \A c \in InFlight(calls') : c \in InFlight(calls) \/ ListFits(c) BY <2>1, <2>3
  <2>6. QED BY <2>4, <2>5, ListKept
<1>3. CASE ServePolicies(i)
  <2> DEFINE list == [q \in Policies |-> Latest(q)]
  <2>1. list \in [Policies -> Nat] BY NumbersAreAnInterval DEF StoreInv
  <2>2. calls' = Served(i, Ok(list)) /\ page' = page BY <1>3 DEF ServePolicies
  <2> HIDE DEF list
  <2>3. Ok(list) \in Replies(PolicyValues) /\ Ok(list).value = list
    BY <2>1, ReplyTypes DEF PolicyValues, Ok
  <2>4. QED BY <1>2, <2>1, <2>2, <2>3
<1>4. CASE ReadVersions(i)
  <2>1. calls[i].op = "updatePolicy" /\ page' = page /\ calls[i].arg \in Policies
    BY <1>1, <1>4 DEF ReadVersions, StoreInv, UpdatesNamePolicies
  <2>2. PICK n \in Nat : n = Latest(calls[i].arg) + 1
    <3>1. Latest(calls[i].arg) \in Nat BY <2>1, NumbersAreAnInterval DEF StoreInv
    <3>2. QED BY <3>1
  <2>3. Ok(n) \in Replies(PolicyValues) BY ReplyTypes DEF PolicyValues
  <2> DEFINE c == Numbered(calls[i], Ok(n))
  <2>4. c \in PolicyCalls /\ c.op = "updatePolicy" BY <1>1, <2>1, <2>3, NumberedType
  <2>5. calls' = Changed(calls, i, c) BY <1>4, <2>2 DEF ReadVersions, Changed, Numbered
  <2> HIDE DEF c
  <2>6. InFlight(calls') \subseteq InFlight(calls) \cup {c}
    BY <2>4, <2>5, ChangedCalls DEF StoreInv
  <2>7. \A d \in InFlight(calls') : d \in InFlight(calls) \/ ListFits(d)
    BY <2>4, <2>6 DEF ListFits
  <2>8. page' \in PolicyPages BY <2>1 DEF ListInv
  <2>9. QED BY <2>7, <2>8, ListKept
<1>5. CASE InsertVersion(i)
  BY <1>1, <1>2, <1>5 DEF InsertVersion, ListFits
<1>6. QED BY <1>3, <1>4, <1>5

LEMMA ListAnswerStep ==
  ASSUME StoreInv, ListInv, NEW i \in DOMAIN calls, HearPolicies(i) \/ GiveUpPolicies(i)
  PROVE  ListInv'
<1>1. PICK a \in {NoResponse, calls[i].answer} :
        /\ calls[i].op = "getPolicies"
        /\ page' = [page EXCEPT !.policies = IF a.ok THEN a.value ELSE @,
                                !.loading = FALSE, !.isRefreshing = FALSE]
        /\ calls' = Heard(i) \/ calls' = GivenUp(i)
  BY DEF HearPolicies, GiveUpPolicies, PoliciesAnswered
<1>2. a.ok => a.value \in [Policies -> Nat]
  <2>1. ~NoResponse.ok BY ReplyTypes
  <2>2. ListFits(calls[i]) BY PolicyCallTypes DEF StoreInv, ListInv
  <2>3. QED BY <1>1, <2>1, <2>2 DEF ListFits
<1>3. page' \in PolicyPages
  BY <1>1, <1>2 DEF ListInv, PolicyPages
<1>4. calls[i] \in InFlight(calls) BY DEF InFlight
<1>5. InFlight(calls') \subseteq InFlight(calls) \cup {Orphaned(calls[i])}
  BY <1>1, HeardCalls, GivenUpCalls DEF StoreInv, PolicyCalls, Heard
<1>6. QED BY <1>3, <1>4, <1>5, ListKept

LEMMA ListMountInv ==
  ASSUME page = PoliciesMounted, calls = <<FetchPolicies>>
  PROVE  ListInv
<1>1. page \in PolicyPages BY DEF PoliciesMounted, PolicyPages
<1>2. ListFits(FetchPolicies)
  BY PolicyRequestFits DEF FetchPolicies, PolicyOps, PolicyArgs, Callers
<1>3. InFlight(calls) = {FetchPolicies} BY DEF InFlight
<1>4. QED BY <1>1, <1>2, <1>3 DEF ListInv

LEMMA ListNextInv ==
  ASSUME StoreInv, ListInv, PoliciesNext
  PROVE  ListInv'
<1>1. FetchPolicies \in PolicyCalls /\ ListFits(FetchPolicies)
  BY PolicyRequestFits DEF FetchPolicies, PolicyOps, PolicyArgs, Callers
<1>2. CASE RefreshPolicies
  <2>1. page' \in PolicyPages /\ calls' = Append(calls, FetchPolicies)
    BY <1>2 DEF RefreshPolicies, ListInv, PolicyPages
  <2>2. InFlight(calls') = InFlight(calls) \cup {FetchPolicies}
    BY <1>1, <2>1, SentCalls DEF StoreInv
  <2>3. QED BY <1>1, <2>1, <2>2, ListKept
<1>3. CASE ViewPolicy \/ ClosePolicyViewer
  <2>1. calls' = calls BY <1>3 DEF ViewPolicy, ClosePolicyViewer
  <2>2. page' \in PolicyPages
    BY <1>3 DEF ViewPolicy, ClosePolicyViewer, ListInv, PolicyPages
  <2>3. QED BY <2>1, <2>2, ListKept
<1>4. CASE ReturnToPolicies
  <2>1. PICK rest \in Abandoned : calls' = Append(rest, FetchPolicies) /\ page' = PoliciesMounted
    BY <1>4 DEF ReturnToPolicies, Remount
  <2>2. /\ rest \in Seq(PolicyCalls)
        /\ \A c \in InFlight(rest) : \E d \in InFlight(calls) : c = Orphaned(d)
    BY LeftCalls DEF StoreInv, PolicyCalls
  <2>3. InFlight(calls') = InFlight(rest) \cup {FetchPolicies}
    BY <1>1, <2>1, <2>2, SentCalls
  <2>4. page' \in PolicyPages BY <2>1 DEF PoliciesMounted, PolicyPages
  <2>5. QED BY <1>1, <2>2, <2>3, <2>4, ListKept
<1>5. ASSUME NEW p \in Policies, CreatePolicy(p) PROVE ListInv'
  BY <1>5 DEF CreatePolicy, ListInv
<1>6. ASSUME NEW p \in Policies, StartUpdate(p) PROVE ListInv'
  <2> DEFINE c == Request("updatePolicy", p, "nobody")
  <2>1. c \in PolicyCalls /\ ListFits(c)
    BY PolicyRequestFits DEF PolicyOps, PolicyArgs, Callers
  <2>2. calls' = Append(calls, c) /\ page' = page BY <1>6 DEF StartUpdate, ForeignCall
  <2> HIDE DEF c
  <2>3. InFlight(calls') = InFlight(calls) \cup {c} BY <2>1, <2>2, SentCalls DEF StoreInv
  <2>4. page' \in PolicyPages BY <2>2 DEF ListInv
  <2>5. QED BY <2>1, <2>3, <2>4, ListKept
<1>7. ASSUME NEW i \in DOMAIN calls,
             ServePolicies(i) \/ ReadVersions(i) \/ InsertVersion(i)
      PROVE  ListInv'
  BY <1>7, ListServerSteps
<1>8. ASSUME NEW i \in DOMAIN calls, HearPolicies(i) \/ GiveUpPolicies(i) PROVE ListInv'
  BY <1>8, ListAnswerStep
<1>9. ASSUME NEW i \in DOMAIN calls, LoseRequest(i) PROVE ListInv'
  <2>1. InFlight(calls') \subseteq InFlight(calls) /\ page' = page
    BY <1>9, HeardCalls DEF LoseRequest, StoreInv, Heard
  <2>2. QED BY <2>1, ListKept DEF ListInv
<1>10. QED BY <1>2, <1>3, <1>4, <1>5, <1>6, <1>7, <1>8, <1>9 DEF PoliciesNext

LEMMA StoreTypes ==
  ASSUME StoreInv
  PROVE  versions \in [Policies -> Seq(Nat \ {0})]
<1>1. ASSUME NEW p \in Policies PROVE versions[p] \in Seq(Nat \ {0})
  <2>1. /\ versions[p] \in Seq(Nat) /\ Len(versions[p]) \in Nat
        /\ DOMAIN versions[p] = 1..Len(versions[p])
    BY DEF StoreInv
  <2>2. \A n \in 1..Len(versions[p]) : versions[p][n] \in Nat \ {0}
    BY <2>1 DEF StoreInv, VersionsAreConsecutive
  <2>3. QED BY <2>1, <2>2
<1>2. QED BY <1>1 DEF StoreInv
=============================================================================

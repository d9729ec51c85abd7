---------------------------- MODULE EmergencyPage ----------------------------
(***************************************************************************)
(* The page of the emergency controls (Emergency.tsx) and the fleet        *)
(* endpoints behind it: the status of the fleet is a key in Redis, which   *)
(* a command sets before it records its audit event.                       *)
(***************************************************************************)
EXTENDS ApiClient

VARIABLES
  fleetKey,    \* Redis: status of the fleet, "none" when there is no key
  redisUp,     \* Redis answers
  fleetLog,    \* status that the last committed fleet event of the log set
  \* History: a command overlapped another one, was not recorded, or the key
  \* was lost, since a command that ran by itself set the key.
  fleetExcuse

fleet == <<fleetKey, redisUp, fleetLog, fleetExcuse>>
emergencyVars == <<route, page, calls, fleet>>

EmergencyPath == "/emergency"

FleetStates == {"ACTIVE", "HALTED"}
FleetCommands == {"emergencyStopFleet", "resumeFleet"}
Target(op) == IF op = "emergencyStopFleet" THEN "HALTED" ELSE "ACTIVE"

EmergencyMounted ==
  [fleetState |-> "UNKNOWN", loading |-> TRUE, actionInProgress |-> FALSE,
   pendingAction |-> "none"]

FetchStatus(by) == Request("getFleetStatus", "none", by)

-----------------------------------------------------------------------------
(* Server                                                                  *)

FleetInit ==
  /\ redisUp = TRUE /\ fleetExcuse = FALSE
  /\ fleetLog \in FleetStates
  /\ fleetKey \in IF fleetLog = "HALTED" THEN {"HALTED"} ELSE {"ACTIVE", "none"}

\* get_fleet_status: no key means ACTIVE, no answer from Redis HALTED.
FleetStatus ==
  CASE ~redisUp -> "HALTED"
    [] redisUp /\ fleetKey = "none" -> "ACTIVE"
    [] OTHER -> fleetKey

ServeFleetStatus(i) ==
  /\ calls[i].op = "getFleetStatus" /\ calls[i].stage = "sent"
  /\ calls' = Served(i, Ok(FleetStatus))
  /\ UNCHANGED <<page, fleet>>

Unrecorded == {i \in DOMAIN calls : calls[i].op \in FleetCommands /\ calls[i].stage = "keySet"}

\* A stop or a resume sets the key, or fails when Redis does not answer.
SetFleetStatus(i) ==
  /\ calls[i].op \in FleetCommands /\ calls[i].stage = "sent"
  /\ \/ /\ redisUp
        /\ fleetKey' = Target(calls[i].op)
        /\ fleetExcuse' = (Unrecorded # {})
        /\ calls' = [calls EXCEPT ![i].stage = "keySet"]
     \/ /\ ~redisUp
        /\ calls' = Served(i, ServerError)
        /\ UNCHANGED <<fleetKey, fleetExcuse>>
  /\ UNCHANGED <<page, redisUp, fleetLog>>

\* Mutant: the event of a resume is never recorded.
RecordOnlyStops(i) ==
  /\ i \in Unrecorded
  /\ fleetLog' = IF calls[i].op = "emergencyStopFleet" THEN "HALTED" ELSE fleetLog
  /\ calls' = Served(i, Ok(Target(calls[i].op)))
  /\ UNCHANGED <<page, fleetKey, redisUp, fleetExcuse>>

\* Then its audit event is committed, or the handler fails and leaves the key.
RecordFleetEvent(i) ==
  /\ i \in Unrecorded
  /\ \/ /\ fleetLog' = Target(calls[i].op)
        /\ calls' = Served(i, Ok(Target(calls[i].op)))
        /\ UNCHANGED fleetExcuse
     \/ /\ fleetExcuse' = TRUE
        /\ calls' = Served(i, ServerError)
        /\ UNCHANGED fleetLog
  /\ UNCHANGED <<page, fleetKey, redisUp>>

RedisFailsOrRecovers ==
  /\ redisUp' = ~redisUp
  /\ UNCHANGED <<page, calls, fleetKey, fleetLog, fleetExcuse>>

\* Redis restarts without its keys.
RedisLosesKey ==
  /\ fleetKey # "none" /\ fleetKey' = "none"
  /\ fleetExcuse' = TRUE
  /\ UNCHANGED <<page, calls, redisUp, fleetLog>>

ForeignFleetCommand ==
  /\ Room
  /\ \E op \in FleetCommands : calls' = ForeignCall(op, "none")
  /\ UNCHANGED <<page, fleet>>

-----------------------------------------------------------------------------
(* Page                                                                    *)

\* Mutant: polling stops while the dialog is open.
PollUnlessOpen ==
  /\ Room /\ page.pendingAction = "none"
  /\ calls' = Append(calls, FetchStatus("page"))
  /\ UNCHANGED <<page, fleet>>

\* The effect of the mount and the interval of five seconds.
PollFleetStatus ==
  /\ Room
  /\ calls' = Append(calls, FetchStatus("page"))
  /\ UNCHANGED <<page, fleet>>

RefreshFleetStatus ==
  /\ ~page.loading /\ ~page.actionInProgress /\ Room
  /\ calls' = Append(calls, FetchStatus("page"))
  /\ UNCHANGED <<page, fleet>>

IsHalted == page.fleetState = "HALTED"

\* The banner's headline and its text; a fleet of unknown state is called active.
Banner ==
  [headline |-> IF page.loading THEN "SYNCING..." ELSE page.fleetState,
   text     |-> IF IsHalted THEN "HALTED" ELSE "ACTIVE"]

\* The one button of the page: a halted fleet can be resumed, any other halted.
OpenEmergencyDialog ==
  /\ ~page.actionInProgress /\ ~page.loading
  /\ page' = [page EXCEPT !.pendingAction = IF IsHalted THEN "RESUME" ELSE "HALT"]
  /\ UNCHANGED <<calls, fleet>>

CancelEmergencyDialog ==
  /\ page.pendingAction # "none" /\ DialogAnswers(page.actionInProgress)
  /\ page' = [page EXCEPT !.pendingAction = "none"]
  /\ UNCHANGED <<calls, fleet>>

\* Mutant: the page does not remember that a command is under way.
ExecuteUnmarked ==
  /\ page.pendingAction # "none" /\ DialogAnswers(page.actionInProgress) /\ Room
  /\ calls' = Append(calls, Request(IF page.pendingAction = "HALT" THEN "emergencyStopFleet"
                                    ELSE "resumeFleet", "none", "handler"))
  /\ UNCHANGED <<page, fleet>>

ExecuteEmergencyAction ==
  /\ page.pendingAction # "none" /\ DialogAnswers(page.actionInProgress) /\ Room
  /\ page' = [page EXCEPT !.actionInProgress = TRUE]
  /\ calls' = Append(calls, Request(IF page.pendingAction = "HALT" THEN "emergencyStopFleet"
                                    ELSE "resumeFleet", "none", "handler"))
  /\ UNCHANGED fleet

\* What fetchStatus does with its answer.
StatusShown(a) ==
  [page EXCEPT !.loading = FALSE,
               !.fleetState = IF a.ok THEN a.value ELSE @]

StatusAnswered(i, a, rest) ==
  /\ calls[i].op = "getFleetStatus" /\ calls[i].by \in Waiting
  /\ page' = [StatusShown(a) EXCEPT
                !.actionInProgress = @ /\ calls[i].by # "handler"]
  /\ calls' = rest
  /\ UNCHANGED fleet

\* The handler shows the answer of its command, closes the dialog, and awaits
\* one more status.
FleetCommandAnswered(i, a, rest) ==
  /\ calls[i].op \in FleetCommands /\ calls[i].by = "handler"
  /\ page' = [page EXCEPT
                !.fleetState = IF a.ok THEN a.value ELSE @,
                !.pendingAction = "none"]
  /\ calls' = Append(rest, FetchStatus("handler"))
  /\ UNCHANGED fleet

HearFleet(i) ==
  /\ calls[i].stage = "served"
  /\ \/ StatusAnswered(i, calls[i].answer, Heard(i))
     \/ FleetCommandAnswered(i, calls[i].answer, Heard(i))

GiveUpFleet(i) ==
  \/ StatusAnswered(i, NoResponse, GivenUp(i))
  \/ FleetCommandAnswered(i, NoResponse, GivenUp(i))

-----------------------------------------------------------------------------
ReturnToEmergency == Remount(EmergencyMounted, FetchStatus("page")) /\ UNCHANGED fleet

EmergencyMount ==
  /\ route = EmergencyPath
  /\ page = EmergencyMounted
  /\ calls = <<FetchStatus("page")>>

EmergencyInit == EmergencyMount /\ FleetInit

FleetServer ==
  \/ \E i \in DOMAIN calls : ServeFleetStatus(i) \/ SetFleetStatus(i) \/ RecordFleetEvent(i)
  \/ RedisFailsOrRecovers \/ RedisLosesKey

FleetPage ==
  \/ PollFleetStatus \/ RefreshFleetStatus
  \/ OpenEmergencyDialog \/ CancelEmergencyDialog \/ ExecuteEmergencyAction
  \/ \E i \in DOMAIN calls : HearFleet(i) \/ GiveUpFleet(i)

EmergencyNext ==
  /\ On(EmergencyPath)
  /\ \/ FleetServer \/ FleetPage \/ ForeignFleetCommand \/ ReturnToEmergency
     \/ \E i \in DOMAIN calls : LoseRequest(i) /\ UNCHANGED fleet

EmergencySpec == EmergencyInit /\ [][EmergencyNext]_emergencyVars

\* The interval fires, and the oldest request is served and heard: the rest
\* of the fairness follows, as every request becomes the oldest.
EmergencyFairness ==
  /\ WF_emergencyVars(On(EmergencyPath) /\ PollFleetStatus)
  /\ WF_emergencyVars(On(EmergencyPath) /\ \E i \in {1} \cap DOMAIN calls :
                        ServeFleetStatus(i) \/ SetFleetStatus(i) \/ RecordFleetEvent(i))
  /\ WF_emergencyVars(On(EmergencyPath) /\ \E i \in {1} \cap DOMAIN calls : HearFleet(i))

EmergencyFairSpec == EmergencySpec /\ EmergencyFairness

-----------------------------------------------------------------------------
(* Properties                                                              *)

Handled == {i \in DOMAIN calls : calls[i].by = "handler"}

EmergencyTypeOK ==
  /\ route = EmergencyPath =>
     page \in [fleetState : FleetStates \cup {"UNKNOWN"}, loading : BOOLEAN,
               actionInProgress : BOOLEAN, pendingAction : {"none", "HALT", "RESUME"}]
  /\ fleetKey \in FleetStates \cup {"none"} /\ fleetLog \in FleetStates
  /\ redisUp \in BOOLEAN /\ fleetExcuse \in BOOLEAN

\* The handler of the page runs once at a time: exactly while the page says
\* so, one call is awaited, whatever polls and other operators do.
OneEmergencyCommand ==
  route = EmergencyPath =>
    /\ \A i, j \in Handled : i = j
    /\ page.actionInProgress <=> Handled # {}

\* The status in force is the one of the last event in the log, unless
\* commands overlapped, an event was not recorded, or Redis lost the key.
FleetKeyIsRecorded ==
  \/ fleetExcuse \/ Unrecorded # {}
  \/ fleetKey = fleetLog
  \/ fleetKey = "none" /\ fleetLog = "ACTIVE"

\* When nothing but polls and their answers happens any more, the banner
\* says the status of the fleet in the end and for good: a late answer to an old
\* poll does not stay.
PollsOnly ==
  /\ On(EmergencyPath)
  /\ \/ PollFleetStatus
     \/ \E i \in DOMAIN calls : ServeFleetStatus(i) \/ HearFleet(i)

FleetViewSettles ==
  <>[][PollsOnly]_emergencyVars => 
    <>[](route = EmergencyPath => Banner = [headline |-> FleetStatus, text |-> FleetStatus])
=============================================================================

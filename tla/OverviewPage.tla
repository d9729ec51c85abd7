----------------------------- MODULE OverviewPage -----------------------------
(***************************************************************************)
(* The dashboard of the console (FleetOverview.tsx, StaleIndicator.tsx).   *)
(* One fetch asks for several resources at once, each of which the server  *)
(* answers at a moment of its own. fetchData depends on the time of the    *)
(* last success: after every success there is a new function, for which    *)
(* React runs the effect again. Until then the interval holds the old one. *)
(***************************************************************************)
EXTENDS ApiClient

CONSTANTS
  Resources,   \* what a fetch asks for
  MaxVersion   \* bound: versions of a resource

ASSUME MaxVersionAssumption == MaxVersion \in Nat \ {0}

VARIABLES
  published,     \* current version of each resource on the server
  isFetching,    \* isFetchingRef
  effectDue,     \* a new fetchData has been rendered, its effect has not run
  timerSynced    \* the interval's fetchData was made after a success

overviewHooks == <<isFetching, effectDue, timerSynced>>
OverviewPath == "/"
overviewVars == <<route, page, calls, published, overviewHooks>>

Versions == 1..MaxVersion
Unseen == [r \in Resources |-> 0]

OverviewMounted ==
  [shown |-> Unseen, healthStatus |-> "LIVE", lastSuccessfulUpdate |-> FALSE,
   errorMsg |-> FALSE, isRefreshing |-> TRUE]

\* Promise.all: one request for every resource. fetchData decides between
\* STALE and OFFLINE by the last success when the function was made.
FetchAll(synced) ==
  [Request("fetchData", synced, "page") EXCEPT !.answer = Ok(Unseen)]

-----------------------------------------------------------------------------
Publish(r) ==
  /\ published[r] < MaxVersion
  /\ published' = [published EXCEPT ![r] = @ + 1]
  /\ UNCHANGED <<page, calls, overviewHooks>>

ServeResource(i, r) ==
  /\ calls[i].op = "fetchData" /\ calls[i].answer.value[r] = 0
  /\ calls' = [calls EXCEPT ![i].answer.value[r] = published[r]]
  /\ UNCHANGED <<page, published, overviewHooks>>

\* Mutant: fetchData does not look whether a fetch is under way.
FetchDataUnguarded(synced) ==
  /\ Room
  /\ isFetching' = TRUE
  /\ page' = [page EXCEPT !.isRefreshing = TRUE]
  /\ calls' = Append(calls, FetchAll(synced))

\* fetchData returns at once while a fetch is under way.
FetchData(synced) ==
  IF isFetching THEN UNCHANGED <<page, calls, isFetching>>
  ELSE /\ isFetching' = TRUE
       /\ page' = [page EXCEPT !.isRefreshing = TRUE]
       /\ calls' = Append(calls, FetchAll(synced))

\* The effect replaces the interval and fetches at once.
RunEffect ==
  /\ effectDue /\ effectDue' = FALSE
  /\ timerSynced' = page.lastSuccessfulUpdate
  /\ FetchData(page.lastSuccessfulUpdate)
  /\ UNCHANGED published

IntervalFires ==
  /\ FetchData(timerSynced)
  /\ UNCHANGED <<published, effectDue, timerSynced>>

\* The refresh button, or "Retry Connection".
ManualRefresh ==
  /\ ~page.isRefreshing
  /\ FetchData(page.lastSuccessfulUpdate)
  /\ UNCHANGED <<published, effectDue, timerSynced>>

FetchSucceeds(i) ==
  /\ calls[i].op = "fetchData" /\ \A r \in Resources : calls[i].answer.value[r] # 0
  /\ page' = [shown |-> calls[i].answer.value, healthStatus |-> "LIVE",
              lastSuccessfulUpdate |-> TRUE, errorMsg |-> FALSE, isRefreshing |-> FALSE]
  /\ isFetching' = FALSE /\ effectDue' = TRUE
  /\ calls' = Heard(i)
  /\ UNCHANGED <<published, timerSynced>>

\* Mutant: the flag is not reset when a fetch fails.
FailsForGood(i) ==
  /\ calls[i].op = "fetchData"
  /\ page' = [page EXCEPT !.errorMsg = TRUE, !.isRefreshing = FALSE,
                          !.healthStatus = IF calls[i].arg THEN "STALE" ELSE "OFFLINE"]
  /\ calls' = GivenUp(i)
  /\ UNCHANGED <<published, overviewHooks>>

\* One of the requests fails: what is shown stays, and is marked as old.
FetchFails(i) ==
  /\ calls[i].op = "fetchData"
  /\ page' = [page EXCEPT !.errorMsg = TRUE, !.isRefreshing = FALSE,
                          !.healthStatus = IF calls[i].arg THEN "STALE" ELSE "OFFLINE"]
  /\ isFetching' = FALSE
  /\ calls' = GivenUp(i)
  /\ UNCHANGED <<published, effectDue, timerSynced>>

\* The screen that replaces the dashboard while there is nothing to show.
ControlTowerUnavailable == page.shown = Unseen /\ page.healthStatus = "OFFLINE"

\* The badge and its text.
Badge ==
  [label |-> page.healthStatus,
   text |-> CASE page.healthStatus = "LIVE" /\ page.lastSuccessfulUpdate -> "Updated"
              [] page.healthStatus = "LIVE" /\ ~page.lastSuccessfulUpdate -> "Updated just now"
              [] page.healthStatus # "LIVE" /\ page.errorMsg -> "the error"
              [] OTHER -> "Unable to reach API",
   lastSync |-> page.healthStatus # "LIVE" /\ page.lastSuccessfulUpdate]

-----------------------------------------------------------------------------
OverviewServerInit ==
  published \in [Resources -> Versions]

ReturnToOverview ==
  /\ Remount(OverviewMounted, FetchAll(FALSE))
  /\ isFetching' = TRUE /\ effectDue' = FALSE /\ timerSynced' = FALSE
  /\ UNCHANGED published

OverviewMount ==
  /\ route = OverviewPath
  /\ page = OverviewMounted
  /\ calls = <<FetchAll(FALSE)>>
  /\ isFetching = TRUE /\ effectDue = FALSE /\ timerSynced = FALSE

OverviewInit == OverviewMount /\ OverviewServerInit

OverviewNext ==
  /\ On(OverviewPath)
  /\ \/ \E r \in Resources : Publish(r)
     \/ \E i \in DOMAIN calls, r \in Resources : ServeResource(i, r)
     \/ RunEffect \/ IntervalFires \/ ManualRefresh \/ ReturnToOverview
     \/ \E i \in DOMAIN calls : FetchSucceeds(i) \/ FetchFails(i)

OverviewSpec == OverviewInit /\ [][OverviewNext]_overviewVars

\* Timers fire, React runs its effects, the server answers.
OverviewFairness ==
  /\ WF_overviewVars(On(OverviewPath) /\ RunEffect)
  /\ WF_overviewVars(On(OverviewPath) /\ IntervalFires)
  /\ WF_overviewVars(On(OverviewPath) /\ \E i \in DOMAIN calls, r \in Resources : ServeResource(i, r))
  /\ WF_overviewVars(On(OverviewPath) /\ \E i \in DOMAIN calls : FetchSucceeds(i))

OverviewFairSpec == OverviewSpec /\ OverviewFairness

-----------------------------------------------------------------------------
(* Properties                                                              *)

OverviewTypeOK ==
  /\ route = OverviewPath =>
     page \in [shown : [Resources -> 0..MaxVersion], lastSuccessfulUpdate : BOOLEAN,
               healthStatus : {"LIVE", "STALE", "OFFLINE"}, errorMsg : BOOLEAN,
               isRefreshing : BOOLEAN]
  /\ published \in [Resources -> Versions]
  /\ isFetching \in BOOLEAN /\ effectDue \in BOOLEAN /\ timerSynced \in BOOLEAN

\* No resource is ever shown in an older version than before: the fetches of
\* the effect, the interval and the button never overtake one another.
NeverGoesBack ==
  [][On(OverviewPath) /\ ~ReturnToOverview => \A r \in Resources : page.shown[r] <= page'.shown[r]]_overviewVars

\* When the server changes nothing and fails no request any more, the
\* dashboard is up to date and says so in the end and for good.
FetchesOnly ==
  /\ On(OverviewPath)
  /\ \/ \E i \in DOMAIN calls, r \in Resources : ServeResource(i, r)
     \/ RunEffect \/ IntervalFires
     \/ \E i \in DOMAIN calls : FetchSucceeds(i)

DashboardSettles ==
  <>[][FetchesOnly]_overviewVars => 
    <>[](route = OverviewPath => ~ControlTowerUnavailable /\ page.shown = published
                                /\ Badge = [label |-> "LIVE", text |-> "Updated", lastSync |-> FALSE])
=============================================================================

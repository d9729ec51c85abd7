------------------------------ MODULE AuditPage ------------------------------
(***************************************************************************)
(* The investigation page (Audit.tsx): a filter, pages of events, newest   *)
(* first, and the verification of the chain. Every change of filter or     *)
(* page makes a new fetch function, for which the effect runs at once;     *)
(* answers to the old ones are shown like any other. The page does not     *)
(* poll.                                                                   *)
(***************************************************************************)
EXTENDS ApiClient

CONSTANTS
  Decisions,   \* what an event may be filtered by
  PageSize,    \* PAGE_SIZE
  MaxEvents    \* bound: events in the log

ASSUME PageSizeAssumption == PageSize \in Nat \ {0}
ASSUME MaxEventsAssumption == MaxEvents \in Nat

VARIABLES
  log,           \* decision of each event, by sequence number
  intact,        \* verify_chain finds nothing wrong with a row of the log
  \* History: since the last fetch that was sent alone, an answer overtook an
  \* older fetch, none came, or the log grew.
  eventsStale

auditRows == <<log, intact>>
auditVars == <<route, page, calls, auditRows, eventsStale>>

AuditPath == "/audit"

AnyDecision == ""
ASSUME AnyDecisionAssumption == AnyDecision \notin Decisions
Filters == Decisions \cup {AnyDecision}

AuditMounted ==
  [events |-> {}, totalCount |-> 0, currentPage |-> 1, loading |-> TRUE,
   filters |-> AnyDecision, isVerifying |-> FALSE, verificationResult |-> "none",
   selectedEvent |-> 0]

FetchEvents(filter, p) == Request("getAuditEvents", [filter |-> filter, page |-> p], "page")

-----------------------------------------------------------------------------
(* Server                                                                  *)

Matching(filter) == {n \in DOMAIN log : filter = AnyDecision \/ log[n] = filter}

\* Newest first: an event is on the page its rank falls on.
EventsOf(filter, p) ==
  LET rank(n) == Cardinality({m \in Matching(filter) : m > n})
  IN  {n \in Matching(filter) : rank(n) \div PageSize = p - 1}

ServeEvents(i) ==
  /\ calls[i].op = "getAuditEvents" /\ calls[i].stage = "sent"
  /\ LET q == calls[i].arg
     IN  calls' = Served(i, Ok([items |-> EventsOf(q.filter, q.page),
                                total |-> Cardinality(Matching(q.filter))]))
  /\ UNCHANGED <<page, auditRows, eventsStale>>

\* An empty log is valid. A sound one is also refused when an event is
\* committed between the two statements of verify_chain (see AuditVerify).
ServeVerification(i) ==
  /\ calls[i].op = "verifyAuditChain" /\ calls[i].stage = "sent"
  /\ \E verdict \in CASE log = <<>> -> {"valid"}
                      [] log # <<>> /\ intact -> {"valid", "CHAIN_HEAD_MISMATCH"}
                      [] OTHER -> {"tampered"} :
       calls' = Served(i, Ok(verdict))
  /\ UNCHANGED <<page, auditRows, eventsStale>>

RecordEvent ==
  /\ Len(log) < MaxEvents
  /\ \E d \in Decisions : log' = Append(log, d)
  /\ eventsStale' = TRUE
  /\ UNCHANGED <<page, calls, intact>>

\* A row is changed behind the program's back, or was hashed with an amount
\* that its column rounds.
Tamper ==
  /\ log # <<>> /\ intact /\ intact' = FALSE
  /\ UNCHANGED <<page, calls, log, eventsStale>>

-----------------------------------------------------------------------------
(* Page                                                                    *)

\* Mutant: full last pages are followed by another one.
TotalPagesAndOne == page.totalCount \div PageSize + 1

TotalPages == IF page.totalCount = 0 THEN 1 ELSE (page.totalCount + PageSize - 1) \div PageSize

\* Mutant: the fetch function does not depend on the page number.
FetchFirstPage(filter, p) ==
  /\ Room
  /\ page' = [page EXCEPT !.filters = filter, !.currentPage = p, !.loading = TRUE]
  /\ calls' = Append(calls, FetchEvents(filter, 1))
  /\ eventsStale' = (eventsStale /\ CallsOf("getAuditEvents") # {})
  /\ UNCHANGED auditRows

\* The effect of a new fetch function.
Fetch(filter, p) ==
  /\ Room
  /\ page' = [page EXCEPT !.filters = filter, !.currentPage = p, !.loading = TRUE]
  /\ calls' = Append(calls, FetchEvents(filter, p))
  /\ eventsStale' = (eventsStale /\ CallsOf("getAuditEvents") # {})
  /\ UNCHANGED auditRows

\* The detail of an event covers the page: nothing else can be used.
Uncovered == page.selectedEvent = 0

ChangeAuditFilter == Uncovered /\ \E f \in Filters \ {page.filters} : Fetch(f, 1)

\* The buttons are disabled while loading, and gone when no event is shown.
Paging == Uncovered /\ ~page.loading /\ page.events # {}
PreviousPage == Paging /\ page.currentPage > 1 /\ Fetch(page.filters, page.currentPage - 1)
NextPage == Paging /\ page.currentPage < TotalPages /\ Fetch(page.filters, page.currentPage + 1)

RunVerification ==
  /\ Uncovered /\ ~page.isVerifying /\ Room
  /\ page' = [page EXCEPT !.isVerifying = TRUE]
  /\ calls' = Append(calls, Request("verifyAuditChain", [filter |-> AnyDecision, page |-> 1], "handler"))
  /\ UNCHANGED <<auditRows, eventsStale>>

InspectEvent ==
  /\ Uncovered /\ ~page.loading
  /\ \E n \in page.events : page' = [page EXCEPT !.selectedEvent = n]
  /\ UNCHANGED <<calls, auditRows, eventsStale>>

CloseEvent ==
  /\ page.selectedEvent # 0
  /\ page' = [page EXCEPT !.selectedEvent = 0]
  /\ UNCHANGED <<calls, auditRows, eventsStale>>

EventsOvertake(i) == \E j \in CallsOf("getAuditEvents") : j < i

EventsAnswered(i, a, rest) ==
  /\ calls[i].op = "getAuditEvents"
  /\ page' = [page EXCEPT !.events = IF a.ok THEN a.value.items ELSE @,
                          !.totalCount = IF a.ok THEN a.value.total ELSE @,
                          !.loading = FALSE]
  /\ calls' = rest
  /\ eventsStale' = (eventsStale \/ ~a.ok \/ EventsOvertake(i))
  /\ UNCHANGED auditRows

VerificationAnswered(i, a, rest) ==
  /\ calls[i].op = "verifyAuditChain"
  /\ page' = [page EXCEPT
                !.verificationResult = IF a.ok THEN a.value ELSE @,
                !.isVerifying = FALSE]
  /\ calls' = rest
  /\ UNCHANGED <<auditRows, eventsStale>>

HearAudit(i) ==
  /\ calls[i].stage = "served"
  /\ \/ EventsAnswered(i, calls[i].answer, Heard(i))
     \/ VerificationAnswered(i, calls[i].answer, Heard(i))

GiveUpAudit(i) ==
  \/ EventsAnswered(i, NoResponse, GivenUp(i))
  \/ VerificationAnswered(i, NoResponse, GivenUp(i))

-----------------------------------------------------------------------------
AuditServerInit ==
  /\ log \in UNION {[1..n -> Decisions] : n \in 0..MaxEvents}
  /\ intact \in BOOLEAN /\ (log = <<>> => intact) /\ eventsStale = FALSE

ReturnToAudit ==
  Remount(AuditMounted, FetchEvents(AnyDecision, 1)) /\ eventsStale' = FALSE /\ UNCHANGED auditRows

AuditMount ==
  /\ route = AuditPath
  /\ page = AuditMounted
  /\ calls = <<FetchEvents(AnyDecision, 1)>>

AuditInit == AuditMount /\ AuditServerInit

AuditNext ==
  /\ On(AuditPath)
  /\ \/ RecordEvent \/ Tamper \/ ReturnToAudit
     \/ ChangeAuditFilter \/ PreviousPage \/ NextPage \/ RunVerification
     \/ InspectEvent \/ CloseEvent
     \/ \E i \in DOMAIN calls :
          ServeEvents(i) \/ ServeVerification(i) \/ HearAudit(i) \/ GiveUpAudit(i)

AuditSpec == AuditInit /\ [][AuditNext]_auditVars

-----------------------------------------------------------------------------
(* Properties                                                              *)

AuditTypeOK ==
  /\ route = AuditPath =>
     page \in [events : SUBSET DOMAIN log, totalCount : 0..Len(log), currentPage : {1} \cup 1..MaxEvents,
               loading : BOOLEAN, filters : Filters, isVerifying : BOOLEAN,
               verificationResult : {"none", "valid", "CHAIN_HEAD_MISMATCH", "tampered"},
               selectedEvent : {0} \cup DOMAIN log]
  /\ log \in Seq(Decisions) /\ intact \in BOOLEAN /\ eventsStale \in BOOLEAN

\* When no fetch is under way, the table is what the filter and the page
\* number of the screen ask for, unless an answer overtook a newer one or
\* failed, or the log grew.
EventsAreExplained ==
  route = AuditPath /\ CallsOf("getAuditEvents") = {} =>
    \/ eventsStale
    \/ /\ page.events = EventsOf(page.filters, page.currentPage)
       /\ page.totalCount = Cardinality(Matching(page.filters))
=============================================================================

------------------------------ MODULE LogsPage ------------------------------
(***************************************************************************)
(* The Logs page (web/static/js/logs.js, templates/pages/logs.templ): a    *)
(* filter and a page number, a timer that asks for them every five         *)
(* seconds, and the answers, which arrive in any order.                    *)
(*                                                                         *)
(* init runs twice: Alpine calls it, and x-init="init()" calls it again.   *)
(* Each call watches the filters, so that a change of them asks twice.     *)
(* Expanded rows and the loading mark are layout and left out.             *)
(***************************************************************************)
EXTENDS ActivityLog, Document, Bags

CONSTANTS
  NoFilter,     \* the filter of a page just opened
  MaxRequests   \* bound: requests of the page under way

ASSUME LogsAssumption ==
  /\ NoFilter \in Filters
  /\ MaxRequests \in Nat \ {0, 1}

VARIABLES
  filters,      \* filters
  page,         \* page
  shown,        \* entries and total, with the question they answer
  fetchError,   \* fetchError # ''
  autoRefresh,  \* autoRefresh
  polling,      \* refreshInterval # null
  timers,       \* intervals that run in the browser
  requests      \* bag of fetches under way

logsVars == <<filters, page, shown, fetchError, autoRefresh, polling, timers, requests>>

Question == [filters |-> filters, page |-> page]

\* Nothing shown yet: entries and total of a new page.
Nothing == [question |-> [filters |-> NoFilter, page |-> 0],
            at |-> 0, entries |-> {}, total |-> 0]

totalPages ==
  IF shown.total = 0 THEN 1 ELSE (shown.total + PerPage - 1) \div PerPage

Sent(q) == [stage |-> "sent", question |-> q]

\* A fetch of the question, n times over, as far as the bound leaves room.
Ask(q, n) ==
  LET room == MaxRequests - BagCardinality(requests)
  IN  /\ room > 0
      /\ requests' = requests (+) [r \in {Sent(q)} |-> IF n < room THEN n ELSE room]

-----------------------------------------------------------------------------
(* Opening and leaving the page. *)

LogsClosed ==
  /\ filters = NoFilter
  /\ page = 1
  /\ shown = Nothing
  /\ fetchError = FALSE
  /\ autoRefresh = TRUE
  /\ polling = FALSE
  /\ timers = 0
  /\ requests = EmptyBag

\* init, twice: the second startPolling finds the interval of the first.  A hidden
\* page asks for nothing.
OpenLogs(f) ==
  /\ filters' = f
  /\ IF hidden' THEN UNCHANGED requests ELSE Ask([filters |-> f, page |-> 1], 2)
  /\ polling' = TRUE
  /\ timers' = 1
  /\ UNCHANGED <<page, shown, fetchError, autoRefresh>>

\* A new document: nothing of the old one is left, nor do its answers arrive.
LeaveLogs ==
  /\ filters' = NoFilter
  /\ page' = 1
  /\ shown' = Nothing
  /\ fetchError' = FALSE
  /\ autoRefresh' = TRUE
  /\ polling' = FALSE
  /\ timers' = 0
  /\ requests' = EmptyBag

-----------------------------------------------------------------------------
(* What the user does. *)

\* Both watchers of the filters go back to the first page and ask.
SetFilters(f) ==
  /\ ~hidden
  /\ f # filters
  /\ filters' = f
  /\ page' = 1
  /\ Ask([filters |-> f, page |-> 1], 2)
  /\ UNCHANGED <<shown, fetchError, autoRefresh, polling, timers>>

Turn(p) ==
  /\ ~hidden
  /\ page' = p
  /\ Ask([filters |-> filters, page |-> p], 1)
  /\ UNCHANGED <<filters, shown, fetchError, autoRefresh, polling, timers>>

prevPage == page > 1 /\ Turn(page - 1)

nextPage == page < totalPages /\ Turn(page + 1)

\* Mutant: a timer although one runs.
startPollingAgain ==
  /\ polling' = TRUE
  /\ timers' = timers + 1

startPolling ==
  /\ polling' = TRUE
  /\ timers' = IF polling THEN timers ELSE timers + 1

stopPolling ==
  /\ polling' = FALSE
  /\ timers' = IF polling THEN timers - 1 ELSE timers

toggleAutoRefresh ==
  /\ ~hidden
  /\ autoRefresh' = ~autoRefresh
  /\ IF autoRefresh THEN stopPolling ELSE startPolling
  /\ UNCHANGED <<filters, page, shown, fetchError, requests>>

\* The tab is hidden or comes back; both listeners do the same once.
VisibilityChanges ==
  /\ IF hidden' THEN stopPolling
     ELSE IF autoRefresh THEN startPolling
     ELSE UNCHANGED <<polling, timers>>
  /\ UNCHANGED <<filters, page, shown, fetchError, autoRefresh, requests>>

-----------------------------------------------------------------------------
(* Requests. *)

\* Five seconds are over.
Poll ==
  /\ timers > 0
  /\ ~hidden
  /\ Ask(Question, 1)
  /\ UNCHANGED <<filters, page, shown, fetchError, autoRefresh, polling, timers>>

Replace(r, s) == requests' = (requests (-) SetToBag({r})) (+) SetToBag({s})

\* handleListActivity reads the entries ...
List(r) ==
  /\ r.stage = "sent"
  /\ Replace(r, [stage |-> "listed", question |-> r.question, at |-> clock,
                 entries |-> PageOf(r.question.filters, r.question.page)])
  /\ UNCHANGED <<filters, page, shown, fetchError, autoRefresh, polling, timers>>

\* ... and counts them in a statement of its own.
Count(r) ==
  /\ r.stage = "listed"
  /\ Replace(r, [stage |-> "answered", question |-> r.question, at |-> r.at,
                 entries |-> r.entries, total |-> Total(r.question.filters)])
  /\ UNCHANGED <<filters, page, shown, fetchError, autoRefresh, polling, timers>>

\* Mutant: an answer is shown only while nothing else is.
ShowFirst(r) ==
  /\ r.stage = "answered"
  /\ shown' = IF shown = Nothing
              THEN [question |-> r.question, at |-> r.at, entries |-> r.entries,
                    total |-> r.total]
              ELSE shown
  /\ fetchError' = FALSE
  /\ requests' = requests (-) SetToBag({r})
  /\ UNCHANGED <<filters, page, autoRefresh, polling, timers>>

\* An answer is shown, whatever is asked by now.
Show(r) ==
  /\ r.stage = "answered"
  /\ shown' = [question |-> r.question, at |-> r.at, entries |-> r.entries,
               total |-> r.total]
  /\ fetchError' = FALSE
  /\ requests' = requests (-) SetToBag({r})
  /\ UNCHANGED <<filters, page, autoRefresh, polling, timers>>

\* A statement fails, or the server does not answer.
Fail(r) ==
  /\ fetchError' = TRUE
  /\ requests' = requests (-) SetToBag({r})
  /\ UNCHANGED <<filters, page, shown, autoRefresh, polling, timers>>

RequestStep(r) == List(r) \/ Count(r) \/ Show(r) \/ Fail(r)

-----------------------------------------------------------------------------
\* While the page is seen, one timer runs if auto-refresh is on, and none
\* otherwise: none is forgotten in the browser, whatever is hidden and toggled
\* in whatever order, and although init runs twice.
TimersMatch(open) ==
  /\ timers = IF polling THEN 1 ELSE 0
  /\ open /\ ~hidden => (polling <=> autoRefresh)

ShowsIt == fetchError \/ shown.question = Question

\* Paging forward passes over no entry: between a page and the next one, read
\* later, there is none that was in the log when the first was read, however many
\* entries are written and pruned in between.
SkipsNothing ==
  /\ shown.entries # {}
  /\ shown'.question.filters = shown.question.filters
  /\ shown'.question.page = shown.question.page + 1
  /\ shown'.at >= shown.at
  => \A e \in Matching(shown.question.filters) :
       e.at <= shown.at =>
         (\E f \in shown.entries : ~Before(e, f)) \/ (\E f \in shown'.entries : ~Before(f, e))
=============================================================================

------------------------- MODULE ConnectivityCheck --------------------------
(***************************************************************************)
(* Connectivity checks: ConnectivityService (backend/app/services/         *)
(* connectivity.py), nginx in front of it, and checkConnectivity and the   *)
(* renderings around it in oci_network_monitor_dashboard_v2.html.          *)
(*                                                                         *)
(* A check starts a path analysis in OCI and polls its work request for a  *)
(* limited time.  The page shows "checking" meanwhile, but renders at once,*)
(* which enables the button again: checks may overlap, and refreshes of    *)
(* the dashboard come in between.                                          *)
(*                                                                         *)
(* There may be several paths between two endpoints.  The service reads    *)
(* the first that OCI lists, and of its directions those for which OCI     *)
(* gives a status.                                                         *)
(***************************************************************************)
EXTENDS Settings, Naturals

CONSTANTS
    MaxEvents,  \* bounds the clicks on "Check connectivity" and the changes of the
                \* network, together
    CallTime,   \* longest duration of a call to OCI and the sleep after it, in ticks
    Wait        \* _WORK_REQUEST_WAIT_SECONDS, in ticks

ASSUME MaxEventsAssumption == MaxEvents \in Nat
ASSUME TimesAssumption == CallTime \in Nat \ {0} /\ Wait \in Nat \ {0}

VARIABLES
    network,   \* the paths between the endpoints, each as the directions in which
               \* it is open
    analysis,  \* the work request of each check, in OCI
    handler,   \* the handler of each check, on a thread of the API
    waiting,   \* the checks whose answer the page awaits
    data,      \* what the page renders: nothing yet, the API's data, DEMO_DATA
    shown,     \* connectivityCheck of the page
    sample,    \* DEMO_DATA.connectivityCheck
    enabled,   \* is the button enabled?
    events,    \* number of clicks and changes of the network so far
    seen,      \* history: the paths that there were while a check was under way
    latest     \* history: the last click, if it was made with the API's data shown
               \* and no check under way, and no refresh has failed since

checkVars == <<network, analysis, handler, waiting, data, shown, sample, enabled,
               events, seen, latest>>

(* The clicks are numbered; each sends a request of its own.               *)
Checks == 1 .. MaxEvents

NoCheck == 0

Directions == {"forward", "return"}

(* "failed" stands for "service_limit" too, which is told apart by the     *)
(* wording of OCI's error.                                                 *)
Answers == {"disabled", "missing_scope", "failed", "running", "unknown",
            "reachable", "blocked", "error"}

(* The reachability of each route of a path; "missing" if that direction   *)
(* was not asked for (connectivityDirection of the page), or if OCI gives  *)
(* no route or no status for it.                                           *)
Routes == [Directions -> {"missing", "reachable", "unreachable", "indeterminate"}]

WorkStates == {"none", "running", "failed", "empty", "succeeded"}

(* The first path of the results is the one that is read.                  *)
Analysis == [state : WorkStates, path : SUBSET Directions]

(* The clock of a handler runs up to one tick after its latest return.     *)
TimeLimit == 3 * CallTime + Wait

Handler == [at : {"unused", "sent", "submit", "poll", "errors", "results", "answered"},
            elapsed : 0 .. TimeLimit, deadline : 0 .. TimeLimit, spent : 0 .. CallTime,
            answer : Answers \cup {"none"}, routes : Routes]

Views == [check : Checks \cup {NoCheck}, status : Answers \cup {"idle", "sample", "checking"},
          routes : Routes]

NoRoutes == [d \in Directions |-> "missing"]

NoAnalysis == [state |-> "none", path |-> {}]

View(c, status) == [check |-> c, status |-> status, routes |-> NoRoutes]

Unused == [at |-> "unused", elapsed |-> 0, deadline |-> 0, spent |-> 0,
           answer |-> "none", routes |-> NoRoutes]

AtPlace(c, at) == handler[c].at = at

(* The handler waits for OCI.                                              *)
Calling(c) == handler[c].at \in {"submit", "poll", "errors", "results"}

UnderWay(c) == ~AtPlace(c, "unused") /\ ~AtPlace(c, "answered")

CheckInit ==
    /\ network \in SUBSET SUBSET Directions
    /\ analysis = [c \in Checks |-> NoAnalysis]
    /\ handler = [c \in Checks |-> Unused]
    /\ waiting = {}
    /\ data = "none"
    /\ shown = View(NoCheck, "idle")
    /\ sample = View(NoCheck, "sample")
    /\ enabled = TRUE
    /\ events = 0
    /\ seen = [c \in Checks |-> {}]
    /\ latest = NoCheck

serverVars == <<network, analysis, handler, events, seen>>
pageVars == <<waiting, data, shown, sample, enabled, latest>>

-----------------------------------------------------------------------------
(* The handler: ConnectivityService.check.                                 *)

(* The handler calls OCI next.  The deadline matters for polling only.     *)
Goto(c, at) ==
    /\ handler' = [handler EXCEPT ![c].at = at, ![c].spent = 0, ![c].deadline = 0]
    /\ UNCHANGED analysis

(* The handler returns.  Nobody asks for its work request any more.        *)
Tell(c, answer, routes) ==
    /\ handler' = [handler EXCEPT ![c] = [Unused EXCEPT !.at = "answered", !.answer = answer,
                                                        !.routes = routes]]
    /\ analysis' = [analysis EXCEPT ![c] = NoAnalysis]

Answer(c, answer) == Tell(c, answer, NoRoutes)

(* The request has arrived, and its factory has made a client, with a      *)
(* signer that is new for each request: both may take any time.  It is     *)
(* answered with an error (503 or 422) if the client or the details of the *)
(* analysis cannot be made.                                                *)
Accept(c) ==
    /\ AtPlace(c, "sent")
    /\ \/ ~settings.live /\ Answer(c, "disabled")
       \/ settings.live /\ TargetCompartments = {} /\ Answer(c, "missing_scope")
       \/ settings.live /\ (Goto(c, "submit") \/ Answer(c, "error"))
    /\ UNCHANGED <<network, events, seen, pageVars>>

(* get_path_analysis.  It may raise, or return no work request.            *)
Submit(c) ==
    /\ AtPlace(c, "submit")
    /\ \/ /\ analysis' = [analysis EXCEPT ![c].state = "running"]
          /\ handler' = [handler EXCEPT ![c].at = "poll", ![c].spent = 0,
                                        ![c].deadline = handler[c].elapsed + Wait]
       \/ Answer(c, "failed")
    /\ UNCHANGED <<network, events, seen, pageVars>>

(* Mutant of Expired: the handler polls until the work request ends.       *)
NeverExpires(c) == FALSE

Expired(c) == handler[c].elapsed >= handler[c].deadline

(* One round of _wait_for_work_request: get_work_request answers or        *)
(* raises; unless the work request has ended, the handler sleeps and looks *)
(* at the clock.                                                           *)
Poll(c) ==
    /\ AtPlace(c, "poll")
    /\ \/ /\ analysis[c].state = "running" /\ ~Expired(c)
          /\ handler' = [handler EXCEPT ![c].spent = 0]
          /\ UNCHANGED analysis
       \/ analysis[c].state = "running" /\ Expired(c) /\ Answer(c, "running")
       \/ analysis[c].state = "failed" /\ Goto(c, "errors")
       \/ analysis[c].state \in {"empty", "succeeded"} /\ Goto(c, "results")
       \/ Answer(c, "failed")
    /\ UNCHANGED <<network, events, seen, pageVars>>

(* list_work_request_errors, for a work request that failed or was         *)
(* canceled.  If the errors cannot be listed, there are none.              *)
ListErrors(c) ==
    /\ AtPlace(c, "errors")
    /\ Answer(c, "failed")
    /\ UNCHANGED <<network, events, seen, pageVars>>

(* The directions for which a path has a status.                           *)
Given(routes) == {d \in Directions : routes[d] # "missing"}

RouteStatuses(routes) == {routes[d] : d \in Given(routes)}

(* Mutants of Verdict: OCI's word for the other verdict is passed on; one  *)
(* reachable direction is enough.                                          *)
VerdictOfOci(routes) ==
    IF RouteStatuses(routes) = {"reachable"} THEN "reachable" ELSE "NOT_REACHABLE"

VerdictOfAny(routes) == IF "reachable" \in RouteStatuses(routes) THEN "reachable" ELSE "blocked"

(* There is a status, and no other one: whatever the analysis was asked    *)
(* for.                                                                    *)
Verdict(routes) == IF RouteStatuses(routes) = {"reachable"} THEN "reachable" ELSE "blocked"

(* What OCI tells of a path is right; but it may tell nothing.             *)
TrueOf(path, routes) ==
    \A d \in Directions : /\ routes[d] = "reachable" => d \in path
                          /\ routes[d] = "unreachable" => d \notin path

(* list_work_request_results, which may raise, and _result_response.       *)
ListResults(c) ==
    /\ AtPlace(c, "results")
    /\ \/ analysis[c].state = "empty" /\ Answer(c, "unknown")
       \/ /\ analysis[c].state = "succeeded"
          /\ \E routes \in Routes :
                TrueOf(analysis[c].path, routes) /\ Tell(c, Verdict(routes), routes)
       \/ Answer(c, "failed")
    /\ UNCHANGED <<network, events, seen, pageVars>>

Handle(c) == Accept(c) \/ Submit(c) \/ Poll(c) \/ ListErrors(c) \/ ListResults(c)

-----------------------------------------------------------------------------
(* OCI and the clock.                                                      *)

(* Network Path Analyzer ends: with one of the paths that there are now    *)
(* as the first, without any, or with a failure (FAILED, CANCELED,         *)
(* CANCELING).                                                             *)
Analyze(c) ==
    /\ analysis[c].state = "running"
    /\ \/ \E state \in {"failed", "empty"} : analysis' = [analysis EXCEPT ![c].state = state]
       \/ \E path \in network :
             analysis' = [analysis EXCEPT ![c] = [state |-> "succeeded", path |-> path]]
    /\ UNCHANGED <<network, handler, events, seen, pageVars>>

(* A rule, a route or an endpoint is changed.                              *)
ChangeNetwork ==
    /\ events < MaxEvents
    /\ events' = events + 1
    /\ network' \in SUBSET SUBSET Directions
    /\ seen' = [c \in Checks |-> IF UnderWay(c) THEN seen[c] \cup network' ELSE seen[c]]
    /\ UNCHANGED <<analysis, handler, pageVars>>

Later(n) == IF n = TimeLimit THEN TimeLimit ELSE n + 1

(* Time passes.  Every call that the client makes ends within CallTime; a  *)
(* handler's clock starts when it has its client.                          *)
Tick ==
    /\ \A c \in Checks : Calling(c) => handler[c].spent < CallTime
    /\ handler' = [c \in Checks |->
          IF Calling(c) THEN [handler[c] EXCEPT !.elapsed = Later(@), !.spent = @ + 1]
          ELSE handler[c]]
    /\ UNCHANGED <<network, analysis, events, seen, pageVars>>

-----------------------------------------------------------------------------
(* The page.                                                               *)

(* The global variable and the data that is rendered get the same object.  *)
Write(view) ==
    /\ shown' = view
    /\ sample' = IF data = "demo" THEN view ELSE sample

(* checkConnectivity, up to its request.  Rendering sets the button by the *)
(* mode; without data nothing is rendered and it stays disabled.           *)
Click(c) ==
    /\ enabled
    /\ events < MaxEvents /\ events' = events + 1
    /\ AtPlace(c, "unused")
    /\ \A b \in Checks : b < c => ~AtPlace(b, "unused")
    /\ Write(View(c, "checking"))
    /\ enabled' = (data = "api")
    /\ waiting' = waiting \cup {c}
    /\ handler' = [handler EXCEPT ![c] = [Unused EXCEPT !.at = "sent"]]
    /\ seen' = [seen EXCEPT ![c] = network]
    /\ latest' = IF data = "api" /\ waiting = {} THEN c ELSE NoCheck
    /\ UNCHANGED <<network, analysis, data>>

(* The rest of checkConnectivity, when the answer arrives ...              *)
Receive(c) ==
    /\ c \in waiting
    /\ AtPlace(c, "answered")
    /\ Write([View(c, handler[c].answer) EXCEPT
                  !.status = IF @ = "error" THEN "failed" ELSE @, !.routes = handler[c].routes])
    /\ waiting' = waiting \ {c}
    /\ enabled' = TRUE
    /\ UNCHANGED <<data, latest, serverVars>>

(* ... and when it does not: nginx gives up, or the connection breaks.     *)
Lose(c) ==
    /\ c \in waiting
    /\ Write(View(c, "failed"))
    /\ waiting' = waiting \ {c}
    /\ enabled' = TRUE
    /\ UNCHANGED <<data, latest, serverVars>>

(* Mutant of Kept: the data that is loaded comes with a check of its own.  *)
Forgotten == View(NoCheck, "idle")

(* loadApiData puts the variable into the data it returns.                 *)
Kept == shown

(* refreshDashboard ends with the data of the API ...                      *)
Refresh ==
    /\ data' = "api"
    /\ shown' = Kept
    /\ enabled' = TRUE
    /\ UNCHANGED <<waiting, sample, latest, serverVars>>

(* ... or with DEMO_DATA, whose check replaces the one that is shown.      *)
FallBack ==
    /\ data' = "demo"
    /\ shown' = sample
    /\ enabled' = FALSE
    /\ latest' = NoCheck
    /\ UNCHANGED <<waiting, sample, serverVars>>

(* The data is rendered again, as a filter of the view has changed.        *)
Redraw ==
    /\ data # "none"
    /\ enabled' = (data = "api")
    /\ UNCHANGED <<waiting, data, shown, sample, latest, serverVars>>

CheckNext ==
    /\ \/ \E c \in Checks : \/ Handle(c)
                            \/ Analyze(c)
                            \/ Click(c)
                            \/ Receive(c)
                            \/ Lose(c)
       \/ ChangeNetwork
       \/ Tick
       \/ Refresh
       \/ FallBack
       \/ Redraw
    /\ UNCHANGED settings

CheckSpec == CheckInit /\ settings \in Settings /\ [][CheckNext]_<<checkVars, settings>>
-----------------------------------------------------------------------------
CheckTypeOK ==
    /\ network \subseteq SUBSET Directions
    /\ analysis \in [Checks -> Analysis]
    /\ handler \in [Checks -> Handler]
    /\ waiting \subseteq Checks
    /\ data \in {"none", "api", "demo"}
    /\ shown \in Views
    /\ sample \in Views
    /\ enabled \in BOOLEAN
    /\ events \in 0 .. MaxEvents
    /\ seen \in [Checks -> SUBSET SUBSET Directions]
    /\ latest \in Checks \cup {NoCheck}

(* "reachable" is shown only if a path that there was since the check      *)
(* began was open in each direction for which a status is shown beside it, *)
(* and there is one; "blocked" only if a path was not, or if OCI could not *)
(* tell: however checks overlap, whichever calls fail and whatever is      *)
(* answered late (connectivity.py:206-215).  More cannot be said: nothing  *)
(* speaks for the paths after the first, nor for a direction that was      *)
(* asked for and has no status.                                            *)
VerdictsAreTrue ==
    LET given == Given(shown.routes)
    IN  /\ shown.status = "reachable" =>
             given # {} /\ \E path \in seen[shown.check] : given \subseteq path
        /\ shown.status = "blocked" =>
             \/ \E path \in seen[shown.check] : ~(given \subseteq path)
             \/ given = {} \/ \E d \in given : shown.routes[d] = "indeterminate"

(* From when it has its client, a handler polls for less than Wait and two *)
(* calls, and returns before three, though the path analysis may never end *)
(* and each call may take as long as its timeout: a call is begun before   *)
(* the deadline or not at all (connectivity.py:175-183).                   *)
HandlersReturnInTime ==
    \A c \in Checks :
        /\ AtPlace(c, "poll") => handler[c].elapsed < 2 * CallTime + Wait
        /\ UnderWay(c) => handler[c].elapsed < 3 * CallTime + Wait

(* A check that was started from data of the API, while no other one was   *)
(* under way, is shown until the next click or fallback: as "checking" as  *)
(* long as the page awaits its answer, and then with the answer or, if that*)
(* is an error or was lost, as failed; whatever is refreshed or drawn      *)
(* meanwhile.                                                              *)
AnswerIsShown ==
    latest # NoCheck =>
        /\ shown.check = latest
        /\ IF latest \in waiting THEN shown.status = "checking"
           ELSE \/ shown.status = "failed"
                \/ shown.status = handler[latest].answer /\ shown.routes = handler[latest].routes

-----------------------------------------------------------------------------
(* Fairness: handlers that run keep running, get their clients, and OCI    *)
(* answers or the client times out; time passes; the page gets an answer   *)
(* or an error. The path analysis itself may never end.                    *)
CheckFairness ==
    /\ \A c \in Checks : /\ WF_checkVars(Handle(c))
                         /\ WF_checkVars(Receive(c) \/ Lose(c))
    /\ WF_checkVars(Tick)

(* Each check returns: its thread is given back to the server, and the page*)
(* is no longer waiting, even if the path analysis never ends.             *)
ChecksReturn ==
    \A c \in Checks : AtPlace(c, "sent") ~> (AtPlace(c, "answered") /\ c \notin waiting)
=============================================================================

--------------------------- MODULE DashboardPage ---------------------------
(***************************************************************************)
(* The page: the part of oci_network_monitor_dashboard_v2.html that decides*)
(* when to ask the API, for which regions, and what to do with the answer. *)
(*                                                                         *)
(* refreshDashboard is called by the user, by the timer of the collection  *)
(* poll and by an interval; one call at a time, others return at once.  It *)
(* asks for the lists of regions first, computes the regions of the        *)
(* dashboard from the selection there is by then, and asks for those.      *)
(* Whatever fails, it renders DEMO_DATA.  Rendering prunes the selection   *)
(* to the regions of the data and stores it in localStorage.               *)
(*                                                                         *)
(* The API is DashboardApi, which SnapshotCache implements, for the keys of*)
(* one browser: its regions.  Its lists of regions come from the tenancy's *)
(* subscriptions or, if these cannot be listed, from its own settings      *)
(* (backend/app/services/regions.py).                                      *)
(***************************************************************************)
EXTENDS Naturals, FiniteSets

CONSTANTS
    Regions,
    Subscribed,   \* regions the tenancy is subscribed to
    Ready,        \* those whose subscription is ready
    Known,        \* OCI_REGIONS, the regions the API knows by heart
    Configured,   \* home_region and active_regions of its settings, if known
    DemoRegions,  \* the regions of DEMO_DATA
    Paths,        \* where the page is loaded: TRUE is /demodata, FALSE elsewhere
    MaxFaults,    \* bound: how many requests fail, and how often the API restarts
    NoRegion

ASSUME RegionsAssumption ==
    /\ Ready \subseteq Subscribed /\ Subscribed \subseteq Regions
    /\ Configured \subseteq Known /\ Known \subseteq Regions
    /\ DemoRegions \subseteq Regions
    /\ Ready # {} /\ Configured # {}
ASSUME NoRegionAssumption == NoRegion \notin Regions
ASSUME PathsAssumption == Paths \subseteq BOOLEAN
ASSUME MaxFaultsAssumption == MaxFaults \in Nat

VARIABLES
    selected,  \* selectedRegionIds and its copy in localStorage; see Null
    demo,      \* useDemoData
    allowed,   \* isDemoDataPathAllowed()
    request,   \* the call of refreshDashboard that is under way
    shown,     \* currentDashboardData and what was derived from it
    timer,     \* is collectionPollTimer running?
    feed,      \* the API: the snapshot and the collection of each region
    chosen,    \* history: the regions the user selected last
    misled,    \* history: data has been rendered with other regions than the tenancy's
    faults,
    resting    \* the user has left the page alone, for good

vars == <<selected, demo, allowed, request, shown, timer, feed, chosen, misled, faults,
          resting>>

Api == INSTANCE DashboardApi WITH Keys <- Regions, TornWrites <- FALSE, api <- feed

(* No set of regions: the default selection, or no override of it.         *)
Null == {NoRegion}

Selections == (SUBSET Regions) \cup {Null}

Data == [mode : {"none", "api", "demo"}, regions : SUBSET Regions, collecting : BOOLEAN,
         active : SUBSET Regions, menu : SUBSET Regions]

(* Whether a call asks for new collections, and for clearing the snapshots. *)
Forces == {"no", "refresh", "clear"}

Request == [pc : {"closed", "idle", "lists", "dashboard", "answer"},
            override : Selections, force : Forces, regions : SUBSET Regions,
            available : SUBSET Regions, active : SUBSET Regions, collecting : BOOLEAN]

NoData == [mode |-> "none", regions |-> {}, collecting |-> FALSE, active |-> {}, menu |-> {}]

DemoData == [mode |-> "demo", regions |-> {}, collecting |-> FALSE,
             active |-> DemoRegions, menu |-> DemoRegions]

Idle == [pc |-> "idle", override |-> Null, force |-> "no", regions |-> {},
         available |-> {}, active |-> {}, collecting |-> FALSE]

At(pc) == request.pc = pc

InFlight == request.pc \notin {"closed", "idle"}

Init ==
    /\ selected = Null
    /\ demo = FALSE
    /\ allowed = FALSE
    /\ request = [Idle EXCEPT !.pc = "closed"]
    /\ shown = NoData
    /\ timer = FALSE
    /\ Api!ApiInit
    /\ chosen = Null
    /\ misled = FALSE
    /\ faults = 0
    /\ resting = FALSE

-----------------------------------------------------------------------------
(* Mutant of Pruned: an empty selection is taken for the default one.      *)
PrunedOrDefault(selection, data) ==
    IF selection = Null \/ selection \cap data.menu = {} THEN Null
    ELSE selection \cap data.menu

(* pruneRegionFilter: regions that the data does not know leave the        *)
(* selection, and the default regions are stored as no selection.          *)
Pruned(selection, data) ==
    IF selection = Null \/ selection \cap data.menu = data.active THEN Null
    ELSE selection \cap data.menu

(* Mutant of PollTimer: a timer that runs is cleared, and not set again.   *)
PollTimerOnce(data, inDemo) == data.collecting /\ ~inDemo /\ ~timer

(* scheduleCollectionPoll.                                                 *)
PollTimer(data, inDemo) == data.collecting /\ ~inDemo

(* The data names other regions than the tenancy has.                      *)
Misleading(data) == data.active # Ready \/ data.menu # Subscribed

(* renderDashboard.                                                        *)
Render(data, selection, inDemo) ==
    /\ shown' = data
    /\ selected' = Pruned(selection, data)
    /\ timer' = PollTimer(data, inDemo)
    /\ misled' = (misled \/ Misleading(data))

(* refreshDashboard, up to its first await (in demo mode it has none), in  *)
(* an event that leaves the selection and the timer like this.             *)
Refresh(selection, inDemo, running, override, force) ==
    \/ /\ InFlight
       /\ selected' = selection /\ timer' = running
       /\ UNCHANGED <<request, shown, misled>>
    \/ /\ ~InFlight /\ inDemo
       /\ Render(DemoData, selection, inDemo)
       /\ UNCHANGED request
    \/ /\ ~InFlight /\ ~inDemo
       /\ request' = [Idle EXCEPT !.pc = "lists", !.override = override, !.force = force]
       /\ selected' = selection /\ timer' = running
       /\ UNCHANGED <<shown, misled>>

-----------------------------------------------------------------------------
(* The page is loaded, or loaded again: only the selection survives.       *)
Load(path) ==
    /\ ~resting
    /\ allowed' = path
    /\ demo' = path
    /\ IF path
       THEN Render(DemoData, selected, TRUE) /\ request' = Idle
       ELSE /\ request' = [Idle EXCEPT !.pc = "lists"]
            /\ shown' = NoData
            /\ timer' = FALSE
            /\ UNCHANGED <<selected, misled>>
    /\ UNCHANGED <<feed, chosen, faults, resting>>

(* The user checks or unchecks a region, selects all or applies a saved    *)
(* view.                                                                   *)
Choose(regions) ==
    /\ ~resting /\ ~At("closed")
    /\ chosen' = regions
    /\ Refresh(regions, demo, timer, Null, "no")
    /\ UNCHANGED <<demo, allowed, feed, faults, resting>>

(* The user clears the selection: what is there is rendered again.         *)
ClearAll ==
    /\ ~resting /\ ~At("closed")
    /\ chosen' = {}
    /\ Render(IF shown = NoData THEN DemoData ELSE shown, {}, demo)
    /\ UNCHANGED <<demo, allowed, request, feed, faults, resting>>

(* The user asks for new collections: of everything selected, of a region, *)
(* or of the regions that failed; or for clearing the snapshots as well.   *)
RefreshNow(override, force) ==
    /\ ~resting /\ At("idle")
    /\ ~shown.collecting
    /\ override # Null => ~demo /\ force = "refresh"
    /\ force = "clear" => ~demo
    /\ Refresh(selected, demo, timer, override, force)
    /\ UNCHANGED <<demo, allowed, feed, chosen, faults, resting>>

ToggleDemo ==
    /\ ~resting /\ ~At("closed")
    /\ allowed
    /\ demo' = ~demo
    /\ Refresh(selected, demo', timer, Null, "no")
    /\ UNCHANGED <<allowed, feed, chosen, faults, resting>>

Rest ==
    /\ ~At("closed")
    /\ resting' = TRUE
    /\ UNCHANGED <<selected, demo, allowed, request, shown, timer, feed, chosen, misled,
                   faults>>

(* The timer of the collection poll fires.                                 *)
Poll ==
    /\ timer
    /\ Refresh(selected, demo, FALSE, Null, "no")
    /\ UNCHANGED <<demo, allowed, feed, chosen, faults, resting>>

(* The interval fires.                                                     *)
AutoRefresh ==
    /\ At("idle") /\ ~demo
    /\ Refresh(selected, demo, timer, Null, "no")
    /\ UNCHANGED <<demo, allowed, feed, chosen, faults, resting>>

-----------------------------------------------------------------------------
(* How many faults there are in a choice of lists.                         *)
Fallbacks(available, active) ==
    (IF available = Subscribed THEN 0 ELSE 1) + (IF active = Ready THEN 0 ELSE 1)

Availables == {Subscribed, Known}

Actives == {Ready, Configured}

(* The regions to ask for, once their lists have arrived.                  *)
Asked(active) ==
    IF request.override # Null THEN request.override
    ELSE IF selected = Null THEN active
    ELSE selected

(* The lists of regions arrive, and the dashboard is asked for.            *)
Lists(available, active) ==
    /\ At("lists")
    /\ faults + Fallbacks(available, active) <= MaxFaults
    /\ faults' = faults + Fallbacks(available, active)
    /\ request' = [request EXCEPT !.pc = "dashboard", !.override = Null, !.regions = Asked(active),
                                  !.available = available, !.active = active]
    /\ UNCHANGED <<selected, demo, allowed, shown, timer, feed, chosen, misled, resting>>

(* Mutant of Refreshing: every request is one to refresh, the polls        *)
(* included.                                                               *)
RefreshingAlways(force) == TRUE

Refreshing(force) == force # "no"

(* What the API knows of a region when it answers.                         *)
Found(r, force) == IF force = "clear" THEN Api!Cleared(feed[r]) ELSE feed[r]

Feed(regions, force) ==
    [r \in Regions |-> IF r \in regions THEN Api!Answered(Found(r, force), Refreshing(force))
                       ELSE feed[r]]

StillCollecting(regions, force) ==
    \E r \in regions : ~Api!Finished(Found(r, force), Refreshing(force))

(* The API answers a request for some regions.                             *)
Serve(active) ==
    /\ At("dashboard") /\ request.regions # {}
    /\ faults + Fallbacks(Subscribed, active) <= MaxFaults
    /\ faults' = faults + Fallbacks(Subscribed, active)
    /\ feed' = Feed(request.regions, request.force)
    /\ request' = [request EXCEPT !.pc = "answer", !.force = "no", !.active = active,
                      !.collecting = StillCollecting(request.regions, request.force)]
    /\ UNCHANGED <<selected, demo, allowed, shown, timer, chosen, misled, resting>>

(* Nothing is selected: emptyDashboardData, whose available regions are    *)
(* the active ones.                                                        *)
ServeNothing ==
    /\ At("dashboard") /\ request.regions = {}
    /\ request' = [request EXCEPT !.pc = "answer", !.force = "no",
                                  !.available = request.active]
    /\ UNCHANGED <<selected, demo, allowed, shown, timer, feed, chosen, misled, faults,
                   resting>>

(* The answer arrives and is rendered.  It has items of some regions.      *)
Deliver(observed) ==
    /\ At("answer")
    /\ observed \subseteq request.regions \cap Subscribed
    /\ Render([mode |-> "api", regions |-> request.regions, collecting |-> request.collecting,
               active |-> request.active,
               menu |-> request.available \cup request.active \cup observed], selected, demo)
    /\ request' = Idle
    /\ UNCHANGED <<demo, allowed, feed, chosen, faults, resting>>

(* A request of the call fails.                                            *)
Fail ==
    /\ InFlight
    /\ faults < MaxFaults
    /\ faults' = faults + 1
    /\ Render(DemoData, selected, demo)
    /\ request' = Idle
    /\ UNCHANGED <<demo, allowed, feed, chosen, resting>>

(* A collection ends.                                                      *)
Finish(r) ==
    /\ Api!Finish(r, "fresh")
    /\ UNCHANGED <<selected, demo, allowed, request, shown, timer, chosen, misled, faults,
                   resting>>

(* What the API has of a region becomes stale.  Snapshots live longer than *)
(* polls take: none becomes stale while the page polls.                    *)
Expire(r) ==
    /\ ~shown.collecting /\ ~InFlight
    /\ feed' = [feed EXCEPT ![r].fresh = FALSE,
                            ![r].job = IF @ = "fresh" THEN "stale" ELSE @]
    /\ UNCHANGED <<selected, demo, allowed, request, shown, timer, chosen, misled, faults,
                   resting>>

(* The API restarts: snapshots survive in their files, collections do not. *)
Restart ==
    /\ faults < MaxFaults
    /\ faults' = faults + 1
    /\ Api!Restart
    /\ UNCHANGED <<selected, demo, allowed, request, shown, timer, chosen, misled, resting>>

Call ==
    \/ \E available \in Availables, active \in Actives : Lists(available, active)
    \/ \E active \in Actives : Serve(active)
    \/ ServeNothing
    \/ \E observed \in SUBSET Regions : Deliver(observed)

Next ==
    \/ \E path \in Paths : Load(path)
    \/ ClearAll \/ ToggleDemo \/ Rest
    \/ \E regions \in SUBSET shown.menu : Choose(regions)
    \/ \E override \in ((SUBSET shown.regions) \ {{}}) \cup {Null} :
          \E force \in {"refresh", "clear"} : RefreshNow(override, force)
    \/ Poll \/ AutoRefresh
    \/ Call \/ Fail \/ Restart
    \/ \E r \in Regions : Finish(r) \/ Expire(r)

Spec == Init /\ [][Next]_vars

-----------------------------------------------------------------------------
TypeOK ==
    /\ selected \in Selections /\ chosen \in Selections
    /\ demo \in BOOLEAN /\ allowed \in BOOLEAN /\ timer \in BOOLEAN
    /\ misled \in BOOLEAN /\ resting \in BOOLEAN
    /\ request \in Request
    /\ shown \in Data
    /\ feed \in [Regions -> Api!Statuses]
    /\ faults \in 0 .. MaxFaults

(* While no call is under way, a poll is scheduled if and only if the page *)
(* shows a collection that goes on (docs/api-reference.md:101, "The UI     *)
(* polls ... until status is no longer collecting"), whatever timers, the  *)
(* interval and the user did during earlier calls, many of which return at *)
(* once because of another one.                                            *)
PollsWhileCollecting == At("idle") => (timer <=> shown.collecting /\ ~demo)

(* The regions that are selected.                                          *)
Effective == IF selected = Null THEN shown.active ELSE selected

ScopeIsChosen == chosen # Null /\ shown.mode # "none" => Effective = chosen

(* As long as the page has only rendered data with the regions of the      *)
(* tenancy, what is selected is what the user selected, whatever answers   *)
(* and renderings came since.                                              *)
ScopeIsKept == ~misled => ScopeIsChosen

-----------------------------------------------------------------------------
(* Fairness.  The browser runs timers, the API answers and its collections *)
(* end; the interval only counts while the page is visible, which it is    *)
(* again and again.                                                        *)
Fairness ==
    /\ WF_vars(Call) /\ WF_vars(Poll) /\ WF_vars(AutoRefresh)
    /\ \A r \in Regions : WF_vars(Finish(r))

LiveSpec == Spec /\ Fairness

UpToDate ==
    /\ shown.mode = "api" /\ ~shown.collecting
    /\ shown.regions = IF selected = Null THEN Ready ELSE selected

(* Once the user rests, the page again and again shows finished data of    *)
(* the regions that are selected, although calls of refreshDashboard that  *)
(* find another one under way are dropped with the selection they were for.*)
PageCatchesUp == resting /\ ~demo ~> UpToDate

(* docs/architecture.md:148, "dashboard stores current scope and optional  *)
(* saved views in localStorage": what is selected is what the user         *)
(* selected last.                                                          *)
ScopeIsStored == ScopeIsChosen
=============================================================================

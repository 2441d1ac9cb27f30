# Meridian Network: specifications, model checks and proofs

TLA+ modules for the parts of Meridian Network whose correctness depends on the
order of steps, on faults and on restarts; TLC configurations that check them
on small instances; and proofs, checked by TLAPS, of what holds for every
instance. Paths below are relative to the repository.

## 1. The system

Meridian Network shows the network inventory of an OCI tenancy. One uvicorn
process (`ansible/templates/meridian-api.service.j2`, restarted by systemd)
runs the FastAPI application of `backend/app`. Its handlers are synchronous
functions, so they run at once on the threads of the server's pool and share
the module-level state of the process. The browser page
`oci_network_monitor_dashboard_v2.html` polls it.

| Component | State | Operations | Talks to |
|---|---|---|---|
| Dashboard collection cache, `routers/network.py` | snapshots in memory and in files, table of jobs, executor with its queue, one lock | poll, poll with `refresh`, poll with `clear_cache`; collection by a worker; restart | inventory (called by its jobs), browser (polls) |
| Network inventory, `services/network_inventory.py` | per request: list of collection issues, cache of listings, scope caches | list a resource type, reset, report issues | OCI; called by cache, routes, posture, export |
| Traffic telemetry, `services/traffic_telemetry.py`, sweeper in `main.py` | JSON file of leases; Flow Logs in OCI | enable, disable, status (each begins with a sweep), sweep, search | OCI Logging; inventory for the VCNs |
| Security action history, `services/security_actions.py` | one object in Object Storage | POST an action, GET the history | OCI Object Storage |
| Route analysis, `services/route_analysis.py`; security posture, `services/security_posture.py`; topology, `get_topology` | none | list a region, derive issues, findings, a graph | inventory |
| Connectivity checks, `services/connectivity.py` | one work request per call, in OCI; the check that the page shows | start a path analysis, poll it until a deadline; the page starts and shows checks | OCI, behind nginx |
| Preflight, `services/preflight.py` | none | probe every listing in every compartment of the settings, reduce to one status | OCI |
| Regions, compartments, scope, export, health | none, or memos of one request | read and format | OCI, inventory |
| Dashboard response, `_aggregate_dashboard_snapshots` and `_dashboard_completeness` of `routers/network.py` | none | merge the snapshots of a request, report warnings, failed and empty regions | cache, inventory |
| Browser page, `oci_network_monitor_dashboard_v2.html` | selection (also in localStorage), last data, call under way, poll timer | refresh, poll with back-off, interval, choose regions, toggle demo data, check connectivity, validate access, submit actions | API |
| Terraform, Ansible, build scripts | none while the system runs | provisioning | |

What is hard in it:

* **Concurrency.** The cache has a lock, but the executor takes none: a
  collection may finish between any two lines of a handler, in particular
  between the two calls of `job.done()` (`network.py:319` and `:333`). The jobs
  of one request share one inventory service and its issue list. The leases are
  read and written back under two separate holds of a lock. The action history
  is read, extended and written back under none. The page's timers, interval
  and user all call `refreshDashboard`, which returns at once while another
  call waits for an answer.
* **Failure.** Calls to OCI fail, files cannot be read or written, the process
  dies between any two steps; many handlers swallow the exception and go on.
* **Reading while the system changes.** A request lists a region type by type,
  compartment by compartment, page by page. What it reports combines answers of
  different moments, some of which are missing because their call failed.
* **Time.** Snapshots have a time to live and leases expire, while operations
  that read them are still running. A connectivity check polls for a limited
  time, with calls that take time themselves.

What makes each part correct:

* cache: no key is collected twice at once; no collection is lost track of;
  what is in memory survives a restart; no client goes back in time; a polled
  key is answered in the end;
* inventory: a region is warned about for its own failures, and for all of
  them; all tables and findings of a snapshot come from the same listings;
* response: what it warns of did fail, "ready" hides no failure, and a region
  that is counted as empty is;
* reports: what is called missing was missing, what is called good was good, an
  open port is found, and the issues and the graph do not contradict each other;
* telemetry: every log that ingests has a lease, every lease is honoured until
  it expires and cleaned up afterwards, and where a fault breaks that, only for
  the log it hit;
* action history: what was answered is kept, in order, once;
* connectivity checks: a verdict is that of what OCI told of a path, a handler
  returns in a known time, and its answer is the one that is shown;
* preflight: if it passes, what a collection lists may be listed;
* page: it polls as long as it shows a collection and no longer, it keeps what
  the user selected, and it ends up showing finished data of that.

`PROJECT.json` lists every component with its status, and the hazards of the
code, each at its line, with the properties aimed at it.

## 2. Modules

| Module | Stands for | Composed with |
|---|---|---|
| `SnapshotCache` | the asynchronous path of `network.py` | instantiates `SnapshotFeed` and `DashboardApi` |
| `SnapshotFeed` | abstract: a durable cell per key and at most one collection | |
| `DashboardApi` | abstract: what a poll is answered, from a status per key | implemented by `SnapshotCache`, used by `DashboardPage` |
| `RegionCollection` | the jobs of one request over one `NetworkInventoryService` | |
| `DashboardResponse` | the merged response and its completeness report | extends `RegionCollection` |
| `Inventory` | the records of the resources of a region | |
| `RouteAnalysis`, `SecurityPosture`, `TopologyGraph` | operators: issues of a route table, findings of a security list or group, graph | extend `Inventory` |
| `InventoryReports` | what one request reads of a tenancy that changes, and its reports | extends the three |
| `TelemetryLeases` | requests, sweeps and the sweeper's thread over file and Flow Logs | instantiates `LeaseBook` |
| `LeaseBook` | abstract: leases and logs that change together | |
| `ActionLog` | overlapping POSTs of security actions | |
| `DashboardPage` | the page's calls, timers and selection | instantiates `DashboardApi` |
| `Settings` | the settings that scope the calls to OCI | |
| `ConnectivityCheck` | handlers of connectivity checks, their work requests, and the panel of the page | extends `Settings` |
| `Preflight` | the validation of access, and policies that change | extends `Settings` |
| `MC...` | constants and symmetry for TLC; `MCDiagnostics` puts the last two side by side | |
| `...Proofs` | theorems and their proofs | |

### SnapshotCache

A snapshot is reduced to its age and to whether the collection failed; its
contents, and the resource counts in its row, change nothing in the protocol.
Ages are counted in ticks and stop one above the time to live, where "fresh"
(`_snapshot_is_fresh`) no longer changes. `disk` is what
`_read_persistent_snapshot` would return: a torn or missing file is `NoSnap`.

A request takes the lock (`Enter`) and walks its regions. For each it first
harvests a finished job (`Harvest`, then `WriteFile` for the second half of
`_write_persistent_snapshot`), or clears the key (`Clear`), or finds no
finished job (`NotDone`); then it serves a fresh snapshot (`ServeFresh`) or
serves a stale one, or none, and starts a collection unless one is running
(`ServeCollecting`). `Respond` releases the lock. These are separate actions
because the executor (`WorkerTake`, `WorkerFinish`), the clock (`Tick`) and a
crash can come in between. `_collect` catches every exception and returns a
failed snapshot, so `job.result()` on line 323 never raises and the branch on
lines 324-325 is dead; it is not modelled. A future that nothing refers to is
made available again, so that a few identities suffice for runs of any length.

### SnapshotFeed and DashboardApi

Two abstract specifications of the cache, each from one side. `SnapshotFeed`
keeps snapshots: a cell per key, which is memory or else the file, and the
outcome of a collection that nobody has asked about yet. Installing is one
step there, and a restart keeps the cells; if the process may die in the midst
of a write (`TornWrites`), it costs one cell.

`DashboardApi` is the cache as the page sees it: per key whether there is a
fresh snapshot, and whether a collection runs or has ended. Its operators
`Finished` and `Answered` give the answer to a poll and the status afterwards.
It joins the two halves of the project: `SnapshotCache` implements it
(`ImplementsApi`, which says also that each region is answered as `Finished`
says), and `DashboardPage` uses it, so that what the page is told of a region is
what the cache does. That the page takes a poll of several regions as one step,
where the cache asks for them one after the other, is an abstraction of the
page's module. The mapping has one subtle place: a collection that ends after
a handler has asked for the first time whether it is done counts as running
until that handler is through with the region (`Unseen`). Then it ends for `DashboardApi` too, or the handler has put
the next one in its place and the key never stopped collecting
(`CompletedIsInstalled` is violated there). `LostOnlyIfUnseen` says that no
other result is lost but by clearing and restarts.

### RegionCollection

The requests for a region's tables, the route issues, the topology and the
posture are one sequence of listings, `Plan`. A listing is reduced to whether
it has items. A job clears the shared issues and the shared cache (`Start`),
answers each listing from the cache (`ListCached`) or from OCI (`Fetch`,
`Store`), and takes the issues that are in the list at the end (`Report`).
`Fetch` may report an issue and still have items: a listing covers several
compartments, and one of them may fail. `seen`,
`failed` and `disturbed` (the jobs during which another one has started) are
history variables. The first listing of a type is the one the tables show. An
exception at any point ends the job with `_failed_dashboard_snapshot` (`Break`):
no items and one issue, of type `*`. A client that cannot be made for a region
is a listing that failed.

### DashboardResponse

A response is a function of the snapshots the API has when it is polled, so
this module adds operators to `RegionCollection` and no variables. `have` is
the set of regions of which there is a snapshot, `refreshing` those of them
that are being collected anew; the properties quantify over both, in every
state of the jobs. Issues are a set, of which `_dashboard_completeness` asks
here only whether a region has any: its `warning_count` counts an issue once
for the row, once for each snapshot that carries it, and so at least twice.
Tables, route issues, findings and topology graphs of several regions are
concatenated, which is not modelled; those of one region are in
`InventoryReports`. `FailedRegions` is there for completeness of the report.

### InventoryReports

`RouteAnalysis`, `SecurityPosture` and `TopologyGraph` translate the functions
that derive reports from listed resources. Issues, findings and edges are sets;
their counts, names and wording are left out. `TableIssues` looks at the rules
of a table in their order (a rule repeats an earlier one). `RouteStatus` never
is "critical", as no issue of a route is. `Ports` follows `_security_rule`: the
ports of a rule are its source ports if it has no destination ports.

`InventoryReports` puts them over a request that reads the region. A request
goes through the kinds of its plan in order (`Turn`): all kinds for the
dashboard and the topology, route tables before gateways for the route issues,
lists before groups for the posture. Within a kind resources are read one by
one (`Read`), as compartments are asked by several threads and pages come one
after the other: a resource is read as it is at that moment (`Answer`), or its
call fails and the kind gets a collection issue. A failing call usually hides
several resources, which is several `Read` steps that fail; the bound counts
kinds. The rules of a group need a second call (`ReadWithoutRules` when it
fails). Between any two steps a resource may be created, changed or deleted
(`Change`); VCNs that are in use are not deleted. `focus` is the parameter
`vcn_id`: it keeps out gateways without a VCN, so that routes to them are
reported as unresolved, which `UnresolvedIsMissing` has to except.

`gone`, `up` and `changed` are history variables. They are needed because a
report about a region that changes can only be true of some moment since the
request began, and of a different moment for each of its sentences.

### TelemetryLeases

Every request begins with a sweep of its own, so `BeginSweep`, `SweepDisable`,
`SweepDelete` and `SweepEnd` are steps of request threads and of the sweeper's
thread alike. `_load_leases` and `_save_leases` are one step each, as
`_LEASE_LOCK` is held for one of them at a time. The lease records are a set:
the code appends to a list and never looks at the order. `left` is the number
of ticks until `expires_at`. `Create` covers the log group, the capture filter
and the log; the first two are never deleted and matter to no property. It is
assumed that live OCI access and enablement are switched on; otherwise the
service does nothing. An exception ends the sweeper's thread (`dead`) and only
the request on other threads. A crash ends all threads (`down`) at any step,
and may tear a file that is being written; `Restart` starts them again.

Every call to OCI may fail without effect, or take effect and its answer be
lost: `create_log` and the `update_log` of a request, whose exceptions the loop
over the VCNs catches (`traffic_telemetry.py:131` and `:175`), and both calls of
a sweep. `create_log` may also answer without an id, or a log be found without
one; then `_record_lease` returns at once (`:685`) and the item is reported as
enabled (`LoadLeases`). A file that cannot be read counts as empty, and the next
writing makes that final. A writing that fails may have truncated the file
(`Losses`), like one that the death of the process cuts short.

`orderly` is a history variable: so far no operation began while another one
ran. The code promises that a log and its lease go together only then, and the
properties that say so have it as a premise. They say nothing about operations
that overlap: what goes wrong there is under "Checks". `unrecorded` is the other
history variable: the logs that a fault has put at odds with the file, each
added at the step of the fault, and removed when a later request records or
drops a lease of it or the log is deleted. It is precise: the
properties except these logs one by one, so that they say that no fault harms a
log that it did not hit, that a retry mends the log of its VCN, and that all
others stay leased, honoured and cleaned up.

`LeaseBook` is what a user may rely on: a log and its lease change in one
step, a lease that has not expired is touched only by a request to disable its
log, and an expired one is crossed out when its log is gone. Where a fault
makes the book miss a change (`Miss`) or lose its entries (`Lose`, or together
with a change), the logs concerned are on its list `missed`. The
implementation needs many calls for each of these. The mapping hides a log that
was created until its lease is in the file (`ToBeLeased`), and shows a log that
a request has switched off as ingesting until its lease is dropped
(`ToBeDropped`), or until it has become sure that this will not happen. It is a
refinement only while operations do not overlap: `ImplementsBook` asks nothing
of a step after which `orderly` is false.

### ActionLog

One line per action, `object` the sequence of lines. `Download` returns the
object or, if it fails, nothing. A put replaces the object as a whole; an
upload may fail with or without effect. `before`, `answered` and `alone` are
history variables; `alone` says that so far no two posts have overlapped and no
download has failed. The archive is assumed enabled; otherwise nothing is kept.

### DashboardPage

A call of `refreshDashboard` goes through three waits: for the lists of regions
(`Lists`), for the dashboard (`Serve` when the API answers, `Deliver` when the
page gets it), or it fails at any of them (`Fail`), which renders `DEMO_DATA`.
A call that finds another one under way returns at once (the first disjunct of
`Refresh`). What `renderDashboard` does that lasts is one operator, `Render`:
it keeps the data, prunes and stores the selection (`Pruned`), and sets or
clears the poll timer (`PollTimer`). `null`, the selection that stands for the
default regions, is `Null`. `clearAll` renders without calling the API.

The API is `DashboardApi` for one browser, whose keys are its regions: a poll
after a refresh is answered with the fresh old snapshot while the collection
that the refresh started still runs, so that the page shows finished data that
is older than the user asked for, until it polls again. The API may restart
(`Restart`), which loses its collections and counts as a fault. No file is
torn here; a torn file is, to the page, a snapshot that has become stale.
`list_available` and `list_active` answer with the subscriptions or,
if these cannot be listed, with the regions of the settings; each of the three
requests that use them may get the other answer, and each such answer, like
each failed request, counts against `MaxFaults`. The answer may have items
of subscribed regions that no list names (`observed`). The page may be loaded
anew at any time, at `/` or at `/demodata`, which share localStorage.

`chosen` and `misled` are history variables: what the user selected last, and
whether anything rendered named other regions than the tenancy's.

### ConnectivityCheck

A click numbers its check and sends its request (`Click`); the handler goes
through the calls of `ConnectivityService.check` (`Accept`, `Submit`, `Poll`,
`ListErrors`, `ListResults`), while the analysis ends or not (`Analyze`) and
the network changes (`ChangeNetwork`). An endpoint, a protocol and a port are
reduced to the paths between the endpoints, each to the directions in which it
is open. OCI may list any of the paths first, and that is the one that is read
(`connectivity.py:206`). Of each of its two routes the answer says that it is
reachable, unreachable, indeterminate, or nothing: because the direction was not
asked for, or because OCI gives no route or no status. `RouteStatuses` is
`route_statuses`, from which missing ones are filtered out; `Verdict` is
"reachable" if there is one and no other. So `VerdictsAreTrue` says of
"reachable" only that a path was open in the directions for which a status is
shown: a check of both directions is called reachable when OCI gave a status
for the forward route alone. "blocked" may also mean that OCI could not tell,
as the message says ("a blocked or incomplete path"). It is assumed that what
OCI does say of a path is right when the analysis reads it.

`elapsed` is the time since the handler got its client, which the code compares
with `deadline`, and `spent` the time since its present call began. A call ends
within `CallTime`: the client's timeouts are 5 s and 10 s
(`vn_monitoring_client`), the SDK does not retry unless told to, and one second
of sleep follows a poll. `HandlersReturnInTime` gives the bound that the
deadline of 20 s really sets, for any `CallTime` and `Wait`: with the numbers of
the code polling ends within 15 + 20 + 16 = 51 s, and the handler returns within
66 s, as the errors or results are listed after that. The time before is not
bounded by the code: each request makes its own client factory, client and
signer (`dependencies.py:17`, `connectivity.py:47`, `oci_clients.py:28-43`), and
an instance principal's signer asks for a token over the network. nginx waits
for 60 s for all of that (`proxy_read_timeout` is not set), so an answer may
come after it has given up. The page then shows the check as failed, and the
handler goes on (`Lose`); no property says that this cannot happen.

The page renders as soon as "checking" is set, and rendering enables the button
again, so a second check can be started, and refreshes of the dashboard take
place (`Refresh`, `FallBack`, `Redraw`). `shown` is the global variable
`connectivityCheck` and what the page renders; `sample` is the check of
`DEMO_DATA`, which is one object that is written to while it is rendered
(`Write`). "failed" stands for "service_limit" too. Switching to demo data is
not in this module.

`seen` and `latest` are history variables: an answer about a network that
changes can only be true of a path that there was at some moment since the check
began, and the page promises to show a check only as long as no other one is
started.

### Preflight

A request probes the tenancy, region by region, compartment by compartment,
listing by listing (`MakeIdentityClient`, `ListCompartments`,
`MakeNetworkClient`, `Probe`, `Conclude`), in any order, as no probe depends on
another one but the rules of a group, which need a group. Its local state is
what is still to be probed and whether anything has failed. A call that is
granted may fail; one that is not granted fails. `policy` and `inspects` are
what the policies of the tenancy grant to Meridian; policies are attached to a
compartment and hold in those below it, of which the model has one level.
`CompartmentScope` is what a collection lists, `_compartment_scope` of
`network_inventory.py`, for any compartments that are discovered.

`PassIsReliable` excepts the rules of groups when no compartment that was
probed has a group, for then the listing of rules is never tried, and changes
of policies after the validation began. Listings that the installed SDK does not
have are "skipped" and do not count. No check ever has the status "warn", which
`_summary_status` looks for.

## 3. Checks

Runs that pass:

| Run | Question | Bounds |
|---|---|---|
| `cache_safety` | one collection per key, files back memory, no client goes back in time, only a result that came too late for a handler is lost, the cache implements `SnapshotFeed` and `DashboardApi` | 2 keys polled singly and together, 2 handler threads, 3 futures, 1 worker, TTL 1, a crash at any point, in the midst of a write as well |
| `cache_live` | no collection is lost track of, and a polled key is answered in the end, with a collection that did not fail once collections stop failing; although files fail and tear | 1 key (also named twice in a request), 2 handlers, 2 futures, TTL 0, a crash |
| `collection_shared` | no region is blamed for another; one view of each type and complete warnings while no other job starts; warnings, "ready" and zero in every response mean what they say | 2 regions, 2 types, 5 listings |
| `leases_settle` | the file names no VCN and no log twice, and leases in the file are cleaned up as long as the sweeper lives, with every fault; as long as operations do not overlap, logs that ingest are leased, leases are honoured, and no log ingests for ever, but for logs that a fault left unrecorded, and the service implements `LeaseBook` | 2 VCNs, 2 logs, leases of 1 tick, 1 request thread and the sweeper, any number of crashes |
| `inventory_reports` | what route issues, posture and graph say is true of the region, and they agree | 2 VCNs, 1 subnet, 2 gateways, 1 table of up to 2 rules, 1 list, 1 group, 1 change, calls of 1 kind fail |
| `actions_posts` | the history is in order and repeats nothing, with every fault; while posts are alone it only grows and keeps every answered action | 4 actions, 2 threads, a crash |
| `diagnostics` | verdicts are those of what OCI told of a path, handlers return in time, every check returns and is shown; a validation that passes is reliable | 2 clicks or changes of the network, calls of 1 tick, wait 1; 2 compartments, 2 regions, 2 kinds of listings and rules, 1 change of policies |
| `page_follows` | polls exactly while a collection is shown, the selection is kept, the page catches up with it | 2 regions, 1 of them known to the settings and to `DEMO_DATA`; loads at `/` and at `/demodata`; 1 fault |

Why these bounds are enough to be interesting: the lock of the cache serialises
handlers, so two of them show every interleaving of a handler with a waiting
one; three futures allow a running collection for each key and a finished one
that was replaced; one worker makes the queue matter. Two keys show that keys
do not disturb each other and that one request may start several collections.
With `TTL = 1` a snapshot may be new, fresh, or stale. `RegionCollection` needs
a type that is listed twice before and after another job starts; the short plan
has one that is listed three times. Two request threads are needed for two
logs of one VCN (`leases_race`); for the other properties the sweeper is the
second actor. Four actions on two threads give every overlap of a post with two
successive others. For the reports one resource
of each kind is enough, as no report compares two tables, lists or gateways with
each other; two gateways let a table have a good and a bad rule. The tenancies a
run starts from are split into those with any table and those with any rules of
a guard, as no report reads both; the ranges of ports end at, before and behind
22 and 3389. Two regions give the page every relation of a selection to
the default one; with three regions, other sets of known regions and two faults
(1.3 million states) the same properties hold.

In `diagnostics` each behaviour uses one of the two tools. Its checks start from
settings that name no compartment (the request still may name one), live or
not, and from one path that is open in the forward direction; a change gives the
network any set of paths. Its
validations from all settings but those that differ in the name of a
compartment, with groups nowhere, in the tenancy's root or in all compartments
below it. `MaxEvents` counts clicks and changes of the network together: two of
them give two overlapping checks, or one and a network that changes before or
under it.

Symmetry is used in runs that check invariants, action properties and the
refinement of specifications without fairness, never in liveness runs.

Runs that are expected to find a violation, each a disagreement of the code
with a text of the repository (quoted in `PROJECT.json`, "findings"):

| Run | Property | What happens |
|---|---|---|
| `cache_lost` | `CompletedIsInstalled` | a job finishes between the two calls of `done()`; its result is dropped |
| `collection_lost` | `FailuresAreReported` | a job clears the issues of another one of the same request |
| `leases_race` | `IngestionStops` | two enables of one VCN create two logs and keep one lease |
| `page_scope` | `ScopeIsStored` | a request fails, `DEMO_DATA` is rendered, and the stored selection loses the regions it does not know |

Other instances of the same modules show the same properties to depend on what
their comments say. They are not among the runs; each is one changed constant or a dropped condition:

* `EnabledLogsAreLeased`, `LeasesAreHonoured` and `IngestionStopsIfOrderly`
  need `orderly`. If operations overlap, a sweep switches off a log whose lease
  a request has just extended, a lease recorded between the reading and the
  writing of another thread is lost, and two requests create two logs
  (`leases_race`). Under overlap only `UniqueLeases` and `LeasesSettle` hold;
* the same properties need `unrecorded`. If the process dies after `create_log`
  and before the lease is recorded, if the answer is lost or names no log, or
  the file fails then, the log ingests until someone enables or disables its VCN
  again; if `update_log` is answered by nothing, its lease stays although the
  log is off;
* `LeasesSettle` without its condition that the sweeper's thread is alive: one
  failing save ends that thread, and nothing but a request sweeps any more;
* `AnswerIsShown` needs that no other check is under way: of two that overlap
  the answer that arrives last is shown, whichever was started last;
* `ImplementsFeed`, `ImplementsApi` and `NeverShowsOlder` need files that can be
  written: if a file fails, the memory and the file of a key differ, and a
  restart brings an old snapshot back.

`RetainedWhileAlone` and `ArchiveWhileAlone` need `alone`: without it TLC finds
two posts that start from the same history, of which the later upload drops the
action of the earlier one (`docs/operations.md:120` has the archive "retain
security finding action history"), and a download that fails and is taken for
an empty history. `ScopeIsKept` needs `misled` for more than `DEMO_DATA`: if
subscriptions cannot be listed once, the page prunes the selection to the
regions the settings know, or takes a selection that equals them for the
default one, which then widens to all regions.

`PostureIsComplete` excepts rules that have a range of source ports only:
`_security_rule` takes it for the destination ports, so a TCP rule that is open
for all destinations and names source ports from 1024 upwards yields no finding
about SSH. A rule that lets anyone reach SSH and RDP gives the finding about
SSH only. With no VCN listed, `get_topology` filters nothing.

Other things the modules make plain without a property: a poll with `refresh`
that finds a finished job serves its result, however old, as complete
(`Harvest` does not look at `refresh`; `network.py:211` says "Force a background
refresh for the requested regions."), and a snapshot read from disk is served
as complete while it is fresh (`ServeFresh`; `docs/architecture.md:161` says
"return stale snapshot and refresh in background"). Disabling telemetry drops
the lease of a log that is switched off and never deleted (`Disable`,
`SaveLeases`; `docs/api-reference.md:196` says "removes"). A response never has
the status "failed" (`CollectionStatus`; `docs/api-reference.md:82` lists it):
if all collections failed it is "ready_with_warnings". A region whose row is
"ready" may be among the regions with warnings (`WarningRegions`): with three
regions, the snapshot of another region can carry an issue that the region's
own snapshot lost when a third job started. A page on `/demodata`
that is toggled to demo data while a call waits shows the live data of that
call, and polls no more (`ToggleDemo`, `Deliver`).

After a fallback the page shows the check of `DEMO_DATA` in place of the one
that was shown (`FallBack`). A check that is answered then, or started (the
button is enabled by the answer of an earlier one), is written into `DEMO_DATA`
and comes back with the next fallback, even as "checking" with no check under
way (`Write`). `docs/api-reference.md:177` says of `reachable` that it is
boolean only for a final path answer; an analysis that failed is answered with
`false`. The advice to rerun a check "to retrieve a completed path analysis
result" (`connectivity.py:83`) starts a new analysis: the old work request is
not looked at again (`Answer`).

Operators described as mutants in the modules (`EnterUnlocked`, `Unclamped`,
`Doubled`, ...) are plausible bugs: with one of them in place of the definition
that follows it, the property named in `PROJECT.json` fails. They are used by
no specification.

### Fairness

*Cache.* A handler thread that runs keeps running (WF on its steps). The page
polls until a key is no longer collecting, and a poll is not shut out of the
lock for ever (SF on `Poll(k)`). The executor takes queued work and each
collection returns, as the SDK's calls time out. Time passes (WF on `Tick`), so
that snapshots become stale. This is strong fairness of the
executor's steps *while no handler holds the lock*: a handler holds it for
moments, and polls are 3 to 15 seconds apart. Weak fairness would not do, and
shows why: an executor that always finishes between the two calls of `done()`
has every result dropped (`cache_lost`). Crashes are bounded.

*Leases.* The sweeper's thread keeps running and wakes up again and again (WF),
time passes (WF), and neither the file nor OCI fails for ever when the sweeper
reads it or asks it to switch off or delete one log (SF on the succeeding
steps). Nothing is asked of the threads of requests. That requests stop and
that the sweeper's thread is alive are premises of `LeasesSettle` and
`IngestionStopsIfOrderly` and not assumed: a failing save ends that thread.

*Checks.* A handler that runs keeps running, and OCI answers it or the client
times out (WF on `Handle`); time passes; the page gets an answer or an error
(WF on `Receive \/ Lose`). The path analysis may never end.

*Page.* The browser runs a timer that is due, requests are answered, and
collections end (WF). The interval only counts while the page is visible; it is
assumed to be so again and again (WF on `AutoRefresh`). Requests fail a bounded
number of times. A snapshot lives for 900 s and polls are at most 15 s apart,
so no snapshot becomes stale between two polls of one collection (`Expire` is
disabled while the page polls).

## 4. Proofs

The theorems hold for every value of the constants that satisfies the named
assumptions of the modules; the faults are constants, so a theorem that does
not exclude them holds with them.

| Theorem | Says | Assumes |
|---|---|---|
| `SnapshotCacheProofs!TypeCorrectness` | `TypeOK` | |
| `SnapshotCacheProofs!SingleFlight` | `OneCollectionPerKey` | |
| `SnapshotCacheProofs!NoOrphans` | `NoOrphanJob` | |
| `SnapshotCacheProofs!Durability` | `DiskBacksMemory` | `~DiskFaults` |
| `SnapshotCacheProofs!LostUnseen` | `LostOnlyIfUnseen` | |
| `SnapshotCacheProofs!WorkIsBounded` | never more collections under way, or queued, than keys | finitely many keys |
| `SnapshotFeedProofs!Refinement` | `ImplementsFeed` | `~DiskFaults` |
| `SnapshotFeedProofs!ApiRefinement` | `ImplementsApi` | `~DiskFaults` |
| `SnapshotFeedProofs!NeverOlder` | `NeverShowsOlder` | `~DiskFaults` |
| `DashboardResponseProofs!CollectionTypes` | `TypeOK` | |
| `DashboardResponseProofs!NobodyElseBlamed` | `NoForeignBlame` | |
| `DashboardResponseProofs!UndisturbedView` | `OneView` | |
| `DashboardResponseProofs!UndisturbedWarnings` | `UndisturbedReports` | |
| `InventoryReportsProofs!ReportTypes` | `TypeOK` | |
| `InventoryReportsProofs!UnresolvedIsTrue` | `UnresolvedIsMissing` | |
| `InventoryReportsProofs!GoodStatusIsTrue` | `GoodStatusIsEarned` | |
| `InventoryReportsProofs!PostureComplete` | `PostureIsComplete` | |
| `InventoryReportsProofs!RoutesDrawn` | `RoutesAreDrawn` | |
| `InventoryReportsProofs!WholeGraph` | `GraphIsWhole` | |
| `TelemetryLeasesProofs!LeaseTypes` | `TypeOK` | |
| `TelemetryLeasesProofs!LeasesAreUnique` | `UniqueLeases` | |
| `TelemetryLeasesProofs!OrderedLogsAreLeased` | `EnabledLogsAreLeased` | |
| `TelemetryLeasesProofs!OrderedLeasesAreHonoured` | `LeasesAreHonoured` | |
| `TelemetryLeasesProofs!BookRefinement` | `ImplementsBook` | |
| `TelemetryLeasesProofs!SettlingStopsIngestion` | `LeasesSettle => IngestionStopsIfOrderly` | |
| `ActionLogProofs!LogTypes` | `TypeOK` | |
| `ActionLogProofs!OrderIsKept` | `HistoryInOrder` | |
| `ActionLogProofs!AnsweredIsKept` | `RetainedWhileAlone` | |
| `ActionLogProofs!OnlyGrows` | `ArchiveWhileAlone` | |
| `DashboardResponseProofs!WarningsAreCaused` | `WarningsHaveCauses` | |
| `DashboardResponseProofs!ReadyHidesNothing` | `ReadyIsClean` | |
| `DashboardResponseProofs!ZeroIsTrue` | `ZeroIsZero` | |
| `DashboardPageProofs!PageTyped` | `TypeOK` | |
| `DashboardPageProofs!PageAlwaysPolls` | `PollsWhileCollecting` | |
| `DashboardPageProofs!ScopeStaysChosen` | `ScopeIsKept` | |
| `DiagnosticsProofs!CheckTypes` | `CheckTypeOK` | |
| `DiagnosticsProofs!VerdictsTrue` | `VerdictsAreTrue` | |
| `DiagnosticsProofs!HandlersInTime` | `HandlersReturnInTime` | |
| `DiagnosticsProofs!AnswerShown` | `AnswerIsShown` | |
| `DiagnosticsProofs!PreflightTypes` | `PreflightTypeOK` | |
| `DiagnosticsProofs!PassReliable` | `PassIsReliable` | |

The arguments:

* **Cache.** `OneCollectionPerKey` follows from `NoOrphanJob`: a collection in
  flight is the one the table of jobs names. That is inductive only together
  with mutual exclusion (`LockHeld`), the agreement of table, futures and queue
  (`JobsNameFutures`, `QueueHoldsQueued`), and `JobStillNamed`: between the two
  calls of `done()` nobody else touches the entry of the region, so that the
  job that is found still running is the one that is kept. Durability needs
  that a handler that is filling a file has the snapshot in memory. The
  refinement maps `Harvest` to the installation and `WriteFile` to a stutter; a
  crash in between tears at most the file of the one handler that holds the
  lock. `WorkIsBounded` needs only that the keys of the collections under way
  differ: the map from them to keys is an injection, and the queue names each
  of them at most once.
* **API.** One lemma per action of the cache says which step of `DashboardApi` it
  is. Most are stutters, because the status of a key does not tell a snapshot in
  memory from one in a file. `Harvest` asks (the status becomes that of the
  result) and so does `ServeCollecting`; `WorkerFinish` finishes, or stutters if
  the end is unseen, in which case `ServeFresh` finishes in its place and
  `ServeCollecting` leaves the key collecting. That the answers are true needs
  of the invariant that the job a handler has found is the one in the table
  (`JobStillNamed`). `LostUnseen` follows from the same fact: whoever replaces
  a job that is done has found it when it was not.
  `NeverOlder` adds that what memory, file and futures hold for a key is never
  older than what was shown for it, and that every handler past `Clear` works
  on an empty cell.
* **Collection.** `NoForeignBlame` is strengthened to: whatever is in the list
  or in a report has failed. It survives `Start` of any job, as clearing only
  removes. For a job during which no other one starts, the cache holds the one
  answer seen for a type, and the list every failure until it is in the report;
  other jobs that are under way already only add to the list and write entries
  of their own region. `Working` is needed beside it: a listing that is about
  to be stored is not in the cache yet.
* **Reports.** As long as a request is under way, `gone` and `up` cover the
  present (`GoneIsMissing`, `UpIsRunning`), so that a gateway that is asked for
  is read, or in `gone`, or lost to a failure or to the filter (`ReadOrMissing`),
  and one that is read is in `up` (`ListedIsUp`). Without failures and changes
  the listings are what is there of what was asked for (`ListedIsTrue`), which
  at the end of the plan is everything (`AllAsked`). That the graph agrees with
  the route issues needs that nothing is read in two versions (`ListedOnce`)
  and that ids of different kinds differ. The assumptions in `Inventory` and
  `InventoryReports` say that: an id names one thing, of one kind and in one
  VCN, whatever its versions.
* **Leases.** A save replaces the file by what was computed from an earlier
  reading, so the leases every thread has loaded must be unique too. While
  operations do not overlap at most one thread works, and the others hold no
  log; what that thread knows of the file and of its log is up to date at every
  step of it, or its reading of the file has failed and it knows nothing
  (`WorksRight`). At every step the logs that ingest without a lease, and the
  leases that have not expired of logs that do not ingest, are those of the
  thread at work or in `unrecorded`. From this follow `EnabledLogsAreLeased` and
  `LeasesAreHonoured`. `SettlingStopsIngestion` combines the former with
  `LeasesSettle`, which TLC checks: a log that ingests has a lease or is
  unrecorded, so that once no log with a lease ingests, only unrecorded ones do.
  `BookRefinement` takes from the invariant what the thread at work knows, so
  that each of its calls is a step of the book, which a fault may make a `Miss`
  or a `Lose`, or changes nothing that the book shows.
* **Action history.** Likewise the lines in the hands of each thread are in
  order, and the action it adds is in no other hands. As long as posts are
  alone, the lines of the thread that uploads are the object and one more
  action.
* **Response.** The issues of a snapshot are of listings, and of regions, that
  failed, whichever snapshot they are in; only a job that failed has an issue
  of type `*` (`Named`). With `UndisturbedReports` this gives `ReadyIsClean`.
  `ZeroIsZero` needs that the table of a type is one of the answers seen
  (`Tabled`), which with `OneView` is all that was seen.
* **Checks.** When a handler polls, its clock is ahead of its deadline by no more
  than its present call, and the deadline was set at most one call after the
  start (`InTime`). While a check is under way `seen` covers the present, so the
  path that is analysed was seen; OCI's statuses are true of it, and the verdict
  is theirs, in the handler, in what is shown and in the sample (`Earned`).
  `Shows` says that as long as the last check is to be shown, no other one is
  awaited.
* **Validation.** As long as nothing has failed and no policy has changed, every
  listing is granted or still to be probed (`Covered`); a grant in the tenancy
  holds in every compartment, so a scope that is discovered is covered by a
  probe of the root.
* **Page.** Between calls the timer agrees with what was rendered last, since
  every way out of a call renders, and an event that finds a call under way
  leaves the end of that call to set the timer (`PollsWhileCollecting`, with
  the page that is not loaded yet beside it). For `ScopeIsKept`: what the page
  knows of regions, in a call and on the page, is what the tenancy has, and a
  selection within the tenancy's regions is one that `Pruned` does not change
  in meaning.

Left to TLC: the liveness properties (`CollectionCompletes`, `FailuresHeal`,
`LeasesSettle`, `ChecksReturn`, `PageCatchesUp`), which the prover does not
handle; `IngestionStopsIfOrderly` is proved from `LeasesSettle`, and so rests on
TLC as well. Every invariant and action property that a passing run checks is
also proved.

## 5. Not modelled

What could still be added, in the order of its worth:

1. The composition of cache and collection: jobs of several requests, each
   with its own inventory service, over the same keys, so that a response mixes
   snapshots of different collections. Here `SnapshotCache` takes a collection
   as one record of the world and `RegionCollection` takes one request.
2. The scope by resource search (`network_inventory.py:658-767`): the
   compartments that hold network resources, with caches that the reset of an
   inventory does not clear. Two remarks on what it means for the properties
   proved: a compartment that holds gateways, tables or groups but neither a
   VCN nor a subnet is not listed under that scope, so `UnresolvedIsMissing` and
   `GraphIsWhole` speak about the compartments in scope; and a search that fails
   leaves its reduced scope in the cache for the life of the service.
3. The union of the topology graphs of several regions, which keeps the last
   node of an id, and the aggregated statuses "degraded" and "warn" of a
   response.
4. The search of flow records and the per-item results of telemetry requests.
5. The page's saved views, its own security action history and the toggle of
   demo data; the synchronous path of the dashboard.

Out of reach or of no interest here: OCI itself, wording and formatting (CSV,
messages), the client factory, the visual part of the page, Terraform and
Ansible.

## 6. Running

    tlc -workers 2 -config SnapshotCache_safety.cfg MCSnapshotCache
    tlapm SnapshotCacheProofs.tla

`PROJECT.json` has the module and the configuration of every run.

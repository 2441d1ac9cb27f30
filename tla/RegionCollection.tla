-------------------------- MODULE RegionCollection -------------------------
(***************************************************************************)
(* The collections of the regions of one request:                          *)
(* _build_dashboard_snapshot of backend/app/routers/network.py over        *)
(* NetworkInventoryService of backend/app/services/network_inventory.py.   *)
(*                                                                         *)
(* A request makes one NetworkInventoryService, and the jobs it starts for *)
(* its regions all keep it: they share its list of collection issues and   *)
(* its cache of listings, and each job begins by clearing both.  A job     *)
(* lists the resource types in a fixed order, most of them several times   *)
(* (for the tables, the route issues, the topology, the posture).          *)
(*                                                                         *)
(* A listing, of the compartments of the request, is abstracted to whether *)
(* it has items; a compartment that fails adds none, and an issue.         *)
(***************************************************************************)
EXTENDS Naturals, Sequences

CONSTANTS
    Regions,  \* the regions of the request, a job for each
    Types,    \* resource types
    Plan,     \* the listings a job asks for, in their order
    AnyType   \* the type "*" of the issue of a job that failed as a whole

ASSUME PlanAssumption == Plan \in Seq(Types)
ASSUME AnyTypeAssumption == AnyType \notin Types

VARIABLES
    issues,    \* _collection_issues: the region and the type of each
    cache,     \* _inventory_cache
    job,       \* the local variables of each job
    disturbed  \* history: the jobs during which another one has started

vars == <<issues, cache, job, disturbed>>

Listings == {"items", "empty"}

Issues == Regions \X (Types \cup {AnyType})

Job == [pc : {"queued", "listing", "storing", "done", "failed"},
        next : 1 .. Len(Plan) + 1,
        fetched : Listings \cup {"none"},
        first : [Types -> Listings \cup {"none"}],   \* the tables of the snapshot
        seen : [Types -> SUBSET Listings],           \* history: every answer so far
        failed : SUBSET Types,                       \* history: listings that failed
        report : SUBSET Issues]

NoListing == [t \in Types |-> "none"]

Queued == [pc |-> "queued", next |-> 1, fetched |-> "none", first |-> NoListing,
           seen |-> [t \in Types |-> {}], failed |-> {}, report |-> {}]

Init ==
    /\ issues = {}
    /\ cache = [r \in Regions |-> NoListing]
    /\ job = [r \in Regions |-> Queued]
    /\ disturbed = {}

At(r, pc) == job[r].pc = pc

Underway(r) == At(r, "listing") \/ At(r, "storing")

Listed(r) == Plan[job[r].next]

-----------------------------------------------------------------------------
(* reset_collection_issues, for every job that shares the service.         *)
Start(r) ==
    /\ At(r, "queued")
    /\ issues' = {}
    /\ cache' = [s \in Regions |-> NoListing]
    /\ job' = [job EXCEPT ![r].pc = "listing"]
    /\ disturbed' = disturbed \cup {s \in Regions : Underway(s)}

(* The job has the answer to its next listing.                             *)
Answered(r, answer) ==
    job' = [job EXCEPT ![r].pc = "listing",
                       ![r].next = @ + 1,
                       ![r].fetched = "none",
                       ![r].first[Listed(r)] = IF @ = "none" THEN answer ELSE @,
                       ![r].seen[Listed(r)] = @ \cup {answer}]

(* _cached_inventory has the listing.                                      *)
ListCached(r) ==
    /\ At(r, "listing")
    /\ job[r].next <= Len(Plan)
    /\ cache[r][Listed(r)] # "none"
    /\ Answered(r, cache[r][Listed(r)])
    /\ UNCHANGED <<issues, cache, disturbed>>

(* Mutant of NewIssues: the issue is filed under every region of the       *)
(* request.                                                                *)
MisplacedIssues(r) == Regions \X {Listed(r)}

NewIssues(r) == {<<r, Listed(r)>>}

(* It does not: OCI is asked, for each compartment.  _safe_list_all turns  *)
(* the failure of one into an issue and no items; others may still have.   *)
Fetch(r, answer, ok) ==
    /\ At(r, "listing")
    /\ job[r].next <= Len(Plan)
    /\ cache[r][Listed(r)] = "none"
    /\ job' = [job EXCEPT ![r].pc = "storing", ![r].fetched = answer,
                          ![r].failed = IF ok THEN @ ELSE @ \cup {Listed(r)}]
    /\ issues' = IF ok THEN issues ELSE issues \cup NewIssues(r)
    /\ UNCHANGED <<cache, disturbed>>

(* Mutant of Stored: an empty listing is not kept.                         *)
StoredIfItems(answer) == IF answer = "items" THEN answer ELSE "none"

Stored(answer) == answer

(* _store_inventory keeps what was fetched, a failed listing too.          *)
Store(r) ==
    /\ At(r, "storing")
    /\ cache' = [cache EXCEPT ![r][Listed(r)] = Stored(job[r].fetched)]
    /\ Answered(r, job[r].fetched)
    /\ UNCHANGED <<issues, disturbed>>

(* Mutant of Report: only the issues of the last listing are taken.        *)
ReportRecent(r) ==
    /\ At(r, "listing")
    /\ job[r].next = Len(Plan) + 1
    /\ job' = [job EXCEPT ![r].pc = "done", ![r].report = {i \in issues : i[2] = Plan[Len(Plan)]}]
    /\ UNCHANGED <<issues, cache, disturbed>>

(* The snapshot takes the issues that are in the list now.                 *)
Report(r) ==
    /\ At(r, "listing")
    /\ job[r].next = Len(Plan) + 1
    /\ job' = [job EXCEPT ![r].pc = "done", ![r].report = issues]
    /\ UNCHANGED <<issues, cache, disturbed>>

(* An exception ends the job: _failed_dashboard_snapshot, which has no     *)
(* items and one issue.                                                    *)
Break(r) ==
    /\ Underway(r)
    /\ job' = [job EXCEPT ![r].pc = "failed", ![r].first = NoListing,
                          ![r].report = {<<r, AnyType>>}]
    /\ UNCHANGED <<issues, cache, disturbed>>

Collect(r) ==
    \/ Start(r) \/ ListCached(r) \/ Store(r) \/ Report(r) \/ Break(r)
    \/ \E answer \in Listings, ok \in BOOLEAN : Fetch(r, answer, ok)

Done == \A r \in Regions : At(r, "done") \/ At(r, "failed")

Next == (\E r \in Regions : Collect(r)) \/ (Done /\ UNCHANGED vars)

Spec == Init /\ [][Next]_vars

-----------------------------------------------------------------------------
(* The row of the region in the snapshot.                                  *)
OwnIssues(r) == {t \in Types : <<r, t>> \in job[r].report}

HasResources(r) == \E t \in Types : job[r].first[t] = "items"

Status(r) == IF At(r, "failed") THEN "failed"
             ELSE IF OwnIssues(r) # {} THEN "ready_with_warnings"
             ELSE IF HasResources(r) THEN "ready" ELSE "no_resources"

TypeOK ==
    /\ issues \subseteq Issues
    /\ cache \in [Regions -> [Types -> Listings \cup {"none"}]]
    /\ job \in [Regions -> Job]
    /\ disturbed \subseteq Regions

(* However the jobs of a request interleave, a region is warned about only *)
(* for a listing of its own that failed: the list of issues they share     *)
(* never blames one region for another.                                    *)
NoForeignBlame == \A r \in Regions : OwnIssues(r) \subseteq job[r].failed

(* If no other job starts meanwhile, the tables, the topology and the      *)
(* findings of a job are computed from one and the same listing of each    *)
(* type, although OCI might answer differently each time.                  *)
OneView ==
    \A r \in Regions \ disturbed, t \in Types, a, b \in Listings :
        a \in job[r].seen[t] /\ b \in job[r].seen[t] => a = b

Reported(r) == At(r, "done") /\ job[r].failed # {} => Status(r) = "ready_with_warnings"

(* If no other job starts meanwhile, a region of which a listing failed is *)
(* reported with warnings, and not as "ready" or "no_resources".           *)
UndisturbedReports == \A r \in Regions \ disturbed : Reported(r)

(* PROJECT_STATUS.md:36, the status of a region is "ready_with_warnings",  *)
(* and not "ready" or "no_resources", when a listing failed.               *)
FailuresAreReported == \A r \in Regions : Reported(r)
=============================================================================

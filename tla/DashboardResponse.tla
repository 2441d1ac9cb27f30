-------------------------- MODULE DashboardResponse -------------------------
(***************************************************************************)
(* What a client is told while the collections of RegionCollection go on   *)
(* and when they have ended: _aggregate_dashboard_snapshots and            *)
(* _dashboard_completeness of backend/app/routers/network.py.              *)
(*                                                                         *)
(* A response has a row for each region of the request.  It is computed    *)
(* from the snapshots the API has, of the regions in "have", and some of   *)
(* these, "refreshing", are served while the region is collected anew.     *)
(* Every snapshot carries all the issues that were in the list its job     *)
(* shared with the others, those of other regions too.                     *)
(***************************************************************************)
EXTENDS RegionCollection

(* The regions of which there can be a snapshot.                           *)
Collected == {r \in Regions : At(r, "done") \/ At(r, "failed")}

(* The regions whose rows are final.                                       *)
Completed(have, refreshing) == have \ refreshing

Pending(have, refreshing) == Regions \ Completed(have, refreshing)

CollectionIssues(have) == UNION {job[r].report : r \in have}

(* Mutant of CollectionStatus: the rows are asked instead of the issues.   *)
CollectionStatusOfRows(have, refreshing) ==
    IF Pending(have, refreshing) # {} THEN "collecting"
    ELSE IF \E r \in have : Status(r) = "ready_with_warnings" THEN "ready_with_warnings"
    ELSE "ready"

CollectionStatus(have, refreshing) ==
    IF Pending(have, refreshing) # {} THEN "collecting"
    ELSE IF CollectionIssues(have) # {} THEN "ready_with_warnings"
    ELSE "ready"

(* Mutant of WarningRegions: an issue is filed under the region whose      *)
(* snapshot has it.                                                        *)
WarnedSnapshots(have) == {r \in have : job[r].report # {}}

(* The regions with warnings: the issues of all snapshots are filed under  *)
(* the regions they name.  (The issues of a row are among them.)           *)
WarningRegions(have) == {issue[1] : issue \in CollectionIssues(have)}

FailedRegions(have, refreshing) ==
    {r \in Completed(have, refreshing) : Status(r) = "failed"}

(* Mutant of ZeroResourceRegions: regions without a snapshot count too.    *)
ResourcelessRows(have, refreshing) ==
    {r \in Regions \ refreshing : ~(r \in have /\ HasResources(r))}

ZeroResourceRegions(have, refreshing) ==
    {r \in Completed(have, refreshing) : ~HasResources(r) /\ Status(r) # "failed"}

-----------------------------------------------------------------------------
(* Whichever snapshots a response is made of, and whatever other regions'  *)
(* issues they carry, completeness warns only of regions of which a        *)
(* listing, or the whole collection, did fail.                             *)
WarningsHaveCauses ==
    \A have \in SUBSET Collected : \A r \in WarningRegions(have) :
        At(r, "failed") \/ job[r].failed # {}

(* A request that is answered with "ready" is one of which no collection   *)
(* failed, and no listing of a job during which no other one started.      *)
ReadyIsClean ==
    \A have \in SUBSET Collected : \A refreshing \in SUBSET have :
        CollectionStatus(have, refreshing) = "ready" =>
            /\ \A r \in Regions : At(r, "done")
            /\ \A r \in Regions \ disturbed : job[r].failed = {}

(* A region that is said to have no resources, without a warning, really   *)
(* has none: no listing of its job failed and none had items, be it for    *)
(* the tables, the topology or the findings (unless another job started    *)
(* meanwhile).                                                             *)
ZeroIsZero ==
    \A have \in SUBSET Collected : \A refreshing \in SUBSET have :
        \A r \in ZeroResourceRegions(have, refreshing) \ (WarningRegions(have) \cup disturbed) :
            job[r].failed = {} /\ \A t \in Types : "items" \notin job[r].seen[t]
=============================================================================

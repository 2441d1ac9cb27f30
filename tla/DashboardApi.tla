---------------------------- MODULE DashboardApi ----------------------------
(***************************************************************************)
(* What GET /api/dashboard?async_collect=true promises the page, whatever  *)
(* threads, locks and files it is made of.  For each key: is there a fresh *)
(* snapshot, and is there a collection, which runs or has ended with what  *)
(* is a fresh snapshot still, or no longer, and hides the one before.      *)
(* From these alone follows the answer to a request.                       *)
(***************************************************************************)
CONSTANTS Keys,
    TornWrites  \* may a restart find the file of a snapshot torn?

VARIABLE api

Statuses == [fresh : BOOLEAN, job : {"none", "running", "fresh", "stale"}]

Lost == [fresh |-> FALSE, job |-> "none"]

ApiInit == api = [k \in Keys |-> Lost]

Ended(status) == status.job \in {"fresh", "stale"}

(* Is a key answered with a finished snapshot?                             *)
Finished(status, refresh) == Ended(status) \/ (status.fresh /\ ~refresh)

(* The result of a collection that has ended is shown, however old it is;  *)
(* a fresh snapshot is shown also while the next collection runs.          *)
Answered(status, refresh) ==
    IF Ended(status) THEN [fresh |-> status.job = "fresh", job |-> "none"]
    ELSE IF Finished(status, refresh) THEN status
    ELSE [status EXCEPT !.job = "running"]

(* Clearing forgets the snapshot and a result, not a collection that runs. *)
Cleared(status) == [fresh |-> FALSE, job |-> IF Ended(status) THEN "none" ELSE status.job]

Ask(k, refresh) == api' = [api EXCEPT ![k] = Answered(@, refresh)]

Clear(k) == api' = [api EXCEPT ![k] = Cleared(@)]

(* A collection ends.  It may be late that the result is found.            *)
Finish(k, freshness) ==
    /\ api[k].job = "running"
    /\ api' = [api EXCEPT ![k] = [fresh |-> FALSE, job |-> freshness]]

(* What a status may be some time later.                                   *)
Aging(status) ==
    [fresh : {status.fresh, FALSE},
     job : {status.job} \cup (IF Ended(status) THEN {"stale"} ELSE {})]

Age == /\ api' \in [Keys -> Statuses]
       /\ \A k \in Keys : api'[k] \in Aging(api[k])

(* Fresh snapshots survive, also those that a result hid, but not the one  *)
(* whose file is torn.                                                     *)
Restart ==
    \E back \in SUBSET {k \in Keys : Ended(api[k])}, torn \in SUBSET Keys :
        /\ torn # {} => TornWrites /\ \A k, n \in torn : k = n
        /\ api' = [k \in Keys |-> [fresh |-> (api[k].fresh \/ k \in back) /\ k \notin torn,
                                  job |-> "none"]]

ApiNext ==
    \/ \E k \in Keys : \/ Clear(k)
                       \/ \E refresh \in BOOLEAN : Ask(k, refresh)
                       \/ \E freshness \in {"fresh", "stale"} : Finish(k, freshness)
    \/ Age
    \/ Restart

ApiSpec == ApiInit /\ [][ApiNext]_api
=============================================================================

----------------------------- MODULE Preflight ------------------------------
(***************************************************************************)
(* The validation of access: PreflightService (backend/app/services/       *)
(* preflight.py) and validateAccess in                                     *)
(* oci_network_monitor_dashboard_v2.html.                                  *)
(*                                                                         *)
(* The service asks OCI for one resource of each kind, region by region    *)
(* and compartment by compartment, and reduces what it meets to one status.*)
(* Policies of the tenancy are changed meanwhile.  The collection of the   *)
(* inventory derives the compartments it lists from the same settings in   *)
(* another way (_compartment_scope of network_inventory.py).               *)
(***************************************************************************)
EXTENDS Settings, Naturals

CONSTANTS
    Regions,    \* home_region and active_regions
    Kinds,      \* NETWORK_READ_CHECKS, as far as the SDK's client has the method
    Groups,     \* ... of which list_network_security_groups
    Rules,      \* list_network_security_group_security_rules
    MaxRevokes  \* bounds how often policies are changed

\* home_region is always among them.
ASSUME RegionsAssumption == Regions # {}
ASSUME GroupsAssumption == Groups \in Kinds
ASSUME RulesAssumption == Rules \notin Kinds
ASSUME MaxRevokesAssumption == MaxRevokes \in Nat

VARIABLES
    policy,    \* what Meridian may do with the virtual-network-family of a compartment
    inspects,  \* may Meridian inspect compartments in the tenancy?
    grouped,   \* the compartments with network security groups
    probe,     \* the local variables of the handler
    access,    \* what the page shows of it
    revokes,   \* number of changes of policies
    revoked    \* history: was a permission revoked since the handler began?

preflightVars == <<policy, inspects, grouped, probe, access, revokes, revoked>>

Places == Compartments \cup {Tenancy}

(* "inspect" is enough for every listing but that of the rules of a group. *)
Verbs == {"none", "inspect", "read"}

Probes == Places \X (Kinds \cup {Rules})

Statuses == {"pass", "fail", "skipped"}

Probing == [at : {"idle", "identity", "compartments", "regions", "done"},
            regions : SUBSET Regions, todo : SUBSET Probes, failed : BOOLEAN]

(* A policy of the tenancy holds in its compartments.                      *)
Granted(place, kind) ==
    \E p \in {place, Tenancy} :
        policy[p] \in (IF kind = Rules THEN {"read"} ELSE {"inspect", "read"})

Idle == [at |-> "idle", regions |-> {}, todo |-> {}, failed |-> FALSE]

PreflightInit ==
    /\ policy \in [Places -> Verbs]
    /\ inspects \in BOOLEAN
    /\ grouped \in SUBSET Places
    /\ probe = Idle
    /\ access = "none"
    /\ revokes = 0
    /\ revoked = FALSE

-----------------------------------------------------------------------------
(* Mutant of Targets: only the first compartment is probed.                *)
FirstTarget == {CHOOSE p \in TargetCompartments : TRUE}

(* _target_compartments                                                    *)
Targets == TargetCompartments

(* The user clicks on "Validate access", which disables the button.  In    *)
(* live mode a missing tenancy is a failure, and so is an empty scope; OCI *)
(* is only asked if there is a tenancy.                                    *)
Validate ==
    /\ access # "validating"
    /\ probe.at = "idle"
    /\ access' = "validating"
    /\ revoked' = FALSE
    /\ probe' = [Idle EXCEPT !.at = IF settings.live /\ settings.tenancy THEN "identity" ELSE "done",
                             !.failed = settings.live /\ (~settings.tenancy \/ Targets = {})]
    /\ UNCHANGED <<policy, inspects, grouped, revokes>>

(* "OCI SDK and signer": without an identity client nothing else is asked. *)
MakeIdentityClient(ok) ==
    /\ probe.at = "identity"
    /\ probe' = IF ok THEN [probe EXCEPT !.at = "compartments"]
                ELSE [probe EXCEPT !.at = "done", !.failed = TRUE]
    /\ UNCHANGED <<policy, inspects, grouped, access, revokes, revoked>>

(* "Compartment discovery permission"                                      *)
ListCompartments(ok) ==
    /\ probe.at = "compartments"
    /\ ok => inspects
    /\ probe' = [probe EXCEPT !.at = "regions", !.regions = Regions, !.failed = @ \/ ~ok]
    /\ UNCHANGED <<policy, inspects, grouped, access, revokes, revoked>>

(* The next region: without a client for it its probes are left out.       *)
MakeNetworkClient(r, ok) ==
    /\ probe.at = "regions"
    /\ probe.todo = {}
    /\ r \in probe.regions
    /\ probe' = [probe EXCEPT !.regions = @ \ {r}, !.failed = @ \/ ~ok,
                              !.todo = IF ok THEN Targets \X Kinds ELSE {}]
    /\ UNCHANGED <<policy, inspects, grouped, access, revokes, revoked>>

(* One listing, with a limit of one resource; the rules of the group it    *)
(* finds are listed next.  A call may fail although it is granted.         *)
Probe(p, kind, ok) ==
    /\ probe.at = "regions"
    /\ <<p, kind>> \in probe.todo
    /\ ok => Granted(p, kind)
    /\ probe' = [probe EXCEPT
          !.failed = @ \/ ~ok,
          !.todo = (@ \ {<<p, kind>>}) \cup
                   {<<q, Rules>> : q \in {x \in {p} : ok /\ kind = Groups /\ p \in grouped}}]
    /\ UNCHANGED <<policy, inspects, grouped, access, revokes, revoked>>

Conclude ==
    /\ probe.at = "regions"
    /\ probe.todo = {} /\ probe.regions = {}
    /\ probe' = [probe EXCEPT !.at = "done"]
    /\ UNCHANGED <<policy, inspects, grouped, access, revokes, revoked>>

(* _summary_status.  No check has the status "warn".                       *)
Summary == IF ~settings.live THEN "skipped" ELSE IF probe.failed THEN "fail" ELSE "pass"

(* The page gets the summary, or an error, which it shows as a failure.    *)
ShowAccess ==
    /\ probe.at = "done"
    /\ access' \in {Summary, "fail"}
    /\ probe' = Idle
    /\ UNCHANGED <<policy, inspects, grouped, revokes, revoked>>

(* An administrator changes a policy, or the permission to inspect         *)
(* compartments.                                                           *)
ChangePolicy ==
    /\ revokes < MaxRevokes
    /\ revokes' = revokes + 1
    /\ \/ /\ \E p \in Places, verb \in Verbs : policy' = [policy EXCEPT ![p] = verb]
          /\ UNCHANGED inspects
       \/ inspects' = ~inspects /\ UNCHANGED policy
    /\ revoked' = TRUE
    /\ UNCHANGED <<grouped, probe, access>>

PreflightNext ==
    /\ \/ Validate
       \/ \E ok \in BOOLEAN : MakeIdentityClient(ok) \/ ListCompartments(ok)
       \/ \E r \in Regions, ok \in BOOLEAN : MakeNetworkClient(r, ok)
       \/ \E p \in Places, kind \in Kinds \cup {Rules}, ok \in BOOLEAN : Probe(p, kind, ok)
       \/ Conclude
       \/ ShowAccess
       \/ ChangePolicy
    /\ UNCHANGED settings

PreflightSpec == PreflightInit /\ settings \in Settings /\ [][PreflightNext]_<<preflightVars, settings>>
-----------------------------------------------------------------------------
(* What a collection of the inventory lists: _compartment_scope, for the   *)
(* compartments that the resource search or list_compartments finds in the *)
(* tenancy.                                                                *)
CompartmentScope(found) ==
    IF settings.compartments # {} THEN settings.compartments
    ELSE IF settings.tenancy THEN {Tenancy} \cup found ELSE {}

PreflightTypeOK ==
    /\ policy \in [Places -> Verbs]
    /\ inspects \in BOOLEAN
    /\ grouped \subseteq Places
    /\ probe \in Probing
    /\ access \in Statuses \cup {"none", "validating"}
    /\ revokes \in 0 .. MaxRevokes
    /\ revoked \in BOOLEAN

(* If the page shows that access is valid, and no policy was changed since *)
(* the validation began, every listing of a collection is granted: in each *)
(* compartment of its scope, whichever compartments it finds, and so is the*)
(* listing of compartments; the rules of groups are, if the first level of *)
(* compartments that was probed has groups                                 *)
(* (docs/deployment-checklist.md:48, "Confirm GET /api/preflight returns   *)
(* pass before relying on live inventory").                                *)
PassIsReliable ==
    access = "pass" /\ ~revoked =>
        /\ inspects
        /\ \A found \in SUBSET Compartments : \A p \in CompartmentScope(found) :
              /\ \A kind \in Kinds : Granted(p, kind)
              /\ Targets \subseteq grouped => Granted(p, Rules)
=============================================================================

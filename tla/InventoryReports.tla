-------------------------- MODULE InventoryReports -------------------------
(***************************************************************************)
(* What one request reads of a region, and what the reports of it say:     *)
(* NetworkInventoryService of backend/app/services/network_inventory.py    *)
(* under route analysis, security posture and topology.                    *)
(*                                                                         *)
(* The resource types are listed one after the other, in an order that     *)
(* depends on the report; within a type compartments are asked at once and *)
(* each answer comes in pages, so that every resource is read at a moment  *)
(* of its own.  The tenancy changes meanwhile, and calls fail.             *)
(***************************************************************************)
EXTENDS RouteAnalysis, SecurityPosture, TopologyGraph, FiniteSets

CONSTANTS
    Resources,   \* what the tenancy may have: any two with one id are versions of it
    Starts,      \* what it has at first, one of these sets of resources
    MaxChanges,  \* bound: how often the tenancy changes
    MaxFailed    \* bound: of how many kinds a call fails, in one request

SameThing(r, s) == r.id = s.id => r.kind = s.kind /\ r.vcn = s.vcn

VcnsExist(resources) ==
    \A r \in resources : r.vcn \in Ids(Of("vcn", resources)) \cup {NoVcn}

OnceEach(resources) == \A r, s \in resources : r.id = s.id => r = s

ASSUME ResourcesAssumption == Resources \subseteq Resource
ASSUME VersionsAssumption == \A r, s \in Resources : SameThing(r, s)
ASSUME StartsAssumption ==
    \A start \in Starts : start \subseteq Resources /\ VcnsExist(start) /\ OnceEach(start)
ASSUME ChangesAssumption == MaxChanges \in Nat
ASSUME FailedAssumption == MaxFailed \in Nat

VARIABLES
    oci,      \* the resources of the region
    plan,     \* the kinds the request under way lists, in their order
    focus,    \* its query parameter vcn_id
    asked,    \* the ids of the resources it has tried to read
    listed,   \* the resources it has read
    failed,   \* the kinds of which a call has failed, as collection issues
    gone,     \* history: targets of routes that no gateway had, at some time since it began
    up,       \* history: gateways that were there and not disabled, at some time since
    changed,  \* history: has the tenancy changed since?
    changes

vars == <<oci, plan, focus, asked, listed, failed, gone, up, changed, changes>>

(* _build_dashboard_snapshot and get_topology.                             *)
AllKinds == <<"vcn", "subnet", "gateway", "route_table", "security_list",
              "network_security_group">>

(* RouteAnalysisService.summarize.                                         *)
RouteKinds == <<"route_table", "gateway">>

(* SecurityPostureService.summarize.                                       *)
GuardKinds == <<"security_list", "network_security_group">>

Plans == {AllKinds, RouteKinds, GuardKinds}

Targets == Gateways \cup {Elsewhere}

Missing(resources) == Targets \ Ids(Of("gateway", resources))

Running(resources) == Ids({g \in Of("gateway", resources) : Enabled(g) # "no"})

AllIds == Ids(Resources)

Kind == [id \in AllIds |-> (CHOOSE r \in Resources : r.id = id).kind]

(* The ids of the resources of the first n kinds of the plan.              *)
IdsUpTo(n) == {id \in AllIds : \E k \in 1 .. n : plan[k] = Kind[id]}

Reported == plan # <<>> /\ IdsUpTo(Len(plan)) \subseteq asked

Init ==
    /\ oci \in Starts
    /\ plan = <<>> /\ focus = NoVcn
    /\ asked = {} /\ listed = {} /\ failed = {}
    /\ gone = {} /\ up = {} /\ changed = FALSE
    /\ changes = 0

(* A request begins, once the one before it is answered.                   *)
Begin(p, vcn) ==
    /\ plan = <<>> \/ Reported
    /\ plan' = p
    /\ focus' = vcn
    /\ asked' = {} /\ listed' = {} /\ failed' = {}
    /\ gone' = Missing(oci) /\ up' = Running(oci) /\ changed' = FALSE
    /\ UNCHANGED <<oci, changes>>

(* Is it the turn of the kind of this resource?                            *)
Turn(id) ==
    \E k \in DOMAIN plan : plan[k] = Kind[id] /\ IdsUpTo(k - 1) \subseteq asked

(* What OCI answers about one resource: its present version, or nothing.   *)
Answer(id) == {r \in oci : r.id = id /\ InFocus(r, focus)}

(* _safe_list_all: the resource is read with what its kind is listed with, *)
(* or the call fails and leaves an issue.                                  *)
Read(id) ==
    /\ Turn(id) /\ id \notin asked
    /\ asked' = asked \cup {id}
    /\ \/ listed' = listed \cup Answer(id) /\ UNCHANGED failed
       \/ /\ failed' = failed \cup {Kind[id]}
          /\ Cardinality(failed') <= MaxFailed
          /\ UNCHANGED listed
    /\ UNCHANGED <<oci, plan, focus, gone, up, changed, changes>>

WithoutRules(group) ==
    [kind |-> group.kind, id |-> group.id, vcn |-> group.vcn, rules |-> {}]

(* The rules of a network security group are asked for in a second call,   *)
(* without which it has none.                                              *)
ReadWithoutRules(id) ==
    /\ Turn(id) /\ id \notin asked
    /\ Kind[id] = "network_security_group"
    /\ asked' = asked \cup {id}
    /\ listed' = listed \cup {WithoutRules(r) : r \in Answer(id)}
    /\ failed' = failed \cup {Kind[id]}
    /\ Cardinality(failed') <= MaxFailed
    /\ UNCHANGED <<oci, plan, focus, gone, up, changed, changes>>

(* A resource of the tenancy is created, changed or deleted.  OCI does not *)
(* delete a VCN that is in use.                                            *)
Change(id) ==
    /\ changes < MaxChanges
    /\ changes' = changes + 1
    /\ \E versions \in {{}} \cup {{r} : r \in {s \in Resources : s.id = id}} :
          oci' = {r \in oci : r.id # id} \cup versions
    /\ oci' # oci
    /\ VcnsExist(oci')
    /\ gone' = gone \cup Missing(oci')
    /\ up' = up \cup Running(oci')
    /\ changed' = TRUE
    /\ UNCHANGED <<plan, focus, asked, listed, failed>>

Next == \/ \E p \in Plans, vcn \in Vcns \cup {NoVcn} : Begin(p, vcn)
        \/ \E id \in AllIds : Read(id)
        \/ \E id \in AllIds : ReadWithoutRules(id)
        \/ \E id \in AllIds : Change(id)

Spec == Init /\ [][Next]_vars
-----------------------------------------------------------------------------
RouteIssues == UNION {TableIssues(table, Of("gateway", listed)) :
                      table \in Of("route_table", listed)}

Guards(resources) == Of("security_list", resources)
                     \cup Of("network_security_group", resources)

PostureFindings == UNION {Findings(guard) : guard \in Guards(listed)}

GraphNodes == Nodes(focus, listed)

GraphEdges == Edges(GraphNodes)

Lists(kind) == \E k \in DOMAIN plan : plan[k] = kind

TypeOK ==
    /\ oci \subseteq Resources
    /\ plan \in Plans \cup {<<>>}
    /\ focus \in Vcns \cup {NoVcn}
    /\ asked \subseteq AllIds
    /\ listed \subseteq Resource
    /\ failed \subseteq {r.kind : r \in Resources}
    /\ gone \subseteq Targets
    /\ up \subseteq Gateways
    /\ changed \in BOOLEAN
    /\ changes \in 0 .. MaxChanges

(* "Route target was not found" (route_analysis.py:102) is said only of a  *)
(* target that was no gateway at some time since the request began, unless *)
(* a listing of gateways has failed or the request left out the gateway by *)
(* its filter, as vcn_id does with dynamic routing gateways.               *)
UnresolvedIsMissing ==
    Reported /\ Lists("gateway") =>
        \A issue \in RouteIssues : issue.type = "unresolved_route_target" =>
            \/ issue.target \in gone
            \/ "gateway" \in failed
            \/ \E r \in Resources : r.id = issue.target /\ ~InFocus(r, focus)

(* If the status of the route issues is "ok" or "low", every rule that was *)
(* read led to a gateway that was there, not disabled, at some time since  *)
(* the request began, none sends default traffic to the Internet, and no   *)
(* table has two rules for a destination.                                  *)
GoodStatusIsEarned ==
    Reported /\ Lists("gateway") /\ RouteStatus(RouteIssues) \in {"ok", "low"} =>
        \A table \in Of("route_table", listed) :
            \A k \in DOMAIN table.rules :
                /\ table.rules[k].target \in up
                /\ table.rules[k].destination \in DefaultRoutes =>
                      \A g \in Of("gateway", listed) : g.id = table.rules[k].target =>
                          g.type # "internet_gateway"
                /\ \A j \in DOMAIN table.rules :
                      table.rules[j].destination = table.rules[k].destination => j = k

(* Does a rule let traffic from anywhere reach a port?                     *)
Admits(rule, port) ==
    /\ rule.source = Public
    /\ \/ rule.protocol = "all"
       \/ /\ rule.protocol = "tcp"
          /\ rule.to = <<>> \/ (rule.to[1] <= port /\ port <= rule.to[2])

(* If nothing failed or changed while it was read, the posture has a       *)
(* finding for each security list and group that lets anyone reach SSH or  *)
(* RDP, and for no other, and it is "critical" exactly if one is open for  *)
(* all protocols.  A rule is excepted that has a range of source ports     *)
(* only, which _security_rule takes for its destination ports.             *)
PostureIsComplete ==
    Reported /\ Lists("security_list") /\ failed = {} /\ ~changed =>
        LET guards == {guard \in Guards(oci) : InFocus(guard, focus)}
            Open(guard) == {rule \in guard.rules : Admits(rule, Ssh) \/ Admits(rule, Rdp)}
        IN  /\ \A guard \in guards :
                  (\E rule \in Open(guard) : rule.to = <<>> => rule.from = <<>>) =>
                      guard.id \in {finding.resource : finding \in PostureFindings}
            /\ \A finding \in PostureFindings :
                  \E guard \in guards : guard.id = finding.resource /\ Open(guard) # {}
            /\ PostureStatus(PostureFindings) = "critical" <=>
                  \E guard \in guards, rule \in UNION {g.rules : g \in guards} :
                      rule \in guard.rules /\ rule.source = Public /\ rule.protocol = "all"

(* The graph and the route issues agree: a rule of a table that is drawn   *)
(* has its edge if and only if its target is neither missing nor           *)
(* unresolved.                                                             *)
RoutesAreDrawn ==
    Reported /\ plan = AllKinds =>
        \A table \in Of("route_table", GraphNodes) : \A k \in DOMAIN table.rules :
            Edge(table.id, table.rules[k].target, "routes_to") \in GraphEdges <=>
                ~ \E issue \in RouteIssues :
                      /\ issue.table = table.id /\ issue.rule = k
                      /\ issue.type \in {"missing_route_target", "unresolved_route_target"}

(* If nothing failed or changed while it was read, the graph has all of the*)
(* region or of the VCN that was asked for, and each resource of a VCN is  *)
(* linked to it.                                                           *)
GraphIsWhole ==
    Reported /\ plan = AllKinds /\ failed = {} /\ ~changed =>
        /\ GraphNodes = {r \in oci : focus = NoVcn \/ r.vcn = focus}
        /\ \A r \in GraphNodes : r.kind # "vcn" /\ r.vcn # NoVcn =>
              Edge(r.vcn, r.id, r.kind) \in GraphEdges
=============================================================================

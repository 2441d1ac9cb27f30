--------------------------- MODULE RouteAnalysis ---------------------------
(***************************************************************************)
(* RouteAnalysisService of backend/app/services/route_analysis.py: the     *)
(* issues of route tables, given the gateways that were listed.            *)
(*                                                                         *)
(* A destination stands for a prefix with its type.  An issue is reduced to*)
(* its type, its table, the place of its rule and the rule's target.       *)
(***************************************************************************)
EXTENDS Inventory

CONSTANT DefaultRoutes  \* the destinations with prefix 0.0.0.0/0 or ::/0

ASSUME DefaultRoutesAssumption == DefaultRoutes \subseteq Destinations

IssueTypes == {"empty_route_table", "duplicate_route_destination", "missing_route_target",
               "unresolved_route_target", "disabled_route_target", "public_default_route"}

Severity(type) ==
    CASE type \in {"missing_route_target", "disabled_route_target"} -> "high"
      [] type = "empty_route_table" -> "low"
      [] OTHER -> "medium"

Repeated(rules, k) == \E j \in 1 .. k - 1 : rules[j].destination = rules[k].destination

(* Mutant of Resolved: gateways that are switched off are left out.        *)
ResolvedIfEnabled(rule, gateways) ==
    {g \in gateways : g.id = rule.target /\ Enabled(g) # "no"}

(* gateway_by_id.get(network_entity_id), as a set of at most one.          *)
Resolved(rule, gateways) == {g \in gateways : g.id = rule.target}

IsPublicDefault(rule, gateway) ==
    rule.destination \in DefaultRoutes /\ gateway.type = "internet_gateway"

TargetIssues(rule, gateways) ==
    IF rule.target = NoId THEN {"missing_route_target"}
    ELSE IF Resolved(rule, gateways) = {} THEN {"unresolved_route_target"}
    ELSE {type \in {"disabled_route_target"} :
             \E g \in Resolved(rule, gateways) : Enabled(g) = "no"}
         \cup {type \in {"public_default_route"} :
                  \E g \in Resolved(rule, gateways) : IsPublicDefault(rule, g)}

RuleIssues(rules, k, gateways) ==
    {type \in {"duplicate_route_destination"} : Repeated(rules, k)}
    \cup TargetIssues(rules[k], gateways)

(* _issues_for_route_table.                                                *)
TableIssues(table, gateways) ==
    IF table.rules = <<>>
    THEN {[type |-> "empty_route_table", table |-> table.id, rule |-> 0,
           target |-> NoId]}
    ELSE UNION {{[type |-> type, table |-> table.id, rule |-> k,
                  target |-> table.rules[k].target] :
                     type \in RuleIssues(table.rules, k, gateways)} :
                k \in DOMAIN table.rules}

(* Mutant of Worst: high severities are forgotten.                         *)
WorstWithoutHigh(severities) ==
    IF "critical" \in severities THEN "critical"
    ELSE IF "medium" \in severities THEN "medium"
    ELSE IF "low" \in severities THEN "low"
    ELSE "ok"

(* The status of a summary with issues of these severities.                *)
Worst(severities) ==
    IF "critical" \in severities THEN "critical"
    ELSE IF "high" \in severities THEN "high"
    ELSE IF "medium" \in severities THEN "medium"
    ELSE IF "low" \in severities THEN "low"
    ELSE "ok"

(* _summary_status.                                                        *)
RouteStatus(issues) == Worst({Severity(issue.type) : issue \in issues})
=============================================================================

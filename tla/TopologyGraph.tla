--------------------------- MODULE TopologyGraph ---------------------------
(***************************************************************************)
(* get_topology of backend/app/services/network_inventory.py: the graph of *)
(* the resources that were listed.                                         *)
(*                                                                         *)
(* The relationship of a VCN to what is in it is named by the kind of that.*)
(***************************************************************************)
EXTENDS Inventory

(* selected_vcn_ids: if it is empty nothing is filtered.                   *)
SelectedVcns(focus, resources) ==
    IF focus # NoVcn THEN {focus} ELSE Ids(Of("vcn", resources))

(* Mutant of Nodes: gateways are filtered as the other resources are.      *)
NodesOfVcns(focus, resources) ==
    LET selected == SelectedVcns(focus, resources)
    IN  {r \in resources : selected = {} \/ r.vcn \in selected}

(* The resources that become nodes; gateways are never filtered.           *)
Nodes(focus, resources) ==
    LET selected == SelectedVcns(focus, resources)
    IN  {r \in resources : r.kind = "gateway" \/ selected = {} \/ r.vcn \in selected}

Edge(source, target, relationship) ==
    [source |-> source, target |-> target, relationship |-> relationship]

ContainsEdges(nodes) ==
    {Edge(r.vcn, r.id, r.kind) : r \in {n \in nodes : n.kind # "vcn" /\ n.vcn # NoVcn}}

UsesEdges(nodes) ==
    {Edge(r.id, r.table, "uses_route_table") :
        r \in {s \in Of("subnet", nodes) : s.table # NoId}}
    \cup UNION {{Edge(r.id, list, "uses_security_list") : list \in r.lists} :
                r \in Of("subnet", nodes)}

(* Mutant of RouteEdges: the first rule of a table only.                   *)
FirstRouteEdges(nodes) ==
    {Edge(r.id, r.rules[1].target, "routes_to") :
        r \in {t \in Of("route_table", nodes) : DOMAIN t.rules # {} /\ t.rules[1].target # NoId}}

(* An edge for each target of a table.                                     *)
RouteEdges(nodes) ==
    UNION {{Edge(r.id, r.rules[k].target, "routes_to") :
               k \in {j \in DOMAIN r.rules : r.rules[j].target # NoId}} :
           r \in Of("route_table", nodes)}

AllEdges(nodes) == ContainsEdges(nodes) \cup UsesEdges(nodes) \cup RouteEdges(nodes)

(* The edges that are returned: those between nodes.                       *)
Edges(nodes) ==
    {e \in AllEdges(nodes) : e.source \in Ids(nodes) /\ e.target \in Ids(nodes)}
=============================================================================

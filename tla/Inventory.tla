----------------------------- MODULE Inventory -----------------------------
(***************************************************************************)
(* The resources of a region as backend/app/services/network_inventory.py  *)
(* lists them and backend/app/models.py describes them.                    *)
(*                                                                         *)
(* A resource is a record with its kind, its id and its VCN, which of a VCN*)
(* is itself and of a dynamic routing gateway is NoVcn, and what the       *)
(* reports read of it.                                                     *)
(***************************************************************************)
EXTENDS Integers, Sequences

CONSTANTS
    Vcns,
    Subnets,
    Gateways,
    RouteTables,
    SecurityGuards,  \* security lists and network security groups
    Elsewhere,       \* the id of a target that is no gateway, such as a private IP
    Destinations,    \* prefixes of route rules, with their types
    NoId,            \* no network_entity_id, no route_table_id
    NoVcn            \* no VCN; no filter by VCN

ASSUME GatewaysAssumption ==
    Gateways \cap (Vcns \cup Subnets \cup RouteTables \cup SecurityGuards) = {}
ASSUME NoIdAssumption ==
    NoId \notin Vcns \cup Subnets \cup Gateways \cup RouteTables \cup SecurityGuards
ASSUME NoVcnAssumption == NoVcn \notin Vcns
ASSUME ElsewhereAssumption ==
    Elsewhere \notin Vcns \cup Subnets \cup Gateways \cup RouteTables \cup SecurityGuards

RouteRules == [destination : Destinations, target : Gateways \cup {Elsewhere, NoId}]

(* The ports of the options of a rule, <<>> if it has none.                *)
Ranges == {<<>>} \cup (0 .. 65535) \X (0 .. 65535)

(* An ingress rule: its destination ports (`to`) and source ports (`from`).*)
IngressRules == [source : STRING, protocol : {"all", "tcp", "udp", "icmp"},
                 to : Ranges, from : Ranges]

GatewayTypes == {"internet_gateway", "nat_gateway", "service_gateway"}

Resource ==
    {[kind |-> "vcn", id |-> v, vcn |-> v] : v \in Vcns}
    \cup [kind : {"subnet"}, id : Subnets, vcn : Vcns, table : RouteTables \cup {NoId},
          lists : SUBSET SecurityGuards]
    \cup [kind : {"gateway"}, id : Gateways, vcn : Vcns, type : GatewayTypes, on : BOOLEAN]
    \cup [kind : {"gateway"}, id : Gateways, vcn : {NoVcn}, type : {"dynamic_routing_gateway"}]
    \cup [kind : {"route_table"}, id : RouteTables, vcn : Vcns, rules : Seq(RouteRules)]
    \cup [kind : {"security_list", "network_security_group"}, id : SecurityGuards,
          vcn : Vcns, rules : SUBSET IngressRules]

Of(kind, resources) == {r \in resources : r.kind = kind}

Ids(resources) == {r.id : r \in resources}

(* What the listings ask OCI for, given the query parameter vcn_id: all    *)
(* VCNs, and of the others those of the VCN.                               *)
InFocus(r, focus) == focus = NoVcn \/ r.kind = "vcn" \/ r.vcn = focus

(* is_enabled: that of an Internet Gateway, not block_traffic of NAT and   *)
(* service gateways, None for a dynamic routing gateway.                   *)
Enabled(gateway) ==
    IF gateway.type = "dynamic_routing_gateway" THEN "unknown"
    ELSE IF gateway.on THEN "yes" ELSE "no"

(* _security_rule: the ports of a rule are those of its destinations, or   *)
(* else those of its sources.                                              *)
Ports(rule) == IF rule.to # <<>> THEN rule.to ELSE rule.from
=============================================================================

------------------------ MODULE MCInventoryReports -------------------------
(* Finite instances of InventoryReports for TLC.                           *)
EXTENDS InventoryReports

CONSTANTS vA, vB, subnet, igw, drg, table, list, group, anywhere, office

Vcn(v) == [kind |-> "vcn", id |-> v, vcn |-> v]

Subnet == [kind |-> "subnet", id |-> subnet, vcn |-> vA, table |-> table, lists |-> {list}]

Igw(on) == [kind |-> "gateway", id |-> igw, vcn |-> vA, type |-> "internet_gateway", on |-> on]

Drg == [kind |-> "gateway", id |-> drg, vcn |-> NoVcn, type |-> "dynamic_routing_gateway"]

Table(rules) == [kind |-> "route_table", id |-> table, vcn |-> vA, rules |-> rules]

Rule(destination, target) == [destination |-> destination, target |-> target]

Rules == {Rule(anywhere, igw), Rule(office, igw), Rule(office, drg), Rule(office, NoId)}

Tables == {Table(rules) : rules \in {<<>>, <<Rule(office, Elsewhere)>>}
                                    \cup {<<r>> : r \in Rules}
                                    \cup {<<r, s>> : r, s \in Rules}}

Ingress(source, protocol, to, from) ==
    [source |-> source, protocol |-> protocol, to |-> to, from |-> from]

(* The ends of ranges of ports lie at, before and behind SSH and RDP.      *)
IngressSets ==
    {{Ingress(Public, "tcp", to, <<>>)} :
        to \in {<<>>, <<1, 22>>, <<23, 3388>>, <<3389, 4000>>}}
    \cup {{Ingress(Public, "tcp", to, <<1024, 65535>>)} : to \in {<<>>, <<22, 80>>}}
    \cup {{Ingress(Public, protocol, <<>>, <<>>)} : protocol \in {"all", "udp"}}
    \cup {{}, {Ingress("10.0.0.0/8", "all", <<>>, <<>>)},
          {Ingress(Public, "tcp", <<22, 22>>, <<>>), Ingress(Public, "all", <<>>, <<>>)}}

Guard(kind, id, rules) == [kind |-> kind, id |-> id, vcn |-> vB, rules |-> rules]

SomeResources ==
    {Vcn(vA), Vcn(vB), Subnet, Igw(TRUE), Igw(FALSE), Drg}
    \cup Tables
    \cup {Guard("security_list", list, rules) : rules \in IngressSets}
    \cup {Guard("network_security_group", group, rules) : rules \in IngressSets}

Base == {Vcn(vA), Vcn(vB), Subnet, Igw(TRUE), Drg}

(* Tenancies with any table, and tenancies with any rules of a guard.      *)
SomeStarts ==
    {Base \cup {t} : t \in Tables}
    \cup {{Vcn(vB), Guard("security_list", list, rules)} : rules \in IngressSets}
    \cup {{Vcn(vB), Guard("network_security_group", group, rules)} : rules \in IngressSets}
=============================================================================

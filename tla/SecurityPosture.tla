-------------------------- MODULE SecurityPosture --------------------------
(***************************************************************************)
(* SecurityPostureService of backend/app/services/security_posture.py: the *)
(* findings about the ingress rules of security lists and network security *)
(* groups, which are told apart in the names of the findings only.         *)
(***************************************************************************)
EXTENDS Inventory

Public == "0.0.0.0/0"

Ssh == 22

Rdp == 3389

(* Mutant of PortInRule: a rule without ports is taken for one with none.  *)
PortInRuleIfGiven(rule, port) ==
    /\ rule.protocol \in {"tcp", "all"}
    /\ Ports(rule) # <<>>
    /\ Ports(rule)[1] <= port /\ port <= Ports(rule)[2]

(* _port_in_rule.                                                          *)
PortInRule(rule, port) ==
    /\ rule.protocol \in {"tcp", "all"}
    /\ Ports(rule) # <<>> => Ports(rule)[1] <= port /\ port <= Ports(rule)[2]

RuleFinding(rule) ==
    IF rule.source # Public THEN {}
    ELSE IF rule.protocol = "all" THEN {"public_all_protocols"}
    ELSE IF PortInRule(rule, Ssh) THEN {"public_ssh"}
    ELSE IF PortInRule(rule, Rdp) THEN {"public_rdp"}
    ELSE {}

(* _findings_for_security_list, _findings_for_network_security_group.      *)
Findings(guard) == {[type |-> type, resource |-> guard.id] :
                       type \in UNION {RuleFinding(rule) : rule \in guard.rules}}

FindingSeverity(type) == IF type = "public_all_protocols" THEN "critical" ELSE "high"

(* The status of summarize.                                                *)
PostureStatus(findings) ==
    LET severities == {FindingSeverity(finding.type) : finding \in findings}
    IN  IF "critical" \in severities THEN "critical"
        ELSE IF "high" \in severities THEN "high"
        ELSE "ok"
=============================================================================

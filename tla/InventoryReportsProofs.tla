----------------------- MODULE InventoryReportsProofs ----------------------
(***************************************************************************)
(* Theorems about InventoryReports, for any resources, any changes of the  *)
(* tenancy and any failing calls.                                          *)
(***************************************************************************)
EXTENDS InventoryReports, TLAPS

(* As long as a request is under way, `gone` and `up` cover the present.   *)
GoneIsMissing == plan # <<>> => Missing(oci) \subseteq gone

UpIsRunning == plan # <<>> => Running(oci) \subseteq up

(* A gateway that was asked for and not read was missing, or its listing   *)
(* failed, or it was not asked for because of the filter.                  *)
ReadOrMissing ==
    \A id \in asked : Kind[id] = "gateway" =>
        \/ id \in Ids(Of("gateway", listed))
        \/ id \in gone
        \/ "gateway" \in failed
        \/ \E r \in Resources : r.id = id /\ ~InFocus(r, focus)

ListedIsUp == \A g \in Of("gateway", listed) : Enabled(g) # "no" => g.id \in up

(* What was read is still true as long as nothing fails or changes.        *)
ListedIsTrue ==
    failed = {} /\ ~changed => listed = {r \in oci : r.id \in asked /\ InFocus(r, focus)}

(* No resource is there, or is read, in two versions.                      *)
ListedOnce == OnceEach(oci) /\ OnceEach(listed) /\ Ids(listed) \subseteq asked

IInv ==
    /\ TypeOK
    /\ GoneIsMissing
    /\ UpIsRunning
    /\ ReadOrMissing
    /\ ListedIsUp
    /\ ListedIsTrue
    /\ ListedOnce
    /\ VcnsExist(oci)

-----------------------------------------------------------------------------
(* What the fields of a resource are, by its kind.                         *)
LEMMA Shape ==
    ASSUME NEW r \in Resource
    PROVE  /\ r.kind = "vcn" => r.id = r.vcn
           /\ r.kind = "gateway" => r.id \in Gateways
           /\ r.kind = "route_table" => r.rules \in Seq(RouteRules)
           /\ r.kind = "network_security_group" =>
                 /\ WithoutRules(r) \in Resource
                 /\ WithoutRules(r).kind = r.kind
           /\ r.kind # "gateway" => r.vcn \in Vcns
           /\ \E k \in 1 .. 6 : AllKinds[k] = r.kind
<1>1. CASE r \in {[kind |-> "vcn", id |-> v, vcn |-> v] : v \in Vcns}
  BY <1>1, AllKinds[1] = "vcn" DEF AllKinds
<1>2. CASE r \in [kind : {"subnet"}, id : Subnets, vcn : Vcns,
                  table : RouteTables \cup {NoId}, lists : SUBSET SecurityGuards]
  BY <1>2, AllKinds[2] = "subnet" DEF AllKinds
<1>3. CASE r \in [kind : {"gateway"}, id : Gateways, vcn : Vcns, type : GatewayTypes,
                  on : BOOLEAN]
  BY <1>3, AllKinds[3] = "gateway" DEF AllKinds
<1>4. CASE r \in [kind : {"gateway"}, id : Gateways, vcn : {NoVcn},
                  type : {"dynamic_routing_gateway"}]
  BY <1>4, AllKinds[3] = "gateway" DEF AllKinds
<1>5. CASE r \in [kind : {"route_table"}, id : RouteTables, vcn : Vcns,
                  rules : Seq(RouteRules)]
  BY <1>5, AllKinds[4] = "route_table" DEF AllKinds
<1>6. CASE r \in [kind : {"security_list", "network_security_group"},
                  id : SecurityGuards, vcn : Vcns, rules : SUBSET IngressRules]
  <2>1. WithoutRules(r) \in [kind : {"security_list", "network_security_group"},
                  id : SecurityGuards, vcn : Vcns, rules : SUBSET IngressRules]
    BY <1>6 DEF WithoutRules
  <2> QED
    BY <1>6, <2>1, AllKinds[5] = "security_list", AllKinds[6] = "network_security_group"
    DEF AllKinds, Resource, WithoutRules
<1> QED
  BY <1>1, <1>2, <1>3, <1>4, <1>5, <1>6 DEF Resource

LEMMA Kinds ==
    /\ \A r \in Resources : r.id \in AllIds /\ Kind[r.id] = r.kind
    /\ \A id \in AllIds : \E r \in Resources : r.id = id /\ r.kind = Kind[id]
<1>1. ASSUME NEW id \in AllIds PROVE \E r \in Resources : r.id = id /\ r.kind = Kind[id]
  <2>1. \E r \in Resources : r.id = id
    BY DEF AllIds, Ids
  <2> QED
    BY <2>1 DEF Kind
<1>2. ASSUME NEW r \in Resources PROVE r.id \in AllIds /\ Kind[r.id] = r.kind
  <2>1. r.id \in AllIds
    BY DEF AllIds, Ids
  <2>2. PICK s \in Resources : s.id = r.id /\ s.kind = Kind[r.id]
    BY <1>1, <2>1
  <2> QED
    BY <2>1, <2>2, VersionsAssumption DEF SameThing
<1> QED
  BY <1>1, <1>2

(* A plan that has come to its end has asked for all ids of its kinds.     *)
LEMMA AllAsked ==
    ASSUME plan \in Plans \cup {<<>>}, Reported, NEW id \in AllIds, Lists(Kind[id])
    PROVE  id \in asked
<1>1. DOMAIN plan = 1 .. Len(plan)
  <2>1. CASE plan = AllKinds
    BY <2>1 DEF AllKinds
  <2>2. CASE plan = RouteKinds
    BY <2>2 DEF RouteKinds
  <2>3. CASE plan = GuardKinds
    BY <2>3 DEF GuardKinds
  <2>4. CASE plan = <<>>
    BY <2>4
  <2> QED
    BY <2>1, <2>2, <2>3, <2>4 DEF Plans
<1>2. PICK k \in DOMAIN plan : plan[k] = Kind[id]
  BY DEF Lists
<1>3. k \in 1 .. Len(plan)
  BY <1>1
<1>4. id \in IdsUpTo(Len(plan))
  BY <1>2, <1>3 DEF IdsUpTo
<1> QED
  BY <1>4 DEF Reported

LEMMA TurnHasPlan == ASSUME NEW id, Turn(id) PROVE plan # <<>>
  BY DEF Turn

(* What is missing and what is running are sets of gateways.               *)
LEMMA Present ==
    ASSUME NEW resources, resources \subseteq Resources
    PROVE  Missing(resources) \subseteq Targets /\ Running(resources) \subseteq Gateways
<1>1. ASSUME NEW g \in Of("gateway", resources) PROVE g.id \in Gateways
  BY Shape, ResourcesAssumption DEF Of
<1> QED
  BY <1>1 DEF Missing, Running, Ids, Of

LEMMA Initially == Init => IInv
<1> SUFFICES ASSUME Init PROVE IInv
  OBVIOUS
<1>1. oci \subseteq Resources /\ VcnsExist(oci)
  BY StartsAssumption DEF Init
<1>2. TypeOK
  <2>1. changes \in 0 .. MaxChanges
    BY ChangesAssumption DEF Init
  <2> QED
    BY <1>1, <2>1 DEF Init, TypeOK
<1>3. ListedIsTrue
  BY DEF Init, ListedIsTrue
<1>4. ListedIsUp
  BY DEF Init, ListedIsUp, Of
<1>5. ListedOnce
  BY StartsAssumption DEF Init, ListedOnce, OnceEach, Ids
<1> QED
  BY <1>1, <1>2, <1>3, <1>4, <1>5 DEF Init, IInv, GoneIsMissing, UpIsRunning, ReadOrMissing

LEMMA BeginStep ==
    ASSUME IInv, NEW p \in Plans, NEW vcn \in Vcns \cup {NoVcn}, Begin(p, vcn)
    PROVE  IInv'
<1> USE DEF IInv, Begin
<1>1. Missing(oci) \subseteq Targets /\ Running(oci) \subseteq Gateways
  BY Present DEF TypeOK
<1>2. TypeOK'
  BY <1>1 DEF TypeOK
<1>3. GoneIsMissing' /\ UpIsRunning' /\ ReadOrMissing'
  BY DEF GoneIsMissing, UpIsRunning, ReadOrMissing
<1>4. ListedIsUp'
  BY DEF ListedIsUp, Of
<1>5. ListedIsTrue'
  BY DEF ListedIsTrue
<1>6. VcnsExist(oci)'
  OBVIOUS
<1>7. ListedOnce'
  BY DEF ListedOnce, OnceEach, Ids
<1> QED
  BY <1>2, <1>3, <1>4, <1>5, <1>6, <1>7

(* A resource that OCI answers with is a version of what was asked for.    *)
LEMMA Answers ==
    ASSUME TypeOK, NEW id \in AllIds, NEW r \in Answer(id)
    PROVE  r \in oci /\ r \in Resources /\ r \in Resource /\ r.id = id /\ r.kind = Kind[id]
  BY Kinds, ResourcesAssumption DEF TypeOK, Answer

LEMMA ReadStep ==
    ASSUME IInv, NEW id \in AllIds, Read(id)
    PROVE  IInv'
<1> USE DEF IInv
<1>0. plan # <<>>
  BY TurnHasPlan DEF Read
<1>1. PICK r \in Resources : r.id = id /\ r.kind = Kind[id]
  BY Kinds
<1>2. TypeOK'
  <2>1. listed' \subseteq Resource
    BY Answers DEF Read, TypeOK
  <2>2. failed' \subseteq {s.kind : s \in Resources}
    BY <1>1 DEF Read, TypeOK
  <2> QED
    BY <2>1, <2>2 DEF Read, TypeOK
<1>3. GoneIsMissing' /\ UpIsRunning' /\ VcnsExist(oci)'
  BY DEF Read, GoneIsMissing, UpIsRunning
<1>4. ReadOrMissing'
  <2> SUFFICES ASSUME NEW i \in asked', Kind[i] = "gateway"
               PROVE  \/ i \in Ids(Of("gateway", listed'))
                      \/ i \in gone
                      \/ "gateway" \in failed'
                      \/ \E s \in Resources : s.id = i /\ ~InFocus(s, focus)
    BY DEF Read, ReadOrMissing
  <2>1. CASE i \in asked
    BY <2>1 DEF Read, ReadOrMissing, Ids, Of
  <2>2. CASE i = id /\ failed' # failed
    BY <2>2 DEF Read
  <2>3. CASE i = id /\ listed' = listed \cup Answer(id)
    <3>1. CASE \E s \in Answer(id) : TRUE
      BY <2>3, <3>1, Answers DEF Ids, Of
    <3>2. CASE \E s \in oci : s.id = id /\ ~InFocus(s, focus)
      BY <2>3, <3>2 DEF TypeOK
    <3>3. CASE \A s \in oci : s.id # id
      <4>1. id \in Gateways
        BY <1>1, <2>3, Shape, ResourcesAssumption
      <4>2. id \in Missing(oci)
        BY <4>1, <3>3 DEF Missing, Targets, Ids, Of
      <4> QED
        BY <1>0, <2>3, <4>2 DEF GoneIsMissing
    <3> QED
      BY <3>1, <3>2, <3>3 DEF Answer
  <2>4. CASE i = id /\ failed' = failed \cup {Kind[id]}
    BY <2>4
  <2> QED
    BY <2>1, <2>3, <2>4 DEF Read
<1>5. ListedIsUp'
  <2> SUFFICES ASSUME NEW g \in Answer(id), g.kind = "gateway", Enabled(g) # "no"
               PROVE  g.id \in up
    BY DEF Read, ListedIsUp, Of
  <2>1. g.id \in Running(oci)
    BY Answers DEF Running, Ids, Of
  <2> QED
    BY <1>0, <2>1 DEF UpIsRunning
<1>6. ListedIsTrue'
  BY DEF Read, ListedIsTrue, Answer
<1>7. ListedOnce'
  BY DEF Read, ListedOnce, OnceEach, Ids, Answer
<1> QED
  BY <1>2, <1>3, <1>4, <1>5, <1>6, <1>7

LEMMA ReadWithoutRulesStep ==
    ASSUME IInv, NEW id \in AllIds, ReadWithoutRules(id)
    PROVE  IInv'
<1> USE DEF IInv
<1>1. PICK r \in Resources : r.id = id /\ r.kind = Kind[id]
  BY Kinds
<1>2. ASSUME NEW g \in Answer(id)
      PROVE  WithoutRules(g) \in Resource /\ WithoutRules(g).kind = "network_security_group"
  BY <1>2, Answers, Shape DEF ReadWithoutRules
<1>3. TypeOK'
  <2>1. listed' \subseteq Resource
    BY <1>2 DEF ReadWithoutRules, TypeOK
  <2>2. failed' \subseteq {s.kind : s \in Resources}
    BY <1>1 DEF ReadWithoutRules, TypeOK
  <2> QED
    BY <2>1, <2>2 DEF ReadWithoutRules, TypeOK
<1>4. GoneIsMissing' /\ UpIsRunning' /\ VcnsExist(oci)'
  BY DEF ReadWithoutRules, GoneIsMissing, UpIsRunning
<1>5. ReadOrMissing'
  <2>1. Kind[id] # "gateway"
    BY DEF ReadWithoutRules
  <2> QED
    BY <2>1 DEF ReadWithoutRules, ReadOrMissing, Ids, Of
<1>6. ListedIsUp'
  BY <1>2 DEF ReadWithoutRules, ListedIsUp, Of
<1>7. ListedIsTrue'
  BY DEF ReadWithoutRules, ListedIsTrue
<1>8. ListedOnce'
  <2>1. \A g \in Answer(id) : WithoutRules(g).id = id
    BY Answers DEF WithoutRules
  <2>2. \A g, h \in Answer(id) : g = h
    BY Answers DEF ListedOnce, OnceEach
  <2> QED
    BY <2>1, <2>2 DEF ReadWithoutRules, ListedOnce, OnceEach, Ids
<1> QED
  BY <1>3, <1>4, <1>5, <1>6, <1>7, <1>8

LEMMA ChangeStep ==
    ASSUME IInv, NEW id \in AllIds, Change(id)
    PROVE  IInv'
<1> USE DEF IInv
<1>1. oci' \subseteq Resources
  BY DEF Change, TypeOK
<1>2. Missing(oci') \subseteq Targets /\ Running(oci') \subseteq Gateways
  BY <1>1, Present
<1>3. TypeOK'
  <2>1. changes' \in 0 .. MaxChanges
    BY ChangesAssumption DEF Change, TypeOK
  <2> QED
    BY <1>1, <1>2, <2>1 DEF Change, TypeOK
<1>4. GoneIsMissing' /\ UpIsRunning'
  BY DEF Change, GoneIsMissing, UpIsRunning, Missing, Running
<1>5. ReadOrMissing'
  BY DEF Change, ReadOrMissing
<1>6. ListedIsUp'
  BY DEF Change, ListedIsUp
<1>7. ListedIsTrue'
  BY DEF Change, ListedIsTrue
<1>8. VcnsExist(oci)'
  BY DEF Change
<1>9. ListedOnce'
  BY DEF Change, ListedOnce, OnceEach
<1> QED
  BY <1>3, <1>4, <1>5, <1>6, <1>7, <1>8, <1>9

LEMMA Stuttering == ASSUME IInv, UNCHANGED vars PROVE IInv'
  BY DEF IInv, vars, TypeOK, GoneIsMissing, UpIsRunning, ReadOrMissing, ListedIsUp,
         ListedIsTrue, ListedOnce, VcnsExist, Missing, Running

(* The inductive invariant: `gone` and `up` cover the tenancy since the    *)
(* request began, and what was not read has a reason.                      *)
THEOREM Invariance == Spec => []IInv
<1>1. ASSUME IInv, [Next]_vars PROVE IInv'
  BY <1>1, BeginStep, ReadStep, ReadWithoutRulesStep, ChangeStep, Stuttering DEF Next
<1> QED
  BY Initially, <1>1, PTL DEF Spec

(* The types, whatever changes and fails.                                  *)
THEOREM ReportTypes == Spec => []TypeOK
  BY Invariance, PTL DEF IInv

-----------------------------------------------------------------------------
(* A gateway of the tenancy that a request does not find is accounted for. *)
LEMMA NotListed ==
    ASSUME IInv, Reported, Lists("gateway"), NEW target \in Targets,
           target \notin Ids(Of("gateway", listed))
    PROVE  \/ target \in gone
           \/ "gateway" \in failed
           \/ \E r \in Resources : r.id = target /\ ~InFocus(r, focus)
<1>1. CASE target \in AllIds /\ Kind[target] = "gateway"
  BY <1>1, AllAsked DEF IInv, TypeOK, ReadOrMissing
<1>2. CASE ~(target \in AllIds /\ Kind[target] = "gateway")
  <2>1. target \notin Ids(Of("gateway", oci))
    BY <1>2, Kinds DEF IInv, TypeOK, Ids, Of
  <2>2. plan # <<>>
    BY DEF Reported
  <2> QED
    BY <2>1, <2>2 DEF IInv, GoneIsMissing, Missing
<1> QED
  BY <1>1, <1>2

(* An issue of this type has a target, and no gateway was listed for it.   *)
LEMMA Unresolved ==
    ASSUME NEW table \in Resource, table.kind = "route_table", NEW gateways,
           NEW issue \in TableIssues(table, gateways),
           issue.type = "unresolved_route_target"
    PROVE  issue.target \in Targets \ Ids(gateways)
<1>1. table.rules # <<>>
  BY DEF TableIssues
<1>2. PICK k \in DOMAIN table.rules :
         /\ issue.target = table.rules[k].target
         /\ "unresolved_route_target" \in RuleIssues(table.rules, k, gateways)
  BY <1>1 DEF TableIssues
<1>3. "unresolved_route_target" \in TargetIssues(table.rules[k], gateways)
  BY <1>2 DEF RuleIssues
<1>4. table.rules[k].target # NoId /\ Resolved(table.rules[k], gateways) = {}
  BY <1>3 DEF TargetIssues
<1>5. table.rules[k] \in RouteRules
  BY <1>2, Shape
<1> QED
  BY <1>2, <1>4, <1>5 DEF RouteRules, Targets, Resolved, Ids

(* A target is called unresolved only if it was missing, if its listing    *)
(* failed, or if the filter left it out.                                   *)
THEOREM UnresolvedIsTrue == Spec => []UnresolvedIsMissing
<1>1. ASSUME IInv PROVE UnresolvedIsMissing
  <2> SUFFICES ASSUME Reported, Lists("gateway"), NEW issue \in RouteIssues,
                      issue.type = "unresolved_route_target"
               PROVE  \/ issue.target \in gone
                      \/ "gateway" \in failed
                      \/ \E r \in Resources : r.id = issue.target /\ ~InFocus(r, focus)
    BY DEF UnresolvedIsMissing
  <2>1. PICK table \in Of("route_table", listed) :
           issue \in TableIssues(table, Of("gateway", listed))
    BY DEF RouteIssues
  <2>2. table \in Resource /\ table.kind = "route_table"
    BY <1>1, <2>1 DEF IInv, TypeOK, Of
  <2> QED
    BY <1>1, <2>1, <2>2, Unresolved, NotListed
<1> QED
  BY Invariance, <1>1, PTL

-----------------------------------------------------------------------------
(* A rule of a table, its place in it, and the issues that are its own.    *)
LEMMA RuleOfTable ==
    ASSUME NEW table \in Resource, table.kind = "route_table", NEW gateways,
           NEW k \in DOMAIN table.rules
    PROVE  /\ k \in Nat /\ k > 0 /\ \A j \in 1 .. k : j \in DOMAIN table.rules
           /\ table.rules[k] \in RouteRules
           /\ \A type \in RuleIssues(table.rules, k, gateways) :
                 [type |-> type, table |-> table.id, rule |-> k,
                  target |-> table.rules[k].target] \in TableIssues(table, gateways)
           /\ \A issue \in TableIssues(table, gateways) : issue.rule = k =>
                 issue.type \in RuleIssues(table.rules, k, gateways)
<1>1. table.rules \in Seq(RouteRules)
  BY Shape
<1>2. k \in Nat /\ k > 0 /\ \A j \in 1 .. k : j \in DOMAIN table.rules
  BY <1>1
<1>3. table.rules[k] \in RouteRules
  BY <1>1
<1>4. table.rules # <<>>
  BY <1>1
<1>5. ASSUME NEW type \in RuleIssues(table.rules, k, gateways)
      PROVE  [type |-> type, table |-> table.id, rule |-> k,
              target |-> table.rules[k].target] \in TableIssues(table, gateways)
  BY <1>4, <1>5 DEF TableIssues
<1>6. ASSUME NEW issue \in TableIssues(table, gateways), issue.rule = k
      PROVE  issue.type \in RuleIssues(table.rules, k, gateways)
  <2>1. PICK j \in DOMAIN table.rules : \E type \in RuleIssues(table.rules, j, gateways) :
           issue = [type |-> type, table |-> table.id, rule |-> j,
                    target |-> table.rules[j].target]
    BY <1>4, <1>6 DEF TableIssues
  <2> QED
    BY <1>6, <2>1
<1> QED
  BY <1>2, <1>3, <1>5, <1>6

(* A status of "ok" or "low" leaves no issue of a rule.                    *)
LEMMA GoodStatus ==
    ASSUME NEW issues, RouteStatus(issues) \in {"ok", "low"}, NEW issue \in issues
    PROVE  issue.type = "empty_route_table"
<1>1. Severity(issue.type) \notin {"critical", "high", "medium"}
  BY DEF RouteStatus, Worst
<1> QED
  BY <1>1 DEF Severity

(* If the status is good, every rule that was read led to a gateway that   *)
(* was up, none to the Internet by default, and none repeated another one. *)
THEOREM GoodStatusIsTrue == Spec => []GoodStatusIsEarned
<1>1. ASSUME IInv PROVE GoodStatusIsEarned
  <2> DEFINE gateways == Of("gateway", listed)
  <2> SUFFICES ASSUME RouteStatus(RouteIssues) \in {"ok", "low"},
                      NEW table \in Of("route_table", listed),
                      NEW k \in DOMAIN table.rules
               PROVE  /\ table.rules[k].target \in up
                      /\ table.rules[k].destination \in DefaultRoutes =>
                            \A g \in gateways : g.id = table.rules[k].target =>
                                g.type # "internet_gateway"
                      /\ \A j \in DOMAIN table.rules :
                            table.rules[j].destination = table.rules[k].destination => j = k
    BY DEF GoodStatusIsEarned
  <2>1. table \in Resource /\ table.kind = "route_table"
    BY <1>1 DEF IInv, TypeOK, Of
  <2>2. ASSUME NEW j \in DOMAIN table.rules,
               NEW type \in RuleIssues(table.rules, j, gateways)
        PROVE  FALSE
    <3> DEFINE issue == [type |-> type, table |-> table.id, rule |-> j,
                         target |-> table.rules[j].target]
    <3>1. issue \in TableIssues(table, gateways)
      BY <2>1, <2>2, RuleOfTable
    <3>2. issue \in RouteIssues
      BY <3>1 DEF RouteIssues
    <3>3. issue.type = "empty_route_table"
      BY <3>2, GoodStatus
    <3> QED
      BY <2>2, <3>3 DEF RuleIssues, TargetIssues
  <2>3. \A j \in DOMAIN table.rules :
           TargetIssues(table.rules[j], gateways) = {} /\ ~Repeated(table.rules, j)
    BY <2>2 DEF RuleIssues
  <2>4. PICK g \in gateways : g.id = table.rules[k].target
    BY <2>3 DEF TargetIssues, Resolved
  <2>5. \A h \in gateways : h.id = table.rules[k].target =>
           Enabled(h) # "no" /\ ~IsPublicDefault(table.rules[k], h)
    BY <2>3 DEF TargetIssues, Resolved
  <2>6. table.rules[k].target \in up
    BY <1>1, <2>4, <2>5 DEF IInv, ListedIsUp
  <2>7. ASSUME NEW j \in DOMAIN table.rules,
               table.rules[j].destination = table.rules[k].destination
        PROVE  j = k
    <3>1. j \in Nat /\ k \in Nat /\ j > 0 /\ k > 0
      BY <2>1, RuleOfTable
    <3> QED
      BY <2>3, <2>7, <3>1 DEF Repeated
  <2> QED
    BY <2>5, <2>6, <2>7 DEF IsPublicDefault
<1> QED
  BY Invariance, <1>1, PTL

(* A rule that is drawn has a target that was listed, and the other way    *)
(* round.                                                                  *)
THEOREM RoutesDrawn == Spec => []RoutesAreDrawn
<1>1. ASSUME IInv PROVE RoutesAreDrawn
  <2> DEFINE gateways == Of("gateway", listed)
  <2> SUFFICES ASSUME NEW table \in Of("route_table", GraphNodes),
                      NEW k \in DOMAIN table.rules
               PROVE  Edge(table.id, table.rules[k].target, "routes_to") \in GraphEdges <=>
                         ~ \E issue \in RouteIssues :
                               /\ issue.table = table.id /\ issue.rule = k
                               /\ issue.type \in {"missing_route_target",
                                                 "unresolved_route_target"}
    BY DEF RoutesAreDrawn
  <2> DEFINE target == table.rules[k].target
             issues == TableIssues(table, gateways)
             types == RuleIssues(table.rules, k, gateways)
  <2>1. table \in listed /\ table \in Resource /\ table.kind = "route_table"
    BY <1>1 DEF IInv, TypeOK, Of, GraphNodes, Nodes
  <2>2. target \in Targets \cup {NoId}
    BY <2>1, RuleOfTable DEF RouteRules, Targets
  <2>3. \A t \in listed : t.id = table.id => t = table
    BY <1>1, <2>1 DEF IInv, ListedOnce, OnceEach
  <2>4. Edge(table.id, target, "routes_to") \in GraphEdges <=> target \in Ids(gateways)
    <3>1. ASSUME target \in Ids(gateways)
          PROVE  Edge(table.id, target, "routes_to") \in GraphEdges
      <4>1. PICK g \in gateways : g.id = target
        BY <3>1 DEF Ids
      <4>2. g \in GraphNodes
        BY DEF GraphNodes, Nodes, Of
      <4>3. target # NoId
        BY <1>1, <4>1, Shape, NoIdAssumption DEF IInv, TypeOK, Of
      <4>4. Edge(table.id, target, "routes_to") \in RouteEdges(GraphNodes)
        BY <4>3 DEF RouteEdges
      <4>5. table.id \in Ids(GraphNodes) /\ target \in Ids(GraphNodes)
        BY <4>1, <4>2 DEF Ids, Of
      <4> QED
        BY <4>4, <4>5 DEF GraphEdges, Edges, AllEdges, Edge
    <3>2. ASSUME Edge(table.id, target, "routes_to") \in GraphEdges
          PROVE  target \in Ids(gateways)
      <4>1. PICK n \in GraphNodes : n.id = target
        BY <3>2 DEF GraphEdges, Edges, Edge, Ids
      <4>2. n \in listed /\ n \in Resource
        BY <1>1 DEF IInv, TypeOK, GraphNodes, Nodes
      <4>3. n.kind = "gateway"
        BY <2>2, <4>1, <4>2, NoIdAssumption, ElsewhereAssumption, GatewaysAssumption
        DEF Resource, Targets
      <4> QED
        BY <4>1, <4>2, <4>3 DEF Ids, Of
    <3> QED
      BY <3>1, <3>2
  <2>5. (\E issue \in RouteIssues :
            /\ issue.table = table.id /\ issue.rule = k
            /\ issue.type \in {"missing_route_target", "unresolved_route_target"})
        <=> \E type \in types : type \in {"missing_route_target", "unresolved_route_target"}
    <3>1. ASSUME NEW issue \in RouteIssues, issue.table = table.id, issue.rule = k
          PROVE  issue.type \in types
      <4>1. PICK t \in Of("route_table", listed) : issue \in TableIssues(t, gateways)
        BY DEF RouteIssues
      <4>2. issue.table = t.id
        BY <4>1 DEF TableIssues
      <4>3. t = table
        BY <2>3, <3>1, <4>2 DEF Of
      <4> QED
        BY <2>1, <3>1, <4>1, <4>3, RuleOfTable
    <3>2. ASSUME NEW type \in types
          PROVE  \E issue \in RouteIssues :
                    issue.table = table.id /\ issue.rule = k /\ issue.type = type
      <4>1. [type |-> type, table |-> table.id, rule |-> k, target |-> target] \in issues
        BY <2>1, RuleOfTable
      <4>2. issues \subseteq RouteIssues
        BY <2>1 DEF RouteIssues, Of
      <4> QED
        BY <4>1, <4>2
    <3> QED
      BY <3>1, <3>2
  <2>6. (\E type \in types : type \in {"missing_route_target", "unresolved_route_target"})
        <=> target \notin Ids(gateways)
    <3>1. NoId \notin Ids(gateways)
      BY <1>1, Shape, NoIdAssumption DEF IInv, TypeOK, Ids, Of
    <3> QED
      BY <3>1 DEF RuleIssues, TargetIssues, Resolved, Ids
  <2> QED
    BY <2>4, <2>5, <2>6
<1> QED
  BY Invariance, <1>1, PTL

-----------------------------------------------------------------------------
(* An undisturbed request has read all there is of the kinds of its plan.  *)
LEMMA Undisturbed ==
    ASSUME IInv, Reported, failed = {}, ~changed, NEW kind, Lists(kind)
    PROVE  Of(kind, listed) = {r \in Of(kind, oci) : InFocus(r, focus)}
<1>1. listed = {r \in oci : r.id \in asked /\ InFocus(r, focus)}
  BY DEF IInv, ListedIsTrue
<1>2. ASSUME NEW r \in oci, r.kind = kind PROVE r.id \in asked
  <2>1. r.id \in AllIds /\ Kind[r.id] = kind
    BY <1>2, Kinds DEF IInv, TypeOK
  <2> QED
    BY <2>1, AllAsked DEF IInv, TypeOK
<1> QED
  BY <1>1, <1>2 DEF Of

(* An undisturbed report of the posture has a finding for each list and    *)
(* group that is open, for no other, and tells how bad it is.              *)
THEOREM PostureComplete == Spec => []PostureIsComplete
<1>1. ASSUME IInv PROVE PostureIsComplete
  <2> DEFINE guards == {guard \in Guards(oci) : InFocus(guard, focus)}
             Open(guard) == {rule \in guard.rules : Admits(rule, Ssh) \/ Admits(rule, Rdp)}
  <2> SUFFICES ASSUME Reported, Lists("security_list"), failed = {}, ~changed
               PROVE  /\ \A guard \in guards :
                            (\E rule \in Open(guard) : rule.to = <<>> => rule.from = <<>>) =>
                                guard.id \in {finding.resource : finding \in PostureFindings}
                      /\ \A finding \in PostureFindings :
                            \E guard \in guards : guard.id = finding.resource /\ Open(guard) # {}
                      /\ PostureStatus(PostureFindings) = "critical" <=>
                            \E guard \in guards, rule \in UNION {g.rules : g \in guards} :
                                /\ rule \in guard.rules
                                /\ rule.source = Public /\ rule.protocol = "all"
    BY DEF PostureIsComplete
  <2>1. Guards(listed) = guards
    <3>1. Lists("network_security_group")
      <4>1. plan \in {AllKinds, GuardKinds}
        BY <1>1 DEF IInv, TypeOK, Plans, RouteKinds, Lists
      <4> QED
        BY <4>1 DEF AllKinds, GuardKinds, Lists
    <3> QED
      BY <1>1, <3>1, Undisturbed DEF Guards
  <2>2. ASSUME NEW guard \in guards, NEW rule \in guard.rules
        PROVE  /\ rule.source \in STRING /\ rule.protocol \in {"all", "tcp", "udp", "icmp"}
               /\ rule.to \in Ranges /\ rule.from \in Ranges
    <3>1. guard \in Resource /\ guard.kind \in {"security_list", "network_security_group"}
      BY <1>1, ResourcesAssumption DEF IInv, TypeOK, Guards, Of
    <3>2. guard.rules \subseteq IngressRules
      BY <3>1 DEF Resource
    <3> QED
      BY <3>2 DEF IngressRules
  <2>3. ASSUME NEW guard \in guards, NEW rule \in Open(guard), rule.to = <<>> => rule.from = <<>>
        PROVE  RuleFinding(rule) # {}
    <3>1. ASSUME NEW port, Admits(rule, port), rule.protocol # "all"
          PROVE  PortInRule(rule, port)
      <4>1. CASE rule.to = <<>>
        BY <2>3, <3>1, <4>1 DEF Admits, PortInRule, Ports
      <4>2. CASE rule.to # <<>>
        BY <3>1, <4>2 DEF Admits, PortInRule, Ports
      <4> QED
        BY <4>1, <4>2
    <3>2. Admits(rule, Ssh) \/ Admits(rule, Rdp)
      BY <2>3
    <3>3. rule.source = Public
      BY <3>2 DEF Admits
    <3> QED
      BY <3>1, <3>2, <3>3 DEF RuleFinding
  <2>4. ASSUME NEW guard \in guards, NEW rule \in guard.rules, RuleFinding(rule) # {}
        PROVE  rule \in Open(guard)
    BY <2>2, <2>4 DEF RuleFinding, Admits, PortInRule, Ports, Ssh, Rdp
  <2>5. ASSUME NEW guard \in guards, NEW rule \in guard.rules, NEW type \in RuleFinding(rule)
        PROVE  [type |-> type, resource |-> guard.id] \in PostureFindings
    BY <2>1, <2>5 DEF PostureFindings, Findings
  <2>6. ASSUME NEW finding \in PostureFindings
        PROVE  \E guard \in guards : /\ guard.id = finding.resource
                                      /\ \E rule \in guard.rules : finding.type \in RuleFinding(rule)
    BY <2>1 DEF PostureFindings, Findings
  <2>7. \A guard \in guards :
           (\E rule \in Open(guard) : rule.to = <<>> => rule.from = <<>>) =>
               guard.id \in {finding.resource : finding \in PostureFindings}
    <3> SUFFICES ASSUME NEW guard \in guards, NEW rule \in Open(guard),
                        rule.to = <<>> => rule.from = <<>>
                 PROVE  \E finding \in PostureFindings : finding.resource = guard.id
      OBVIOUS
    <3>1. PICK type \in RuleFinding(rule) : TRUE
      BY <2>3
    <3> QED
      BY <2>5, <3>1
  <2>8. \A finding \in PostureFindings :
           \E guard \in guards : guard.id = finding.resource /\ Open(guard) # {}
    BY <2>4, <2>6
  <2>9. PostureStatus(PostureFindings) = "critical" <=>
           \E finding \in PostureFindings : finding.type = "public_all_protocols"
    BY DEF PostureStatus, FindingSeverity
  <2>10. (\E finding \in PostureFindings : finding.type = "public_all_protocols") <=>
            \E guard \in guards : \E rule \in guard.rules :
                "public_all_protocols" \in RuleFinding(rule)
    BY <2>5, <2>6
  <2>11. ASSUME NEW guard \in guards, NEW rule \in guard.rules
         PROVE  "public_all_protocols" \in RuleFinding(rule) <=>
                   rule.source = Public /\ rule.protocol = "all"
    BY DEF RuleFinding
  <2> QED
    BY <2>7, <2>8, <2>9, <2>10, <2>11
<1> QED
  BY Invariance, <1>1, PTL

(* An undisturbed graph is all there is, each resource linked to its VCN.  *)
THEOREM WholeGraph == Spec => []GraphIsWhole
<1>1. ASSUME IInv PROVE GraphIsWhole
  <2> SUFFICES ASSUME Reported, plan = AllKinds, failed = {}, ~changed
               PROVE  /\ GraphNodes = {r \in oci : focus = NoVcn \/ r.vcn = focus}
                      /\ \A r \in GraphNodes : r.kind # "vcn" /\ r.vcn # NoVcn =>
                            Edge(r.vcn, r.id, r.kind) \in GraphEdges
    BY DEF GraphIsWhole
  <2>1. \A r \in oci : r \in Resource /\ Lists(r.kind)
    <3>1. DOMAIN plan = 1 .. 6
      BY DEF AllKinds
    <3>2. \A r \in oci : r \in Resource
      BY <1>1, ResourcesAssumption DEF IInv, TypeOK
    <3> QED
      BY <3>1, <3>2, Shape DEF Lists
  <2>2. listed = {r \in oci : InFocus(r, focus)}
    <3>1. ASSUME NEW r \in oci, InFocus(r, focus) PROVE r \in listed
      BY <1>1, <2>1, <3>1, Undisturbed DEF Of
    <3> QED
      BY <1>1, <3>1 DEF IInv, ListedIsTrue
  <2>3. GraphNodes = {r \in oci : focus = NoVcn \/ r.vcn = focus}
    <3>1. CASE focus # NoVcn
      <4>1. \A r \in listed : r.kind = "gateway" => r.vcn = focus
        BY <2>2, <3>1 DEF InFocus
      <4> QED
        BY <2>2, <3>1, <4>1 DEF GraphNodes, Nodes, SelectedVcns, InFocus
    <3>2. CASE focus = NoVcn
      <4>1. listed = oci
        BY <2>2, <3>2 DEF InFocus
      <4>2. \A r \in oci : r.kind # "gateway" => r.vcn \in Ids(Of("vcn", oci))
        BY <1>1, <2>1, Shape, NoVcnAssumption DEF IInv, VcnsExist
      <4> QED
        BY <3>2, <4>1, <4>2 DEF GraphNodes, Nodes, SelectedVcns
    <3> QED
      BY <3>1, <3>2
  <2>4. ASSUME NEW r \in GraphNodes, r.kind # "vcn", r.vcn # NoVcn
        PROVE  Edge(r.vcn, r.id, r.kind) \in GraphEdges
    <3>1. r \in oci
      BY <2>3
    <3>2. PICK v \in oci : v.kind = "vcn" /\ v.id = r.vcn
      BY <1>1, <2>4, <3>1 DEF IInv, VcnsExist, Ids, Of
    <3>3. v.vcn = r.vcn
      BY <2>1, <3>2, Shape
    <3>4. v \in GraphNodes
      BY <2>3, <3>2, <3>3
    <3>5. Edge(r.vcn, r.id, r.kind) \in ContainsEdges(GraphNodes)
      BY <2>4 DEF ContainsEdges
    <3>6. r.vcn \in Ids(GraphNodes) /\ r.id \in Ids(GraphNodes)
      BY <3>2, <3>4 DEF Ids
    <3> QED
      BY <3>5, <3>6 DEF GraphEdges, Edges, AllEdges, Edge
  <2> QED
    BY <2>3, <2>4
<1> QED
  BY Invariance, <1>1, PTL
=============================================================================

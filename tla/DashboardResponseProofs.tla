---------------------- MODULE DashboardResponseProofs -----------------------
(***************************************************************************)
(* The jobs of one request and the responses made of their snapshots, for  *)
(* any regions, any plan of listings, any set of types and any             *)
(* interleaving.                                                           *)
(*                                                                         *)
(* No region is ever blamed for another one, however many jobs share the   *)
(* inventory service; and a job during which no other one starts has one   *)
(* view of each type and reports every listing that failed.                *)
(*                                                                         *)
(* In every response warnings have causes, "ready" means that nothing      *)
(* failed, and zero means zero.  This needs to know, beside that, which    *)
(* issues name a listing, and that a table is one of the answers seen.     *)
(***************************************************************************)
EXTENDS DashboardResponse, TLAPS


(* The listing that a job is about to store is one of the plan, and the    *)
(* cache does not have it.                                                 *)
Working(r) == At(r, "storing") => /\ job[r].next \in 1 .. Len(Plan)
                                  /\ job[r].fetched \in Listings
                                  /\ cache[r][Listed(r)] = "none"

IInv ==
    /\ TypeOK
    /\ \A r \in Regions : Working(r)

(* What is in the list, or in a report, of whichever region, has failed.   *)
Blame ==
    \A r, s \in Regions, t \in Types :
        <<r, t>> \in issues \/ <<r, t>> \in job[s].report => t \in job[r].failed

(* Types are told apart and updated one at a time.                         *)
LEMMA AnsweredStep ==
    ASSUME IInv, NEW r \in Regions, job[r].next \in 1 .. Len(Plan),
           NEW answer \in Listings, Answered(r, answer)
    PROVE  /\ job' \in [Regions -> Job]
           /\ \A s \in Regions \ {r} : job'[s] = job[s]
           /\ job'[r].pc = "listing" /\ job'[r].next = job[r].next + 1
           /\ job'[r].failed = job[r].failed /\ job'[r].report = job[r].report
           /\ job'[r].seen[Listed(r)] = job[r].seen[Listed(r)] \cup {answer}
           /\ job'[r].first[Listed(r)] = IF job[r].first[Listed(r)] = "none" THEN answer
                                         ELSE job[r].first[Listed(r)]
           /\ \A t \in Types \ {Listed(r)} : /\ job'[r].seen[t] = job[r].seen[t]
                                             /\ job'[r].first[t] = job[r].first[t]
<1> DEFINE u == Listed(r)
<1> DEFINE first == [job[r].first EXCEPT ![u] = IF @ = "none" THEN answer ELSE @]
<1> DEFINE seen == [job[r].seen EXCEPT ![u] = @ \cup {answer}]
<1> DEFINE new == [job[r] EXCEPT !.pc = "listing", !.next = @ + 1, !.fetched = "none",
                                 !.first = first, !.seen = seen]
<1>1. job \in [Regions -> Job] /\ job[r] \in Job
  BY DEF IInv, TypeOK
<1>2. u \in Types
  BY PlanAssumption DEF Listed
<1>3. job[r].next + 1 \in 1 .. Len(Plan) + 1
  BY PlanAssumption
<1>4. job' = [job EXCEPT ![r] = new]
  BY <1>1 DEF Answered, Job
<1>5. first \in [Types -> Listings \cup {"none"}] /\ seen \in [Types -> SUBSET Listings]
  BY <1>1, <1>2 DEF Job
<1> HIDE DEF first, seen
<1>6. new \in Job
  BY <1>1, <1>3, <1>5 DEF Job
<1>7. /\ new.pc = "listing" /\ new.next = job[r].next + 1
      /\ new.failed = job[r].failed /\ new.report = job[r].report
      /\ new.seen = seen /\ new.first = first
  BY <1>1 DEF Job
<1>8. /\ seen[u] = job[r].seen[u] \cup {answer}
      /\ first[u] = IF job[r].first[u] = "none" THEN answer ELSE job[r].first[u]
      /\ \A t \in Types \ {u} : seen[t] = job[r].seen[t] /\ first[t] = job[r].first[t]
  BY <1>1, <1>2 DEF seen, first, Job
<1> HIDE DEF new
<1>9. QED
  BY <1>1, <1>4, <1>6, <1>7, <1>8

(* Init establishes the invariants.                                        *)
LEMMA InitIInv == Init => IInv /\ Blame
<1>1. SUFFICES ASSUME Init PROVE IInv /\ Blame
  OBVIOUS
<1>2. Queued \in Job
  <2>1. 1 \in 1 .. Len(Plan) + 1
    BY PlanAssumption
  <2>2. QED
    BY <2>1 DEF Queued, Job, NoListing, Issues
<1>3. TypeOK
  BY <1>1, <1>2 DEF Init, TypeOK, NoListing, Issues
<1>4. QED
  BY <1>1, <1>3 DEF Init, IInv, Working, Blame, Queued, At

(* A job starts and clears what the jobs share.                            *)
LEMMA StartStep ==
    ASSUME IInv, NEW r \in Regions, Start(r)
    PROVE  /\ IInv' /\ issues' = {}
           /\ \A s \in Regions, t \in Types : cache'[s][t] = "none"
           /\ \A s \in Regions : /\ job'[s].failed = job[s].failed
                                 /\ job'[s].report = job[s].report
                                 /\ job'[s].seen = job[s].seen
                                 /\ job'[s].first = job[s].first
           /\ job'[r].pc = "listing"
           /\ \A s \in Regions \ {r} : job'[s] = job[s]
           /\ disturbed' = disturbed \cup {s \in Regions : Underway(s)}
<1> DEFINE new == [job[r] EXCEPT !.pc = "listing"]
<1>1. job \in [Regions -> Job] /\ job[r] \in Job
  BY DEF IInv, TypeOK
<1>2. /\ issues' = {} /\ cache' = [s \in Regions |-> NoListing]
      /\ job' = [job EXCEPT ![r] = new]
      /\ disturbed' = disturbed \cup {s \in Regions : Underway(s)}
  BY <1>1 DEF Start
<1>3. /\ new \in Job /\ new.pc = "listing" /\ new.failed = job[r].failed
      /\ new.report = job[r].report /\ new.seen = job[r].seen /\ new.first = job[r].first
  BY <1>1 DEF Job
<1> HIDE DEF new
<1>4. TypeOK'
  BY <1>1, <1>2, <1>3 DEF IInv, TypeOK, NoListing, Issues
<1>5. \A s \in Regions : Working(s)'
  <2>1. SUFFICES ASSUME NEW s \in Regions, At(s, "storing")' PROVE Working(s)'
    BY DEF Working
  <2>2. s # r /\ job'[s] = job[s]
    BY <2>1, <1>1, <1>2, <1>3 DEF At
  <2>3. Working(s) /\ At(s, "storing")
    BY <2>1, <2>2 DEF IInv, At
  <2>4. Listed(s) \in Types
    BY <2>3, PlanAssumption DEF Working, Listed
  <2>5. Listed(s)' = Listed(s)
    BY <2>2 DEF Listed
  <2>6. QED
    BY <2>2, <2>3, <2>4, <2>5, <1>2 DEF Working, NoListing
<1>6. QED
  BY <1>1, <1>2, <1>3, <1>4, <1>5 DEF IInv, NoListing

(* A listing is asked of OCI.                                              *)
LEMMA FetchStep ==
    ASSUME IInv, NEW r \in Regions, NEW answer \in Listings, NEW ok \in BOOLEAN,
           Fetch(r, answer, ok)
    PROVE  /\ IInv'
           /\ Listed(r) \in Types /\ job[r].next \in 1 .. Len(Plan)
           /\ job'[r].pc = "storing" /\ job'[r].next = job[r].next
           /\ job'[r].report = job[r].report /\ job'[r].seen = job[r].seen
           /\ job'[r].first = job[r].first
           /\ \A s \in Regions \ {r} : job'[s] = job[s]
           /\ cache' = cache /\ disturbed' = disturbed
           /\ \/ job'[r].failed = job[r].failed /\ issues' = issues
              \/ /\ job'[r].failed = job[r].failed \cup {Listed(r)}
                 /\ issues' = issues \cup {<<r, Listed(r)>>}
<1> DEFINE failed == IF ok THEN job[r].failed ELSE job[r].failed \cup {Listed(r)}
<1> DEFINE new == [job[r] EXCEPT !.pc = "storing", !.fetched = answer, !.failed = failed]
<1>1. job \in [Regions -> Job] /\ job[r] \in Job
  BY DEF IInv, TypeOK
<1>2. job[r].next \in 1 .. Len(Plan)
  BY <1>1, PlanAssumption DEF Fetch, Job
<1>3. Listed(r) \in Types
  BY <1>2, PlanAssumption DEF Listed
<1>4. job' = [job EXCEPT ![r] = new]
  BY <1>1 DEF Fetch
<1>5. failed \in SUBSET Types
  BY <1>1, <1>3 DEF Job
<1> HIDE DEF failed
<1>6. /\ new \in Job /\ new.pc = "storing" /\ new.next = job[r].next
      /\ new.fetched = answer /\ new.failed = failed
      /\ new.report = job[r].report /\ new.seen = job[r].seen /\ new.first = job[r].first
  BY <1>1, <1>5 DEF Job
<1> HIDE DEF new
<1>7. /\ issues' = IF ok THEN issues ELSE issues \cup {<<r, Listed(r)>>}
      /\ cache' = cache /\ disturbed' = disturbed
  BY DEF Fetch, NewIssues
<1>8. TypeOK'
  BY <1>1, <1>3, <1>4, <1>6, <1>7 DEF IInv, TypeOK, Issues
<1>9. \A s \in Regions : Working(s)'
  BY <1>1, <1>2, <1>4, <1>6, <1>7 DEF IInv, Working, At, Fetch, Listed
<1>10. \/ failed = job[r].failed /\ issues' = issues
       \/ failed = job[r].failed \cup {Listed(r)} /\ issues' = issues \cup {<<r, Listed(r)>>}
  BY <1>7 DEF failed
<1>11. QED
  BY <1>1, <1>2, <1>3, <1>4, <1>6, <1>7, <1>8, <1>9, <1>10 DEF IInv

(* A listing is answered from the cache, or stored in it.                  *)
LEMMA AnswerStep ==
    ASSUME IInv, NEW r \in Regions, ListCached(r) \/ Store(r)
    PROVE  /\ IInv' /\ issues' = issues /\ disturbed' = disturbed
           /\ Listed(r) \in Types
           /\ \A s \in Regions \ {r} : job'[s] = job[s] /\ cache'[s] = cache[s]
           /\ job'[r].pc = "listing"
           /\ job'[r].failed = job[r].failed /\ job'[r].report = job[r].report
           /\ cache'[r][Listed(r)] \in Listings
           /\ job'[r].seen[Listed(r)] = job[r].seen[Listed(r)] \cup {cache'[r][Listed(r)]}
           /\ job'[r].first[Listed(r)] = IF job[r].first[Listed(r)] = "none"
                                         THEN cache'[r][Listed(r)]
                                         ELSE job[r].first[Listed(r)]
           /\ \A t \in Types \ {Listed(r)} : /\ job'[r].seen[t] = job[r].seen[t]
                                             /\ job'[r].first[t] = job[r].first[t]
                                             /\ cache'[r][t] = cache[r][t]
<1>1. job \in [Regions -> Job] /\ job[r] \in Job
      /\ cache \in [Regions -> [Types -> Listings \cup {"none"}]]
  BY DEF IInv, TypeOK
<1>2. job[r].next \in 1 .. Len(Plan)
  BY <1>1, PlanAssumption DEF ListCached, Store, IInv, Working, Job
<1>3. Listed(r) \in Types
  BY <1>2, PlanAssumption DEF Listed
<1>4. PICK answer \in Listings :
         /\ Answered(r, answer)
         /\ cache' = [cache EXCEPT ![r][Listed(r)] = answer]
         /\ issues' = issues /\ disturbed' = disturbed
  <2>1. CASE ListCached(r)
    <3>1. cache[r][Listed(r)] \in Listings
      BY <1>1, <1>3, <2>1 DEF ListCached
    <3>2. cache' = [cache EXCEPT ![r][Listed(r)] = cache[r][Listed(r)]]
      BY <1>1, <1>3, <2>1 DEF ListCached
    <3>3. QED
      BY <2>1, <3>1, <3>2 DEF ListCached
  <2>2. CASE Store(r)
    BY <2>2 DEF Store, Stored, IInv, Working
  <2>3. QED
    BY <2>1, <2>2
<1>5. /\ cache' \in [Regions -> [Types -> Listings \cup {"none"}]]
      /\ cache'[r][Listed(r)] = answer
      /\ \A t \in Types \ {Listed(r)} : cache'[r][t] = cache[r][t]
      /\ \A s \in Regions \ {r} : cache'[s] = cache[s]
  BY <1>1, <1>3, <1>4
<1>6. /\ job' \in [Regions -> Job]
      /\ \A s \in Regions \ {r} : job'[s] = job[s]
      /\ job'[r].pc = "listing"
      /\ job'[r].failed = job[r].failed /\ job'[r].report = job[r].report
      /\ job'[r].seen[Listed(r)] = job[r].seen[Listed(r)] \cup {answer}
      /\ job'[r].first[Listed(r)] = IF job[r].first[Listed(r)] = "none" THEN answer
                                    ELSE job[r].first[Listed(r)]
      /\ \A t \in Types \ {Listed(r)} : /\ job'[r].seen[t] = job[r].seen[t]
                                        /\ job'[r].first[t] = job[r].first[t]
  BY <1>2, <1>4, AnsweredStep
<1>7. IInv'
  BY <1>4, <1>5, <1>6 DEF IInv, TypeOK, Working, At, Listed
<1>8. QED
  BY <1>3, <1>4, <1>5, <1>6, <1>7

(* The snapshot is done.                                                   *)
LEMMA ReportStep ==
    ASSUME IInv, NEW r \in Regions, Report(r)
    PROVE  /\ IInv' /\ issues' = issues /\ cache' = cache /\ disturbed' = disturbed
           /\ \A s \in Regions \ {r} : job'[s] = job[s]
           /\ job'[r].pc = "done" /\ job'[r].report = issues
           /\ job'[r].first = job[r].first
           /\ job'[r].failed = job[r].failed /\ job'[r].seen = job[r].seen
<1> DEFINE new == [job[r] EXCEPT !.pc = "done", !.report = issues]
<1>1. job \in [Regions -> Job] /\ job[r] \in Job /\ issues \subseteq Issues
  BY DEF IInv, TypeOK
<1>2. /\ job' = [job EXCEPT ![r] = new]
      /\ issues' = issues /\ cache' = cache /\ disturbed' = disturbed
  BY <1>1 DEF Report
<1>3. /\ new \in Job /\ new.pc = "done" /\ new.report = issues /\ new.first = job[r].first
      /\ new.failed = job[r].failed /\ new.seen = job[r].seen
  BY <1>1 DEF Job
<1> HIDE DEF new
<1>4. QED
  BY <1>1, <1>2, <1>3 DEF IInv, TypeOK, Working, At, Listed

(* The job fails.                                                          *)
LEMMA BreakStep ==
    ASSUME IInv, NEW r \in Regions, Break(r)
    PROVE  /\ IInv' /\ issues' = issues /\ cache' = cache /\ disturbed' = disturbed
           /\ \A s \in Regions \ {r} : job'[s] = job[s]
           /\ job'[r].pc = "failed" /\ job'[r].report = {<<r, AnyType>>}
           /\ job'[r].failed = job[r].failed /\ job'[r].seen = job[r].seen
<1> DEFINE report == {<<r, AnyType>>}
<1> DEFINE new == [job[r] EXCEPT !.pc = "failed", !.first = NoListing, !.report = report]
<1>1. /\ job \in [Regions -> Job] /\ job[r] \in Job
      /\ NoListing \in [Types -> Listings \cup {"none"}] /\ report \in SUBSET Issues
  BY DEF IInv, TypeOK, NoListing, Issues
<1>2. /\ job' = [job EXCEPT ![r] = new]
      /\ issues' = issues /\ cache' = cache /\ disturbed' = disturbed
  BY <1>1 DEF Break
<1> HIDE DEF report
<1>3. /\ new \in Job /\ new.pc = "failed" /\ new.report = report
      /\ new.failed = job[r].failed /\ new.seen = job[r].seen
  BY <1>1 DEF Job
<1> HIDE DEF new
<1>4. QED
  BY <1>1, <1>2, <1>3 DEF IInv, TypeOK, Working, At, Listed, report

(* The types and the blame hold in every reachable state.                  *)
THEOREM CollectionInvariance == Spec => [](IInv /\ Blame)
<1>1. IInv /\ Blame /\ [Next]_vars => IInv' /\ Blame'
  <2>1. SUFFICES ASSUME IInv, Blame, [Next]_vars PROVE IInv' /\ Blame'
    OBVIOUS
  <2>2. ASSUME NEW r \in Regions, Start(r) PROVE IInv' /\ Blame'
    BY <2>1, <2>2, StartStep DEF Blame
  <2>3. ASSUME NEW r \in Regions, ListCached(r) \/ Store(r) PROVE IInv' /\ Blame'
    BY <2>1, <2>3, AnswerStep DEF Blame
  <2>4. ASSUME NEW r \in Regions, NEW answer \in Listings, NEW ok \in BOOLEAN, Fetch(r, answer, ok)
        PROVE  IInv' /\ Blame'
    <3>1. SUFFICES ASSUME NEW s \in Regions, NEW v \in Regions, NEW t \in Types,
                          <<s, t>> \in issues' \/ <<s, t>> \in job'[v].report
                   PROVE  t \in job'[s].failed
      BY <2>1, <2>4, FetchStep DEF Blame
    <3>2. job'[v].report = job[v].report /\ job[s].failed \subseteq job'[s].failed
      BY <2>4, FetchStep, <2>1
    <3>3. <<s, t>> \in issues \/ <<s, t>> \in job[v].report => t \in job[s].failed
      BY <2>1 DEF Blame
    <3>4. CASE <<s, t>> \in issues' /\ <<s, t>> \notin issues
      <4>1. <<s, t>> = <<r, Listed(r)>> /\ job'[r].failed = job[r].failed \cup {Listed(r)}
        BY <3>4, <2>1, <2>4, FetchStep
      <4>2. s = r /\ t = Listed(r)
        BY <4>1
      <4>3. QED
        BY <4>1, <4>2
    <3>5. QED
      BY <3>1, <3>2, <3>3, <3>4
  <2>5. ASSUME NEW r \in Regions, Report(r) PROVE IInv' /\ Blame'
    BY <2>1, <2>5, ReportStep DEF Blame
  <2>6. ASSUME NEW r \in Regions, Break(r) PROVE IInv' /\ Blame'
    BY <2>1, <2>6, BreakStep, AnyTypeAssumption DEF Blame
  <2>7. CASE UNCHANGED vars
    BY <2>1, <2>7 DEF vars, IInv, TypeOK, Working, At, Listed, Blame
  <2>8. QED
    BY <2>1, <2>2, <2>3, <2>4, <2>5, <2>6, <2>7 DEF Next, Collect
<1>2. QED
  BY <1>1, InitIInv, PTL DEF Spec

(* Jobs, cache, issues and histories stay in their types.                  *)
THEOREM CollectionTypes == Spec => []TypeOK
<1>1. IInv => TypeOK
  BY DEF IInv
<1>2. QED
  BY <1>1, CollectionInvariance, PTL

(* However many jobs share the service, a region is warned about only for  *)
(* listings of its own that failed.                                        *)
THEOREM NobodyElseBlamed == Spec => []NoForeignBlame
<1>1. IInv /\ Blame => NoForeignBlame
  BY DEF Blame, NoForeignBlame, OwnIssues
<1>2. QED
  BY <1>1, CollectionInvariance, PTL

-----------------------------------------------------------------------------
(* As long as no other job starts, what a job has seen of a type is what   *)
(* the cache holds, and every failure is in the list until it is in the    *)
(* report.                                                                 *)
SeenOK(r, t) ==
    /\ Underway(r) => job[r].seen[t] \subseteq {cache[r][t]} \ {"none"}
    /\ At(r, "queued") => job[r].seen[t] = {} /\ job[r].failed = {}
    /\ \A a, b \in job[r].seen[t] : a = b

FailedOK(r, t) ==
    t \in job[r].failed => /\ At(r, "done") => <<r, t>> \in job[r].report
                           /\ Underway(r) => <<r, t>> \in issues

Undisturbed ==
    \A r \in Regions, t \in Types :
        /\ At(r, "queued") => job[r].seen[t] = {} /\ job[r].failed = {}
        /\ r \notin disturbed => SeenOK(r, t) /\ FailedOK(r, t)

(* A job keeps this invariant unless another one starts.                   *)
LEMMA UndisturbedInvariance == Spec => []Undisturbed
<1>1. Init => Undisturbed
  BY DEF Init, Undisturbed, SeenOK, FailedOK, Underway, Queued, At
<1>2. IInv /\ Undisturbed /\ [Next]_vars => Undisturbed'
  <2>1. SUFFICES ASSUME IInv, Undisturbed, [Next]_vars,
                        NEW r \in Regions, NEW t \in Types
                 PROVE  /\ At(r, "queued")' => job'[r].seen[t] = {} /\ job'[r].failed = {}
                        /\ r \notin disturbed' => SeenOK(r, t)' /\ FailedOK(r, t)'
    BY DEF Undisturbed
  <2>2. /\ At(r, "queued") => job[r].seen[t] = {} /\ job[r].failed = {}
        /\ r \notin disturbed => SeenOK(r, t) /\ FailedOK(r, t)
    BY <2>1 DEF Undisturbed
  <2>3. ASSUME NEW s \in Regions, Collect(s), s # r
        PROVE  /\ At(r, "queued")' => job'[r].seen[t] = {} /\ job'[r].failed = {}
               /\ r \notin disturbed' => SeenOK(r, t)' /\ FailedOK(r, t)'
    <3>1. job'[r] = job[r] /\ disturbed \subseteq disturbed'
      <4>1. CASE Start(s)
        BY <4>1, <2>1, <2>3, StartStep
      <4>2. CASE ListCached(s) \/ Store(s)
        BY <4>2, <2>1, <2>3, AnswerStep
      <4>3. CASE Report(s)
        BY <4>3, <2>1, <2>3, ReportStep
      <4>4. ASSUME NEW answer \in Listings, NEW ok \in BOOLEAN, Fetch(s, answer, ok)
            PROVE  job'[r] = job[r] /\ disturbed \subseteq disturbed'
        BY <4>4, <2>1, <2>3, FetchStep
      <4>5. CASE Break(s)
        BY <4>5, <2>1, <2>3, BreakStep
      <4>6. QED
        BY <2>3, <4>1, <4>2, <4>3, <4>4, <4>5 DEF Collect
    <3>2. CASE Start(s)
      <4>1. r \notin disturbed' => ~Underway(r)
        BY <3>2 DEF Start
      <4>2. r \notin disturbed' => At(r, "queued") \/ At(r, "done") \/ At(r, "failed")
        BY <4>1, <2>1 DEF IInv, TypeOK, Job, Underway, At
      <4>3. r \notin disturbed' => SeenOK(r, t)'
        BY <2>2, <3>1, <4>1, <4>2 DEF SeenOK, Underway, At
      <4>4. r \notin disturbed' => FailedOK(r, t)'
        BY <2>2, <3>1, <4>1, <4>2 DEF FailedOK, Underway, At
      <4>5. QED
        BY <2>2, <3>1, <4>3, <4>4 DEF At
    <3>3. CASE ~Start(s)
      <4>1. cache'[r] = cache[r] /\ issues \subseteq issues'
        BY <2>1, <2>3, <3>3, AnswerStep, FetchStep, ReportStep, BreakStep DEF Collect
      <4>2. r \notin disturbed' => SeenOK(r, t)'
        BY <2>2, <3>1, <4>1 DEF SeenOK, Underway, At
      <4>3. r \notin disturbed' => FailedOK(r, t)'
        BY <2>2, <3>1, <4>1 DEF FailedOK, Underway, At
      <4>4. QED
        BY <2>2, <3>1, <4>2, <4>3 DEF At
    <3>4. QED
      BY <3>2, <3>3
  <2>4. ASSUME Start(r)
        PROVE  ~At(r, "queued")' /\ (r \notin disturbed' => SeenOK(r, t)' /\ FailedOK(r, t)')
    <3>1. At(r, "queued")
      BY <2>4 DEF Start
    <3>2. /\ job'[r].pc = "listing" /\ job'[r].seen[t] = {} /\ job'[r].failed = {}
      BY <2>1, <2>2, <2>4, <3>1, StartStep
    <3>3. QED
      BY <3>2 DEF SeenOK, FailedOK, Underway, At
  <2>5. ASSUME ListCached(r) \/ Store(r)
        PROVE  ~At(r, "queued")' /\ (r \notin disturbed' => SeenOK(r, t)' /\ FailedOK(r, t)')
    <3>1. Underway(r) /\ ~At(r, "done") /\ disturbed' = disturbed
      BY <2>5 DEF ListCached, Store, Underway, At
    <3>2. /\ issues' = issues /\ Listed(r) \in Types
          /\ job'[r].pc = "listing" /\ job'[r].failed = job[r].failed
          /\ cache'[r][Listed(r)] \in Listings
          /\ job'[r].seen[Listed(r)] = job[r].seen[Listed(r)] \cup {cache'[r][Listed(r)]}
          /\ \A u \in Types \ {Listed(r)} : /\ job'[r].seen[u] = job[r].seen[u]
                                            /\ cache'[r][u] = cache[r][u]
      BY <2>1, <2>5, AnswerStep
    <3>3. r \notin disturbed' => FailedOK(r, t)'
      BY <2>2, <3>1, <3>2 DEF FailedOK, Underway, At
    <3>4. r \notin disturbed => job'[r].seen[t] \subseteq {cache'[r][t]} \ {"none"}
      <4>1. SUFFICES ASSUME r \notin disturbed
                     PROVE  job'[r].seen[t] \subseteq {cache'[r][t]} \ {"none"}
        OBVIOUS
      <4>2. job[r].seen[t] \subseteq {cache[r][t]} \ {"none"}
        BY <2>2, <3>1, <4>1 DEF SeenOK
      <4>3. CASE t # Listed(r)
        BY <4>2, <4>3, <3>2
      <4>4. CASE t = Listed(r)
        <5>1. job[r].seen[t] \subseteq {cache'[r][t]}
          <6>1. CASE ListCached(r)
            <7>1. cache' = cache
              BY <6>1 DEF ListCached
            <7>2. QED
              BY <4>2, <7>1
          <6>2. CASE Store(r)
            <7>1. cache[r][t] = "none"
              BY <6>2, <4>4, <2>1 DEF Store, IInv, Working
            <7>2. QED
              BY <4>2, <7>1
          <6>3. QED
            BY <2>5, <6>1, <6>2
        <5>2. QED
          BY <4>4, <5>1, <3>2 DEF Listings
      <4>5. QED
        BY <4>3, <4>4
    <3>5. QED
      BY <3>1, <3>2, <3>3, <3>4 DEF SeenOK, Underway, At
  <2>6. ASSUME NEW answer \in Listings, NEW ok \in BOOLEAN, Fetch(r, answer, ok)
        PROVE  ~At(r, "queued")' /\ (r \notin disturbed' => SeenOK(r, t)' /\ FailedOK(r, t)')
    <3>1. Underway(r) /\ ~At(r, "done") /\ disturbed' = disturbed
      BY <2>6 DEF Fetch, Underway, At
    <3>2. /\ job'[r].pc = "storing" /\ job'[r].seen = job[r].seen /\ cache' = cache
          /\ \/ job'[r].failed = job[r].failed /\ issues' = issues
             \/ /\ job'[r].failed = job[r].failed \cup {Listed(r)}
                /\ issues' = issues \cup {<<r, Listed(r)>>}
      BY <2>1, <2>6, FetchStep
    <3>3. r \notin disturbed' => SeenOK(r, t)'
      BY <2>2, <3>1, <3>2 DEF SeenOK, Underway, At
    <3>4. r \notin disturbed' => FailedOK(r, t)'
      BY <2>2, <3>1, <3>2 DEF FailedOK, Underway, At
    <3>5. QED
      BY <3>2, <3>3, <3>4 DEF At
  <2>7. ASSUME Report(r)
        PROVE  ~At(r, "queued")' /\ (r \notin disturbed' => SeenOK(r, t)' /\ FailedOK(r, t)')
    <3>1. Underway(r) /\ ~At(r, "done") /\ disturbed' = disturbed
      BY <2>7 DEF Report, Underway, At
    <3>2. /\ job'[r].pc = "done" /\ job'[r].report = issues
          /\ job'[r].failed = job[r].failed /\ job'[r].seen = job[r].seen
      BY <2>1, <2>7, ReportStep
    <3>3. QED
      BY <2>2, <3>1, <3>2 DEF SeenOK, FailedOK, Underway, At
  <2>8. ASSUME Break(r)
        PROVE  ~At(r, "queued")' /\ (r \notin disturbed' => SeenOK(r, t)' /\ FailedOK(r, t)')
    <3>1. Underway(r) /\ disturbed' = disturbed
      BY <2>8 DEF Break
    <3>2. /\ job'[r].pc = "failed" /\ job'[r].failed = job[r].failed
          /\ job'[r].seen = job[r].seen
      BY <2>1, <2>8, BreakStep
    <3>3. QED
      BY <2>2, <3>1, <3>2 DEF SeenOK, FailedOK, Underway, At
  <2>9. CASE UNCHANGED vars
    BY <2>2, <2>9 DEF vars, SeenOK, FailedOK, Underway, At
  <2>10. QED
    BY <2>1, <2>3, <2>4, <2>5, <2>6, <2>7, <2>8, <2>9 DEF Next, Collect
<1>3. QED
  BY <1>1, <1>2, CollectionInvariance, PTL DEF Spec

(* If no other job starts meanwhile, a job uses one listing of each type.  *)
THEOREM UndisturbedView == Spec => []OneView
<1>1. Undisturbed => OneView
  BY DEF Undisturbed, SeenOK, OneView
<1>2. QED
  BY <1>1, UndisturbedInvariance, PTL

(* If no other job starts meanwhile, every listing that failed is reported.*)
THEOREM UndisturbedWarnings == Spec => []UndisturbedReports
<1>1. IInv /\ Undisturbed => UndisturbedReports
  <2>1. SUFFICES ASSUME IInv, Undisturbed, NEW r \in Regions \ disturbed,
                        At(r, "done"), job[r].failed # {}
                 PROVE  OwnIssues(r) # {}
    BY DEF UndisturbedReports, Reported, Status, At
  <2>2. PICK t \in job[r].failed : t \in Types
    BY <2>1 DEF IInv, TypeOK, Job
  <2>3. QED
    BY <2>1, <2>2 DEF Undisturbed, FailedOK, OwnIssues
<1>2. QED
  BY <1>1, UndisturbedInvariance, CollectionInvariance, PTL

-----------------------------------------------------------------------------
(* The responses.                                                          *)


OfListing(issue) == issue \in Regions \X Types

(* Only the snapshot of a job that failed has an issue of any type.        *)
Named ==
    /\ \A issue \in issues : OfListing(issue)
    /\ \A r \in Regions : IF At(r, "failed") THEN job[r].report = {<<r, AnyType>>}
                          ELSE \A issue \in job[r].report : OfListing(issue)

(* The table of a type is one of the answers seen.                         *)
Tabled ==
    \A r \in Regions, t \in Types : ~At(r, "failed") =>
        IF job[r].first[t] = "none" THEN job[r].seen[t] = {}
        ELSE job[r].first[t] \in job[r].seen[t]

LEMMA NamedInvariance == Spec => []Named
<1>1. Init => Named
  BY DEF Init, Named, Queued, At
<1>2. IInv /\ Named /\ [Next]_vars => Named'
  <2>1. SUFFICES ASSUME IInv, Named, [Next]_vars PROVE Named'
    OBVIOUS
  <2>2. ASSUME NEW r \in Regions, Start(r) PROVE Named'
    <3>1. ~At(r, "failed") /\ ~At(r, "failed")'
      BY <2>1, <2>2, StartStep DEF Start, At
    <3>2. QED
      BY <2>1, <2>2, <3>1, StartStep DEF Named, At
  <2>3. ASSUME NEW r \in Regions, ListCached(r) \/ Store(r) PROVE Named'
    <3>1. ~At(r, "failed") /\ ~At(r, "failed")'
      BY <2>1, <2>3, AnswerStep DEF ListCached, Store, At
    <3>2. QED
      BY <2>1, <2>3, <3>1, AnswerStep DEF Named, At
  <2>4. ASSUME NEW r \in Regions, NEW answer \in Listings, NEW ok \in BOOLEAN, Fetch(r, answer, ok)
        PROVE  Named'
    <3>1. ~At(r, "failed") /\ ~At(r, "failed")'
      BY <2>1, <2>4, FetchStep DEF Fetch, At
    <3>2. \A issue \in issues' : OfListing(issue)
      BY <2>1, <2>4, FetchStep DEF Named, OfListing
    <3>3. \A s \in Regions : job'[s].report = job[s].report /\ (At(s, "failed")' <=> At(s, "failed"))
      BY <2>1, <2>4, <3>1, FetchStep DEF At
    <3>4. QED
      BY <2>1, <3>2, <3>3 DEF Named
  <2>5. ASSUME NEW r \in Regions, Report(r) PROVE Named'
    BY <2>1, <2>5, ReportStep DEF Named, At
  <2>6. ASSUME NEW r \in Regions, Break(r) PROVE Named'
    BY <2>1, <2>6, BreakStep DEF Named, At
  <2>7. CASE UNCHANGED vars
    BY <2>1, <2>7 DEF vars, Named, At
  <2>8. QED
    BY <2>1, <2>2, <2>3, <2>4, <2>5, <2>6, <2>7 DEF Next, Collect
<1>3. QED
  BY <1>1, <1>2, CollectionInvariance, PTL DEF Spec

LEMMA TabledInvariance == Spec => []Tabled
<1>1. Init => Tabled
  BY DEF Init, Tabled, Queued, NoListing
<1>2. IInv /\ Tabled /\ [Next]_vars => Tabled'
  <2>1. SUFFICES ASSUME IInv, Tabled, [Next]_vars PROVE Tabled'
    OBVIOUS
  <2>2. ASSUME NEW r \in Regions, Start(r) PROVE Tabled'
    <3>1. ~At(r, "failed")
      BY <2>2 DEF Start, At
    <3>2. QED
      BY <2>1, <2>2, <3>1, StartStep DEF Tabled, At
  <2>3. ASSUME NEW r \in Regions, ListCached(r) \/ Store(r) PROVE Tabled'
    <3>1. ~At(r, "failed")
      BY <2>3 DEF ListCached, Store, At
    <3>2. ASSUME NEW t \in Types
          PROVE  IF job'[r].first[t] = "none" THEN job'[r].seen[t] = {}
                 ELSE job'[r].first[t] \in job'[r].seen[t]
      <4>1. CASE t = Listed(r)
        BY <2>1, <2>3, <3>1, <4>1, AnswerStep DEF Tabled, Listings
      <4>2. CASE t # Listed(r)
        BY <2>1, <2>3, <3>1, <4>2, AnswerStep DEF Tabled
      <4>3. QED
        BY <4>1, <4>2
    <3>3. QED
      BY <2>1, <2>3, <3>2, AnswerStep DEF Tabled, At
  <2>4. ASSUME NEW r \in Regions, NEW answer \in Listings, NEW ok \in BOOLEAN, Fetch(r, answer, ok)
        PROVE  Tabled'
    <3>1. ~At(r, "failed")
      BY <2>4 DEF Fetch, At
    <3>2. QED
      BY <2>1, <2>4, <3>1, FetchStep DEF Tabled, At
  <2>5. ASSUME NEW r \in Regions, Report(r) PROVE Tabled'
    <3>1. ~At(r, "failed")
      BY <2>5 DEF Report, At
    <3>2. QED
      BY <2>1, <2>5, <3>1, ReportStep DEF Tabled, At
  <2>6. ASSUME NEW r \in Regions, Break(r) PROVE Tabled'
    BY <2>1, <2>6, BreakStep DEF Tabled, At
  <2>7. CASE UNCHANGED vars
    BY <2>1, <2>7 DEF vars, Tabled, At
  <2>8. QED
    BY <2>1, <2>2, <2>3, <2>4, <2>5, <2>6, <2>7 DEF Next, Collect
<1>3. QED
  BY <1>1, <1>2, CollectionInvariance, PTL DEF Spec

-----------------------------------------------------------------------------
(* An issue in a snapshot, whosever, is of a listing that failed or says   *)
(* that the collection did.                                                *)
LEMMA IssueHasCause ==
    ASSUME Blame, Named, NEW s \in Regions, NEW issue \in job[s].report
    PROVE  At(issue[1], "failed") \/ job[issue[1]].failed # {}
<1>1. CASE At(s, "failed")
  BY <1>1 DEF Named
<1>2. CASE ~At(s, "failed")
  <2>1. OfListing(issue)
    BY <1>2 DEF Named
  <2>2. issue = <<issue[1], issue[2]>> /\ issue[1] \in Regions /\ issue[2] \in Types
    BY <2>1 DEF OfListing
  <2>3. QED
    BY <2>2 DEF Blame
<1>3. QED
  BY <1>1, <1>2

(* Completeness warns of a region only if something of it failed.          *)
THEOREM WarningsAreCaused == Spec => []WarningsHaveCauses
<1>1. Blame /\ Named => WarningsHaveCauses
  BY IssueHasCause DEF WarningsHaveCauses, WarningRegions, CollectionIssues, Collected
<1>2. QED
  BY <1>1, NamedInvariance, CollectionInvariance, PTL

(* A request that is answered with "ready" has nothing that failed, as far *)
(* as jobs were alone.                                                     *)
THEOREM ReadyHidesNothing == Spec => []ReadyIsClean
<1>1. IInv /\ Named /\ UndisturbedReports => ReadyIsClean
  <2>1. SUFFICES ASSUME IInv, Named, UndisturbedReports,
                        NEW have \in SUBSET Collected, NEW refreshing \in SUBSET have,
                        CollectionStatus(have, refreshing) = "ready"
                 PROVE  /\ \A r \in Regions : At(r, "done")
                        /\ \A r \in Regions \ disturbed : job[r].failed = {}
    BY DEF ReadyIsClean
  <2>2. /\ \A r \in Regions : r \in have
        /\ \A r \in have : job[r].report = {}
    BY <2>1 DEF CollectionStatus, Pending, Completed, CollectionIssues
  <2>3. \A r \in Regions : At(r, "done")
    BY <2>1, <2>2 DEF Named, Collected
  <2>4. ASSUME NEW r \in Regions \ disturbed PROVE job[r].failed = {}
    <3>1. OwnIssues(r) = {} /\ At(r, "done") /\ ~At(r, "failed")
      BY <2>2, <2>3 DEF OwnIssues, At
    <3>2. Status(r) # "ready_with_warnings"
      BY <3>1 DEF Status
    <3>3. QED
      BY <2>1, <3>1, <3>2 DEF UndisturbedReports, Reported
  <2>5. QED
    BY <2>3, <2>4
<1>2. QED
  BY <1>1, NamedInvariance, CollectionInvariance, UndisturbedWarnings, PTL

(* A region without resources and warnings has none, as far as its job was *)
(* alone.                                                                  *)
THEOREM ZeroIsTrue == Spec => []ZeroIsZero
<1>1. IInv /\ Tabled /\ UndisturbedReports /\ OneView => ZeroIsZero
  <2>1. SUFFICES ASSUME IInv, Tabled, UndisturbedReports, OneView,
                        NEW have \in SUBSET Collected, NEW refreshing \in SUBSET have,
                        NEW r \in ZeroResourceRegions(have, refreshing)
                                   \ (WarningRegions(have) \cup disturbed)
                 PROVE  job[r].failed = {} /\ \A t \in Types : "items" \notin job[r].seen[t]
    BY DEF ZeroIsZero
  <2>2. /\ r \in Regions /\ r \in have /\ r \notin disturbed /\ At(r, "done")
        /\ ~HasResources(r) /\ ~At(r, "failed")
    BY <2>1 DEF ZeroResourceRegions, Completed, Collected, Status, At
  <2>3. OwnIssues(r) = {}
    <3>1. ASSUME NEW t \in OwnIssues(r) PROVE FALSE
      <4>1. <<r, t>> \in CollectionIssues(have)
        BY <2>2, <3>1 DEF OwnIssues, CollectionIssues
      <4>2. <<r, t>>[1] \in WarningRegions(have)
        BY <4>1 DEF WarningRegions
      <4>3. QED
        BY <4>2, <2>1
    <3>2. QED
      BY <3>1
  <2>4. job[r].failed = {}
    BY <2>1, <2>2, <2>3 DEF UndisturbedReports, Reported, Status
  <2>5. ASSUME NEW t \in Types, "items" \in job[r].seen[t] PROVE FALSE
    <3>1. job[r].first[t] # "items"
      BY <2>2 DEF HasResources
    <3>2. job[r].first[t] = "empty" /\ job[r].first[t] \in job[r].seen[t]
      BY <2>1, <2>2, <2>5, <3>1 DEF Tabled, IInv, TypeOK, Job, Listings
    <3>3. QED
      BY <2>1, <2>2, <2>5, <3>2 DEF OneView, Listings
  <2>6. QED
    BY <2>4, <2>5
<1>2. QED
  BY <1>1, TabledInvariance, CollectionInvariance, UndisturbedWarnings, UndisturbedView, PTL
=============================================================================

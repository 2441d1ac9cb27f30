------------------------ MODULE DashboardPageProofs ------------------------
(***************************************************************************)
(* Two results about the page: polls are scheduled exactly while it shows  *)
(* a collection, and the selection is the user's as long as the data names *)
(* the tenancy's regions.                                                  *)
(*                                                                         *)
(* For the second, the selection has to be one of regions of the tenancy:  *)
(* that is what rendering does not prune.                                  *)
(***************************************************************************)
EXTENDS DashboardPage, TLAPS

(* A set of regions is not Null.                                           *)
LEMMA NullIsNoSet == \A S \in SUBSET Regions : S # Null
BY NoRegionAssumption DEF Null

(* Data that is rendered is well-typed, and so is what it leaves.          *)
LEMMA RenderType ==
    ASSUME NEW data \in Data, NEW selection \in Selections, NEW inDemo \in BOOLEAN,
           misled \in BOOLEAN, Render(data, selection, inDemo)
    PROVE  /\ shown' \in Data /\ selected' \in Selections
           /\ timer' \in BOOLEAN /\ misled' \in BOOLEAN
           /\ timer' = (shown'.collecting /\ ~inDemo)
<1>1. Pruned(selection, data) \in Selections
  BY DEF Pruned, Selections, Data
<1>2. PollTimer(data, inDemo) \in BOOLEAN /\ data.collecting \in BOOLEAN
  BY DEF PollTimer, Data
<1>3. QED
  BY <1>1, <1>2 DEF Render, PollTimer

LEMMA DemoDataType == DemoData \in Data
BY RegionsAssumption DEF DemoData, Data

LEMMA NullSelection == Null \in Selections /\ \A S \in SUBSET Regions : S \in Selections
BY DEF Selections

(* A call of refreshDashboard leaves everything well-typed.                *)
LEMMA RefreshType ==
    ASSUME TypeOK, NEW selection \in Selections, NEW inDemo \in BOOLEAN,
           NEW running \in BOOLEAN, NEW override \in Selections, NEW force \in Forces,
           Refresh(selection, inDemo, running, override, force)
    PROVE  /\ shown' \in Data /\ selected' \in Selections /\ request' \in Request
           /\ timer' \in BOOLEAN /\ misled' \in BOOLEAN
<1>1. CASE InFlight /\ selected' = selection /\ timer' = running
           /\ UNCHANGED <<request, shown, misled>>
  BY <1>1 DEF TypeOK
<1>2. CASE Render(DemoData, selection, inDemo) /\ UNCHANGED request
  BY <1>2, RenderType, DemoDataType DEF TypeOK
<1>3. CASE /\ request' = [Idle EXCEPT !.pc = "lists", !.override = override, !.force = force]
           /\ selected' = selection /\ timer' = running
           /\ UNCHANGED <<shown, misled>>
  BY <1>3, NullSelection DEF TypeOK, Idle, Request, Forces
<1>4. QED
  BY <1>1, <1>2, <1>3 DEF Refresh

(* What the API knows stays well-typed, whatever it is asked.              *)
LEMMA FeedType ==
    ASSUME TypeOK, NEW regions \in SUBSET Regions, NEW force
    PROVE  Feed(regions, force) \in [Regions -> Api!Statuses]
<1>1. ASSUME NEW status \in Api!Statuses, NEW refresh \in BOOLEAN
      PROVE  Api!Answered(status, refresh) \in Api!Statuses
  BY <1>1 DEF Api!Answered, Api!Statuses, Api!Ended, Api!Finished
<1>2. ASSUME NEW status \in Api!Statuses PROVE Api!Cleared(status) \in Api!Statuses
  BY <1>2 DEF Api!Cleared, Api!Statuses, Api!Ended
<1>3. ASSUME NEW r \in Regions
      PROVE  Found(r, force) \in Api!Statuses /\ feed[r] \in Api!Statuses
  BY <1>2, <1>3 DEF Found, TypeOK
<1>4. Refreshing(force) \in BOOLEAN
  BY DEF Refreshing
<1>5. QED
  BY <1>1, <1>3, <1>4 DEF Feed

(* Init is well-typed.                                                     *)
LEMMA InitType == Init => TypeOK
<1>1. NoData \in Data
  BY DEF NoData, Data
<1>2. [Idle EXCEPT !.pc = "closed"] \in Request
  BY NullSelection DEF Idle, Request, Forces
<1>3. 0 \in 0 .. MaxFaults
  BY MaxFaultsAssumption
<1>4. Api!ApiInit => feed \in [Regions -> Api!Statuses]
  BY DEF Api!ApiInit, Api!Lost, Api!Statuses
<1>5. QED
  BY <1>1, <1>2, <1>3, <1>4, NullSelection DEF Init, TypeOK

(* The steps of a call that is under way keep the types.                   *)
LEMMA CallType ==
    ASSUME TypeOK, Call \/ Fail
    PROVE  TypeOK'
<1>1. ASSUME NEW available \in Availables, NEW active \in Actives, Lists(available, active)
      PROVE  TypeOK'
  <2>1. Asked(active) \in SUBSET Regions
    <3>1. active \in SUBSET Regions
      BY RegionsAssumption DEF Actives
    <3>2. QED
      BY <3>1 DEF Asked, TypeOK, Request, Selections
  <2>2. available \in SUBSET Regions /\ active \in SUBSET Regions
    BY RegionsAssumption DEF Actives, Availables
  <2>3. request' \in Request
    BY <1>1, <2>1, <2>2, NullSelection DEF Lists, TypeOK, Request, Forces
  <2>4. faults' \in 0 .. MaxFaults
    BY <1>1, MaxFaultsAssumption DEF Lists, TypeOK, Fallbacks
  <2>5. QED
    BY <1>1, <2>3, <2>4 DEF Lists, TypeOK
<1>2. ASSUME NEW active \in Actives, Serve(active) PROVE TypeOK'
  <2>1. feed' \in [Regions -> Api!Statuses]
    BY <1>2, FeedType DEF Serve, TypeOK, Request
  <2>2. active \in SUBSET Regions
    BY RegionsAssumption DEF Actives
  <2>3. StillCollecting(request.regions, request.force) \in BOOLEAN
    BY DEF StillCollecting
  <2>4. request' \in Request
    BY <1>2, <2>2, <2>3 DEF Serve, TypeOK, Request, Forces
  <2>5. faults' \in 0 .. MaxFaults
    BY <1>2, MaxFaultsAssumption DEF Serve, TypeOK, Fallbacks
  <2>6. QED
    BY <1>2, <2>1, <2>4, <2>5 DEF Serve, TypeOK
<1>3. CASE ServeNothing
  BY <1>3 DEF ServeNothing, TypeOK, Request, Forces
<1>4. ASSUME NEW observed \in SUBSET Regions, Deliver(observed) PROVE TypeOK'
  <2>1. [mode |-> "api", regions |-> request.regions, collecting |-> request.collecting,
         active |-> request.active,
         menu |-> request.available \cup request.active \cup observed] \in Data
    BY DEF TypeOK, Request, Data
  <2>2. QED
    BY <1>4, <2>1, RenderType, NullSelection DEF Deliver, TypeOK, Idle, Request, Forces
<1>5. CASE Fail
  <2>1. faults' \in 0 .. MaxFaults
    BY <1>5, MaxFaultsAssumption DEF Fail, TypeOK
  <2>2. QED
    BY <1>5, <2>1, DemoDataType, RenderType, NullSelection DEF Fail, TypeOK, Idle, Request, Forces
<1>6. QED
  BY <1>1, <1>2, <1>3, <1>4, <1>5 DEF Call

(* What the user, the timers and the collections do keeps the types.       *)
LEMMA EventType ==
    ASSUME TypeOK,
           \/ \E path \in Paths : Load(path)
           \/ ClearAll \/ ToggleDemo \/ Rest \/ Poll \/ AutoRefresh
           \/ \E regions \in SUBSET shown.menu : Choose(regions)
           \/ \E override \in ((SUBSET shown.regions) \ {{}}) \cup {Null} :
                 \E force \in {"refresh", "clear"} : RefreshNow(override, force)
           \/ Restart
           \/ \E r \in Regions : Finish(r) \/ Expire(r)
    PROVE  TypeOK'
<1>1. ASSUME NEW path \in Paths, Load(path) PROVE TypeOK'
  <2>1. NoData \in Data /\ Idle \in Request /\ [Idle EXCEPT !.pc = "lists"] \in Request
    BY NullSelection DEF NoData, Data, Idle, Request, Forces
  <2>2. /\ demo' \in BOOLEAN /\ allowed' \in BOOLEAN /\ UNCHANGED <<feed, chosen, faults, resting>>
    BY <1>1, PathsAssumption DEF Load
  <2>3. CASE Render(DemoData, selected, TRUE) /\ request' = Idle
    BY <2>1, <2>2, <2>3, DemoDataType, RenderType DEF TypeOK
  <2>4. CASE /\ request' = [Idle EXCEPT !.pc = "lists"]
             /\ shown' = NoData /\ timer' = FALSE /\ UNCHANGED <<selected, misled>>
    BY <2>1, <2>2, <2>4 DEF TypeOK
  <2>5. QED
    BY <1>1, <2>3, <2>4 DEF Load
<1>2. CASE ClearAll
  <2>1. (IF shown = NoData THEN DemoData ELSE shown) \in Data
    BY DemoDataType DEF TypeOK
  <2>2. QED
    BY <1>2, <2>1, RenderType, NullSelection DEF ClearAll, TypeOK
<1>3. CASE ToggleDemo
  BY <1>3, RefreshType, NullSelection DEF ToggleDemo, TypeOK, Forces
<1>4. CASE Rest
  BY <1>4 DEF Rest, TypeOK
<1>5. CASE Poll
  BY <1>5, RefreshType, NullSelection DEF Poll, TypeOK, Forces
<1>6. CASE AutoRefresh
  BY <1>6, RefreshType, NullSelection DEF AutoRefresh, TypeOK, Forces
<1>7. ASSUME NEW regions \in SUBSET shown.menu, Choose(regions) PROVE TypeOK'
  <2>1. regions \in Selections
    BY NullSelection DEF TypeOK, Data
  <2>2. QED
    BY <1>7, <2>1, RefreshType, NullSelection DEF Choose, TypeOK, Forces
<1>8. ASSUME NEW override \in ((SUBSET shown.regions) \ {{}}) \cup {Null},
           NEW force \in {"refresh", "clear"}, RefreshNow(override, force)
      PROVE  TypeOK'
  <2>1. override \in Selections
    BY NullSelection DEF TypeOK, Data
  <2>2. QED
    BY <1>8, <2>1, RefreshType DEF RefreshNow, TypeOK, Forces
<1>9. ASSUME NEW r \in Regions, Finish(r) PROVE TypeOK'
  <2>1. [fresh |-> FALSE, job |-> "fresh"] \in Api!Statuses
    BY DEF Api!Statuses
  <2>2. feed' \in [Regions -> Api!Statuses]
    BY <1>9, <2>1 DEF Finish, TypeOK, Api!Finish
  <2>3. QED
    BY <1>9, <2>2 DEF Finish, TypeOK
<1>10. ASSUME NEW r \in Regions, Expire(r) PROVE TypeOK'
  <2>1. [feed[r] EXCEPT !.fresh = FALSE, !.job = IF @ = "fresh" THEN "stale" ELSE @]
           \in Api!Statuses
    BY DEF TypeOK, Api!Statuses
  <2>2. feed' \in [Regions -> Api!Statuses]
    BY <1>10, <2>1 DEF Expire, TypeOK
  <2>3. QED
    BY <1>10, <2>2 DEF Expire, TypeOK
<1>11. CASE Restart
  <2>1. PICK back \in SUBSET {r \in Regions : Api!Ended(feed[r])}, torn \in SUBSET Regions :
           feed' = [r \in Regions |-> [fresh |-> (feed[r].fresh \/ r \in back) /\ r \notin torn,
                                      job |-> "none"]]
    BY <1>11 DEF Restart, Api!Restart
  <2>2. feed' \in [Regions -> Api!Statuses]
    BY <2>1 DEF Api!Statuses
  <2>3. faults' \in 0 .. MaxFaults
    BY <1>11, MaxFaultsAssumption DEF Restart, TypeOK
  <2>4. QED
    BY <1>11, <2>2, <2>3 DEF Restart, TypeOK
<1>12. QED
  BY <1>1, <1>2, <1>3, <1>4, <1>5, <1>6, <1>7, <1>8, <1>9, <1>10, <1>11

(* Every step keeps the types.                                             *)
LEMMA NextType == TypeOK /\ [Next]_vars => TypeOK'
<1>1. SUFFICES ASSUME TypeOK, [Next]_vars PROVE TypeOK'
  OBVIOUS
<1>2. CASE UNCHANGED vars
  BY <1>1, <1>2 DEF vars, TypeOK
<1>3. QED
  BY <1>1, <1>2, CallType, EventType DEF Next

-----------------------------------------------------------------------------
(* What is inductive about polls: before the page is loaded there is no    *)
(* timer.                                                                  *)
PollInv == PollsWhileCollecting /\ (At("closed") => ~timer)

(* A call of refreshDashboard, made in an event that leaves the timer      *)
(* alone or was the timer's, keeps it.                                     *)
LEMMA RefreshPolls ==
    ASSUME TypeOK, PollInv, ~At("closed"), demo' \in BOOLEAN,
           NEW selection \in Selections, NEW running \in BOOLEAN,
           NEW override, NEW force,
           Refresh(selection, demo', running, override, force)
    PROVE  PollInv'
<1>1. CASE InFlight /\ UNCHANGED request
  BY <1>1 DEF InFlight, PollInv, PollsWhileCollecting, At
<1>2. CASE Render(DemoData, selection, demo') /\ UNCHANGED request
  <2>1. timer' = (shown'.collecting /\ ~demo')
    BY <1>2, RenderType, DemoDataType DEF TypeOK
  <2>2. QED
    BY <1>2, <2>1 DEF PollInv, PollsWhileCollecting, At
<1>3. CASE request' = [Idle EXCEPT !.pc = "lists", !.override = override, !.force = force]
  BY <1>3 DEF PollInv, PollsWhileCollecting, At, Idle
<1>4. QED
  BY <1>1, <1>2, <1>3 DEF Refresh

(* Every step keeps it: a call ends by rendering, which sets the timer     *)
(* anew.                                                                   *)
LEMMA NextPolls == TypeOK /\ PollInv /\ [Next]_vars => PollInv'
<1>1. SUFFICES ASSUME TypeOK, PollInv, [Next]_vars PROVE PollInv'
  OBVIOUS
<1>2. ASSUME NEW path \in Paths, Load(path) PROVE PollInv'
  <2>1. CASE Render(DemoData, selected, TRUE) /\ request' = Idle /\ demo' = TRUE
    <3>1. timer' = (shown'.collecting /\ ~TRUE)
      BY <1>1, <2>1, RenderType, DemoDataType DEF TypeOK
    <3>2. QED
      BY <2>1, <3>1 DEF PollInv, PollsWhileCollecting, At, Idle
  <2>2. CASE request' = [Idle EXCEPT !.pc = "lists"]
    BY <2>2 DEF PollInv, PollsWhileCollecting, At, Idle
  <2>3. QED
    BY <1>2, <2>1, <2>2 DEF Load
<1>3. CASE ClearAll
  <2>1. (IF shown = NoData THEN DemoData ELSE shown) \in Data /\ {} \in Selections
    BY <1>1, DemoDataType, NullSelection DEF TypeOK
  <2>2. timer' = (shown'.collecting /\ ~demo)
    BY <1>1, <1>3, <2>1, RenderType DEF ClearAll, TypeOK
  <2>3. QED
    BY <1>3, <2>2 DEF ClearAll, PollInv, PollsWhileCollecting, At
<1>4. CASE ToggleDemo
  BY <1>1, <1>4, RefreshPolls DEF ToggleDemo, TypeOK
<1>5. CASE Rest
  BY <1>1, <1>5 DEF Rest, PollInv, PollsWhileCollecting, At
<1>6. CASE Poll
  <2>1. ~At("closed") /\ Refresh(selected, demo', FALSE, Null, "no") /\ demo' \in BOOLEAN
    BY <1>1, <1>6 DEF Poll, PollInv, TypeOK
  <2>2. QED
    BY <1>1, <2>1, RefreshPolls DEF TypeOK
<1>7. CASE AutoRefresh
  <2>1. ~At("closed") /\ Refresh(selected, demo', timer, Null, "no") /\ demo' \in BOOLEAN
    BY <1>1, <1>7 DEF AutoRefresh, At, TypeOK
  <2>2. QED
    BY <1>1, <2>1, RefreshPolls DEF TypeOK
<1>8. ASSUME NEW regions \in SUBSET shown.menu, Choose(regions) PROVE PollInv'
  <2>1. ~At("closed") /\ Refresh(regions, demo', timer, Null, "no") /\ demo' \in BOOLEAN
    BY <1>1, <1>8 DEF Choose, TypeOK
  <2>2. regions \in Selections
    BY <1>1, NullSelection DEF TypeOK, Data
  <2>3. QED
    BY <1>1, <2>1, <2>2, RefreshPolls DEF TypeOK
<1>9. ASSUME NEW override \in ((SUBSET shown.regions) \ {{}}) \cup {Null},
           NEW force \in {"refresh", "clear"}, RefreshNow(override, force)
      PROVE  PollInv'
  <2>1. ~At("closed") /\ Refresh(selected, demo', timer, override, force) /\ demo' \in BOOLEAN
    BY <1>1, <1>9 DEF RefreshNow, At, TypeOK
  <2>2. QED
    BY <1>1, <2>1, RefreshPolls DEF TypeOK
<1>10. ASSUME Restart \/ \E r \in Regions : Finish(r) \/ Expire(r) PROVE PollInv'
  <2>1. UNCHANGED <<request, shown, timer, demo>>
    BY <1>10 DEF Restart, Finish, Expire
  <2>2. QED
    BY <1>1, <2>1 DEF PollInv, PollsWhileCollecting, At
<1>11. ASSUME NEW available, NEW active, Lists(available, active) PROVE PollInv'
  BY <1>1, <1>11 DEF Lists, PollInv, PollsWhileCollecting, At, TypeOK, Request
<1>12. ASSUME NEW active, Serve(active) PROVE PollInv'
  BY <1>1, <1>12 DEF Serve, PollInv, PollsWhileCollecting, At, TypeOK, Request
<1>13. CASE ServeNothing
  BY <1>1, <1>13 DEF ServeNothing, PollInv, PollsWhileCollecting, At, TypeOK, Request
<1>14. ASSUME NEW observed \in SUBSET Regions, Deliver(observed) PROVE PollInv'
  <2>1. [mode |-> "api", regions |-> request.regions, collecting |-> request.collecting,
         active |-> request.active,
         menu |-> request.available \cup request.active \cup observed] \in Data
    BY <1>1 DEF TypeOK, Request, Data
  <2>2. timer' = (shown'.collecting /\ ~demo)
    BY <1>1, <1>14, <2>1, RenderType DEF Deliver, TypeOK
  <2>3. QED
    BY <1>14, <2>2 DEF Deliver, PollInv, PollsWhileCollecting, At, Idle
<1>15. CASE Fail
  <2>1. timer' = (shown'.collecting /\ ~demo)
    BY <1>1, <1>15, DemoDataType, RenderType DEF Fail, TypeOK
  <2>2. QED
    BY <1>15, <2>1 DEF Fail, PollInv, PollsWhileCollecting, At, Idle
<1>16. CASE UNCHANGED vars
  BY <1>1, <1>16 DEF vars, PollInv, PollsWhileCollecting, At
<1>17. QED
  BY <1>1, <1>2, <1>3, <1>4, <1>5, <1>6, <1>7, <1>8, <1>9, <1>10, <1>11, <1>12, <1>13, <1>14,
     <1>15, <1>16 DEF Next, Call

(* The page is well-typed.                                                 *)
THEOREM PageTyped == Spec => []TypeOK
BY InitType, NextType, PTL DEF Spec

(* While no call is under way, a poll is scheduled if and only if the page *)
(* shows a collection that goes on.                                        *)
THEOREM PageAlwaysPolls == Spec => []PollsWhileCollecting
<1>1. Init => PollInv
  BY DEF Init, PollInv, PollsWhileCollecting, At, Idle
<1>2. PollInv => PollsWhileCollecting
  BY DEF PollInv
<1>3. QED
  BY <1>1, <1>2, NextPolls, PageTyped, PTL DEF Spec

-----------------------------------------------------------------------------
(* The selection stands for the user's, and names regions of the tenancy.  *)
StandsFor(selection, choice) ==
    /\ selection # Null => selection \subseteq Subscribed
    /\ choice # Null => selection = choice \/ (selection = Null /\ choice = Ready)

ScopeInv ==
    ~misled =>
        /\ StandsFor(selected, chosen)
        /\ IF shown.mode = "none" THEN shown.menu = {}
           ELSE shown.active = Ready /\ shown.menu = Subscribed

(* Rendering data of the tenancy prunes nothing.                           *)
LEMMA RenderScope ==
    ASSUME NEW data \in Data, data.mode # "none", NEW selection \in Selections, NEW inDemo,
           misled \in BOOLEAN,
           Render(data, selection, inDemo),
           ~misled => StandsFor(selection, chosen')
    PROVE  ScopeInv'
<1>1. SUFFICES ASSUME ~misled' PROVE ScopeInv'
  BY DEF ScopeInv
<1>2. ~misled /\ data.active = Ready /\ data.menu = Subscribed
  BY <1>1 DEF Render, Misleading
<1>3. selected' = Pruned(selection, data) /\ shown' = data
  BY DEF Render
<1>4. StandsFor(selected', chosen')
  <2>1. CASE selection = Null
    BY <1>2, <1>3, <2>1 DEF Pruned, StandsFor
  <2>2. CASE selection # Null
    <3>1. selection \cap data.menu = selection
      BY <1>2, <2>2 DEF StandsFor
    <3>2. selected' = IF selection = Ready THEN Null ELSE selection
      BY <1>2, <1>3, <2>2, <3>1 DEF Pruned
    <3>3. QED
      BY <1>2, <2>2, <3>2 DEF StandsFor
  <2>3. QED
    BY <2>1, <2>2
<1>5. QED
  BY <1>2, <1>3, <1>4 DEF ScopeInv, StandsFor

(* A call of refreshDashboard keeps what stands for the user's choice.     *)
LEMMA RefreshScope ==
    ASSUME TypeOK, ScopeInv, NEW selection \in Selections, NEW inDemo, NEW running,
           NEW override, NEW force,
           Refresh(selection, inDemo, running, override, force),
           ~misled => StandsFor(selection, chosen')
    PROVE  ScopeInv'
<1>1. CASE selected' = selection /\ UNCHANGED <<shown, misled>>
  BY <1>1 DEF ScopeInv, StandsFor
<1>2. CASE Render(DemoData, selection, inDemo)
  <2>1. DemoData.mode # "none"
    BY DEF DemoData
  <2>2. QED
    BY <1>2, <2>1, DemoDataType, RenderScope DEF TypeOK
<1>3. QED
  BY <1>1, <1>2 DEF Refresh

(* Every step keeps it.                                                    *)
LEMMA NextScope == TypeOK /\ ScopeInv /\ [Next]_vars => ScopeInv'
<1>1. SUFFICES ASSUME TypeOK, ScopeInv, [Next]_vars PROVE ScopeInv'
  OBVIOUS
<1>2. DemoData.mode # "none" /\ DemoData \in Data
  BY DemoDataType DEF DemoData
<1>3. ~misled => StandsFor(selected, chosen)
  BY <1>1 DEF ScopeInv
<1>4. ASSUME NEW path \in Paths, Load(path) PROVE ScopeInv'
  <2>1. CASE Render(DemoData, selected, TRUE)
    BY <1>1, <1>2, <1>3, <1>4, <2>1, RenderScope DEF Load, TypeOK
  <2>2. CASE shown' = NoData /\ UNCHANGED <<selected, misled>>
    BY <1>1, <1>4, <2>2 DEF Load, ScopeInv, NoData, StandsFor
  <2>3. QED
    BY <1>4, <2>1, <2>2 DEF Load
<1>5. CASE ClearAll
  <2>1. {} \in Selections /\ StandsFor({}, chosen')
    BY <1>5, NullSelection DEF ClearAll, StandsFor
  <2>2. CASE shown = NoData
    BY <1>1, <1>2, <1>5, <2>1, <2>2, RenderScope DEF ClearAll, TypeOK
  <2>3. CASE shown # NoData /\ shown.mode # "none"
    BY <1>1, <1>5, <2>1, <2>3, RenderScope DEF ClearAll, TypeOK
  <2>4. CASE shown # NoData /\ shown.mode = "none"
    <3>1. selected' = Pruned({}, shown) /\ shown' = shown /\ (misled' <=> misled \/ Misleading(shown))
      BY <1>5, <2>4 DEF ClearAll, Render
    <3>2. ~misled => shown.menu = {}
      BY <1>1, <2>4 DEF ScopeInv
    <3>3. ~misled => misled'
      BY <3>1, <3>2, RegionsAssumption DEF Misleading
    <3>4. QED
      BY <3>1, <3>3 DEF ScopeInv
  <2>5. QED
    BY <2>2, <2>3, <2>4
<1>6. CASE ToggleDemo
  BY <1>1, <1>3, <1>6, RefreshScope DEF ToggleDemo, TypeOK
<1>7. CASE Rest
  BY <1>1, <1>7 DEF Rest, ScopeInv, StandsFor
<1>8. CASE Poll
  BY <1>1, <1>3, <1>8, RefreshScope DEF Poll, TypeOK
<1>9. CASE AutoRefresh
  BY <1>1, <1>3, <1>9, RefreshScope DEF AutoRefresh, TypeOK
<1>10. ASSUME NEW regions \in SUBSET shown.menu, Choose(regions) PROVE ScopeInv'
  <2>1. regions \in Selections
    BY <1>1, NullSelection DEF TypeOK, Data
  <2>2. ~misled => StandsFor(regions, chosen')
    BY <1>1, <1>10 DEF Choose, StandsFor, ScopeInv
  <2>3. QED
    BY <1>1, <1>10, <2>1, <2>2, RefreshScope DEF Choose
<1>11. ASSUME NEW override \in ((SUBSET shown.regions) \ {{}}) \cup {Null},
           NEW force \in {"refresh", "clear"}, RefreshNow(override, force)
       PROVE  ScopeInv'
  BY <1>1, <1>3, <1>11, RefreshScope DEF RefreshNow, TypeOK
<1>12. ASSUME Restart \/ \E r \in Regions : Finish(r) \/ Expire(r) PROVE ScopeInv'
  <2>1. UNCHANGED <<shown, selected, chosen, misled>>
    BY <1>12 DEF Restart, Finish, Expire
  <2>2. QED
    BY <1>1, <2>1 DEF ScopeInv, StandsFor
<1>13. ASSUME NEW available, NEW active, Lists(available, active) PROVE ScopeInv'
  BY <1>1, <1>13 DEF Lists, ScopeInv, StandsFor
<1>14. ASSUME NEW active, Serve(active) PROVE ScopeInv'
  BY <1>1, <1>14 DEF Serve, ScopeInv, StandsFor
<1>15. CASE ServeNothing
  BY <1>1, <1>15 DEF ServeNothing, ScopeInv, StandsFor
<1>16. ASSUME NEW observed \in SUBSET Regions, Deliver(observed) PROVE ScopeInv'
  <2> DEFINE data == [mode |-> "api", regions |-> request.regions,
                      collecting |-> request.collecting, active |-> request.active,
                      menu |-> request.available \cup request.active \cup observed]
  <2>1. data \in Data /\ data.mode # "none"
    BY <1>1 DEF TypeOK, Request, Data
  <2>2. Render(data, selected, demo) /\ chosen' = chosen
    BY <1>16 DEF Deliver
  <2> HIDE DEF data
  <2>3. QED
    BY <1>1, <1>3, <2>1, <2>2, RenderScope DEF TypeOK
<1>17. CASE Fail
  BY <1>1, <1>2, <1>3, <1>17, RenderScope DEF Fail, TypeOK
<1>18. CASE UNCHANGED vars
  BY <1>1, <1>18 DEF vars, ScopeInv, StandsFor
<1>19. QED
  BY <1>1, <1>4, <1>5, <1>6, <1>7, <1>8, <1>9, <1>10, <1>11, <1>12, <1>13, <1>14, <1>15,
     <1>16, <1>17, <1>18 DEF Next, Call

(* As long as the page has only rendered data with the regions of the      *)
(* tenancy, what is selected is what the user selected.                    *)
THEOREM ScopeStaysChosen == Spec => []ScopeIsKept
<1>1. Init => ScopeInv
  BY DEF Init, ScopeInv, StandsFor, NoData
<1>2. TypeOK /\ ScopeInv => ScopeIsKept
  BY DEF ScopeInv, StandsFor, ScopeIsKept, ScopeIsChosen, Effective, TypeOK
<1>3. QED
  BY <1>1, <1>2, NextScope, PageTyped, PTL DEF Spec
=============================================================================

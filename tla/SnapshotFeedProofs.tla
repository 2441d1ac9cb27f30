------------------------- MODULE SnapshotFeedProofs -------------------------
(***************************************************************************)
(* SnapshotCache implements SnapshotFeed when snapshot files do not fail,  *)
(* though writes may be torn, and then no client is ever shown an older    *)
(* snapshot than before.  It also implements DashboardApi then.  All rest  *)
(* on the invariant of SnapshotCacheProofs.                                *)
(***************************************************************************)
EXTENDS SnapshotCacheProofs

(* The refinement mapping, by name.                                        *)
OutcomeOf(k) == IF Done(jobs[k]) THEN future[jobs[k]].result ELSE NoSnap

cellBar == [k \in Keys |-> IF memory[k] # NoSnap THEN memory[k] ELSE disk[k]]
outcomeBar == [k \in Keys |-> IF Done(jobs[k]) THEN future[jobs[k]].result ELSE NoSnap]
collectingBar == {future[j].key : j \in InFlight}

-----------------------------------------------------------------------------
(* Steps that change nothing the mapping looks at.                         *)
LEMMA SameBars ==
    ASSUME UNCHANGED <<memory, disk, jobs, future>>
    PROVE  UNCHANGED <<cellBar, outcomeBar, collectingBar>>
BY DEF cellBar, outcomeBar, collectingBar, Done, InFlight

LEMMA InitFeed == Init => Feed!FeedInit
<1> SUFFICES ASSUME Init PROVE Feed!FeedInit
  OBVIOUS
<1>1. InFlight = {}
  BY DEF Init, InFlight, Unused
<1>2. \A k \in Keys : memory[k] = NoSnap /\ disk[k] = NoSnap /\ ~Done(jobs[k])
  BY DEF Init, Done
<1>3. QED
  BY <1>1, <1>2 DEF Feed!FeedInit

LEMMA HarvestFeed ==
    ASSUME IInv, IInv', ~DiskFaults, NEW h \in Handlers, Harvest(h)
    PROVE  \E k \in Keys : k = Region(h) /\ Feed!Install(k)
<1> USE DEF IInv
<1>0. PICK k \in Keys : k = Region(h)
  BY RegionType DEF Harvest, InRegion
<1>00. PICK j \in JobIds : j = jobs[k] /\ Done(j)
  BY <1>0, DoneFuture DEF Harvest, TypeOK
<1>1. /\ memory' = [memory EXCEPT ![k] = future[j].result]
      /\ jobs' = [jobs EXCEPT ![k] = NoJob]
      /\ future' = [future EXCEPT ![j] = Unused]
      /\ disk' = [disk EXCEPT ![k] = NoSnap]
      /\ UNCHANGED <<queue, lock, crashes>>
  BY <1>0, <1>00 DEF Harvest
<1>2. future[j].stage = "done" /\ future[j].result \in Snapshot
  BY <1>00, DoneFuture
<1>3. InFlight' = InFlight
  BY <1>1, <1>2, ReleaseDone
<1>4. \A i \in InFlight : i # j
  BY <1>2 DEF InFlight
<1>5. collectingBar' = collectingBar
  BY <1>1, <1>3, <1>4 DEF collectingBar, InFlight, TypeOK
<1>6. outcomeBar[k] = future[j].result /\ outcomeBar[k] # NoSnap
  BY <1>00, <1>2, NoSnapAssumption DEF outcomeBar
<1>7. outcomeBar' = [outcomeBar EXCEPT ![k] = NoSnap]
  <2>1. OutcomeOf(k)' = NoSnap
    BY <1>1 DEF OutcomeOf, Done, TypeOK
  <2>2. ASSUME NEW g \in Keys \ {k}
        PROVE  OutcomeOf(g)' = OutcomeOf(g)
    <3>1. jobs'[g] = jobs[g] /\ jobs[g] \in JobIds \cup {NoJob}
      BY <1>1 DEF TypeOK
    <3>2. jobs[g] # j
      BY <1>00, <1>2, NoJobAssumption DEF JobsNameFutures
    <3>3. jobs[g] # NoJob => future'[jobs[g]] = future[jobs[g]]
      BY <1>1, <3>1, <3>2 DEF TypeOK
    <3>4. QED
      BY <3>1, <3>3 DEF OutcomeOf, Done
  <2>3. QED
    BY <2>1, <2>2 DEF outcomeBar, OutcomeOf
<1>8. cellBar' = [cellBar EXCEPT ![k] = outcomeBar[k]]
  <2>1. memory'[k] = future[j].result /\ memory'[k] # NoSnap
    BY <1>1, <1>2, NoSnapAssumption DEF TypeOK
  <2>2. \A g \in Keys \ {k} : memory'[g] = memory[g] /\ disk'[g] = disk[g]
    BY <1>1 DEF TypeOK
  <2>3. QED
    BY <1>1, <1>6, <2>1, <2>2 DEF cellBar
<1>9. QED
  BY <1>0, <1>5, <1>6, <1>7, <1>8 DEF Feed!Install, cellBar, outcomeBar, collectingBar

LEMMA WriteFileFeed ==
    ASSUME IInv, NEW h \in Handlers, WriteFile(h)
    PROVE  UNCHANGED <<cellBar, outcomeBar, collectingBar>>
<1> USE DEF IInv
<1>1. PICK k \in Keys : k = Region(h)
  BY RegionType DEF WriteFile, InRegion
<1>2. memory[k] # NoSnap
  BY <1>1 DEF WriteFile, InRegion, WriteHasSnapshot
<1>3. UNCHANGED <<memory, jobs, future>> /\ \A g \in Keys \ {k} : disk'[g] = disk[g]
  BY <1>1 DEF WriteFile, TypeOK
<1>4. cellBar' = cellBar
  BY <1>2, <1>3 DEF cellBar
<1>5. outcomeBar' = outcomeBar /\ collectingBar' = collectingBar
  BY <1>3 DEF outcomeBar, collectingBar, Done, InFlight
<1>6. QED
  BY <1>4, <1>5

LEMMA ClearFeed ==
    ASSUME IInv, ~DiskFaults, NEW h \in Handlers, Clear(h)
    PROVE  \E k \in Keys : k = Region(h) /\ Feed!Forget(k)
<1> USE DEF IInv
<1>1. PICK k \in Keys : k = Region(h)
  BY RegionType DEF Clear, InRegion
<1>2. PICK j \in JobIds \cup {NoJob} : j = jobs[k]
  BY DEF TypeOK
<1>3. /\ memory' = [memory EXCEPT ![k] = NoSnap]
      /\ disk' = [disk EXCEPT ![k] = NoSnap]
      /\ jobs' = [jobs EXCEPT ![k] = IF Done(j) THEN NoJob ELSE j]
      /\ future' = IF Done(j) THEN [future EXCEPT ![j] = Unused] ELSE future
      /\ UNCHANGED queue
  BY <1>1, <1>2 DEF Clear
<1>4. cellBar' = [cellBar EXCEPT ![k] = NoSnap]
  BY <1>3 DEF cellBar, TypeOK
<1>5. CASE Done(j)
  <2>1. j \in JobIds /\ future[j].stage = "done"
    BY <1>5, DoneFuture
  <2>2. future' = [future EXCEPT ![j] = Unused] /\ jobs' = [jobs EXCEPT ![k] = NoJob]
    BY <1>3, <1>5
  <2>3. InFlight' = InFlight /\ \A i \in InFlight : i # j
    BY <1>3, <2>1, <2>2, ReleaseDone DEF InFlight
  <2>4. collectingBar' = collectingBar
    BY <2>2, <2>3 DEF collectingBar, InFlight, TypeOK
  <2>5. OutcomeOf(k)' = NoSnap
    BY <2>2 DEF OutcomeOf, Done, TypeOK
  <2>6. ASSUME NEW g \in Keys \ {k}
        PROVE  OutcomeOf(g)' = OutcomeOf(g)
    <3>1. jobs'[g] = jobs[g] /\ jobs[g] \in JobIds \cup {NoJob}
      BY <2>2 DEF TypeOK
    <3>2. jobs[g] # j
      BY <1>2, <2>1, NoJobAssumption DEF JobsNameFutures
    <3>3. jobs[g] # NoJob => future'[jobs[g]] = future[jobs[g]]
      BY <2>2, <3>1, <3>2 DEF TypeOK
    <3>4. QED
      BY <3>1, <3>3 DEF OutcomeOf, Done
  <2>7. outcomeBar' = [outcomeBar EXCEPT ![k] = NoSnap]
    BY <2>5, <2>6 DEF outcomeBar, OutcomeOf
  <2>8. QED
    BY <1>1, <1>4, <2>4, <2>7 DEF Feed!Forget, cellBar, outcomeBar, collectingBar
<1>6. CASE ~Done(j)
  <2>1. UNCHANGED <<jobs, future>>
    BY <1>2, <1>3, <1>6 DEF TypeOK
  <2>2. outcomeBar' = outcomeBar /\ collectingBar' = collectingBar
    BY <2>1 DEF outcomeBar, collectingBar, Done, InFlight
  <2>3. outcomeBar = [outcomeBar EXCEPT ![k] = NoSnap]
    BY <1>2, <1>6 DEF outcomeBar
  <2>4. QED
    BY <1>1, <1>4, <2>2, <2>3 DEF Feed!Forget, cellBar, outcomeBar, collectingBar
<1>7. QED
  BY <1>5, <1>6

(* Promoting the file's snapshot to memory does not change the cell.       *)
LEMMA PromoteCell ==
    ASSUME TypeOK, ~DiskFaults, NEW k \in Keys, NEW snap \in Lookup(k),
           memory' = [memory EXCEPT ![k] = snap], UNCHANGED disk
    PROVE  cellBar' = cellBar
BY DEF cellBar, Lookup, TypeOK

LEMMA ServeFreshFeed ==
    ASSUME IInv, ~DiskFaults, NEW h \in Handlers, ServeFresh(h)
    PROVE  UNCHANGED <<cellBar, outcomeBar, collectingBar>>
<1> USE DEF IInv
<1>1. PICK k \in Keys : k = Region(h)
  BY RegionType DEF ServeFresh, InRegion
<1>2. UNCHANGED <<disk, jobs, future>> /\ \E snap \in Lookup(k) : memory' = [memory EXCEPT ![k] = snap]
  BY <1>1 DEF ServeFresh
<1>3. cellBar' = cellBar
  BY <1>2, PromoteCell
<1>4. outcomeBar' = outcomeBar /\ collectingBar' = collectingBar
  BY <1>2 DEF outcomeBar, collectingBar, Done, InFlight
<1>5. QED
  BY <1>3, <1>4

LEMMA StartJobFeed ==
    ASSUME IInv, NEW h \in Handlers, InRegion(h, "decide"),
           ~StillCollecting(h), StartJob(Region(h)), cellBar' = cellBar
    PROVE  \E k \in Keys : k = Region(h) /\ Feed!Begin(k)
<1> USE DEF IInv
<1>1. PICK k \in Keys : k = Region(h)
  BY RegionType DEF InRegion
<1>2. jobs[k] = NoJob \/ Done(jobs[k])
  BY <1>1 DEF InRegion, JobStillNamed, StillCollecting
<1>3. PICK old \in JobIds \cup {NoJob} : old = jobs[k]
  BY DEF TypeOK
<1>4. PICK j \in JobIds :
         /\ future[j].stage = "unused"
         /\ future' = [i \in JobIds |-> IF i = j THEN [stage |-> "queued", key |-> k]
                                        ELSE IF i = old /\ Done(i) THEN Unused
                                        ELSE future[i]]
         /\ jobs' = [jobs EXCEPT ![k] = j]
  BY <1>1, <1>3 DEF StartJob
<1>5. k \notin collectingBar
  BY <1>2, NoJobAssumption DEF collectingBar, NoOrphanJob, InFlight, Done
<1>6. future'[j].stage = "queued" /\ future'[j].key = k
  <2>1. future'[j] = [stage |-> "queued", key |-> k]
    BY <1>4
  <2>2. QED
    BY <2>1
<1>7. ASSUME NEW i \in JobIds, i # j
      PROVE  /\ i \in InFlight <=> i \in InFlight'
             /\ i \in InFlight => future'[i].key = future[i].key
  <2>1. CASE i = old
    <3>1. Done(i) /\ future[i].stage = "done"
      BY <1>2, <1>3, <2>1, NoJobAssumption DEF Done
    <3>2. future'[i] = Unused
      BY <1>4, <1>7, <2>1, <3>1
    <3>3. QED
      BY <3>1, <3>2 DEF InFlight, Unused
  <2>2. CASE i # old
    BY <1>4, <1>7, <2>2 DEF InFlight
  <2>3. QED
    BY <2>1, <2>2
<1>8. j \in InFlight' /\ j \notin InFlight
  BY <1>4, <1>6 DEF InFlight
<1>9. collectingBar' = collectingBar \cup {k}
  <2>1. ASSUME NEW g \in collectingBar' PROVE g \in collectingBar \cup {k}
    <3>1. PICK i \in InFlight' : g = future'[i].key
      BY <2>1 DEF collectingBar
    <3>2. QED
      BY <1>6, <1>7, <3>1 DEF collectingBar, InFlight
  <2>2. ASSUME NEW g \in collectingBar PROVE g \in collectingBar'
    <3>1. PICK i \in InFlight : g = future[i].key
      BY <2>2 DEF collectingBar
    <3>2. i \in JobIds /\ i # j
      BY <1>8, <3>1 DEF InFlight
    <3>3. i \in InFlight' /\ g = future'[i].key
      BY <1>7, <3>1, <3>2
    <3>4. QED
      BY <3>3 DEF collectingBar
  <2>3. k \in collectingBar'
    BY <1>6, <1>8 DEF collectingBar
  <2>4. QED
    BY <2>1, <2>2, <2>3
<1>10. OutcomeOf(k)' = NoSnap
  <2>1. jobs'[k] = j
    BY <1>4 DEF TypeOK
  <2>2. QED
    BY <1>6, <2>1 DEF OutcomeOf, Done
<1>11. ASSUME NEW g \in Keys \ {k}
       PROVE  OutcomeOf(g)' = OutcomeOf(g)
  <2>1. jobs'[g] = jobs[g] /\ jobs[g] \in JobIds \cup {NoJob}
    BY <1>4 DEF TypeOK
  <2>2. ASSUME jobs[g] # NoJob PROVE future'[jobs[g]] = future[jobs[g]]
    <3>1. jobs[g] # j
      BY <1>4, <2>2 DEF JobsNameFutures
    <3>2. jobs[g] # old
      BY <1>3, <2>2 DEF JobsNameFutures
    <3>3. QED
      BY <1>4, <2>1, <2>2, <3>1, <3>2
  <2>3. QED
    BY <2>1, <2>2 DEF OutcomeOf, Done
<1>12. outcomeBar' = [outcomeBar EXCEPT ![k] = NoSnap]
  BY <1>10, <1>11 DEF outcomeBar, OutcomeOf
<1>13. QED
  BY <1>1, <1>5, <1>9, <1>12 DEF Feed!Begin, cellBar, outcomeBar, collectingBar

LEMMA ServeCollectingFeed ==
    ASSUME IInv, ~DiskFaults, NEW h \in Handlers, ServeCollecting(h)
    PROVE  IF StillCollecting(h) THEN UNCHANGED <<cellBar, outcomeBar, collectingBar>>
           ELSE \E k \in Keys : k = Region(h) /\ Feed!Begin(k)
<1> USE DEF IInv
<1>1. PICK k \in Keys : k = Region(h)
  BY RegionType DEF ServeCollecting, InRegion
<1>2. /\ UNCHANGED disk /\ InRegion(h, "decide")
      /\ \E snap \in Lookup(k) : memory' = [memory EXCEPT ![k] = snap]
      /\ IF StillCollecting(h) THEN UNCHANGED <<future, jobs>> ELSE StartJob(Region(h))
  BY <1>1 DEF ServeCollecting
<1>3. cellBar' = cellBar
  BY <1>2, PromoteCell
<1>4. CASE StillCollecting(h)
  <2>1. outcomeBar' = outcomeBar /\ collectingBar' = collectingBar
    BY <1>2, <1>4 DEF outcomeBar, collectingBar, Done, InFlight
  <2>2. QED
    BY <1>1, <1>3, <1>4, <2>1
<1>5. CASE ~StillCollecting(h)
  BY <1>2, <1>3, <1>5, StartJobFeed
<1>6. QED
  BY <1>4, <1>5

LEMMA WorkerTakeFeed ==
    ASSUME IInv, WorkerTake
    PROVE  UNCHANGED <<cellBar, outcomeBar, collectingBar>>
<1> USE DEF IInv
<1>1. PICK j \in JobIds : j = Head(queue) /\ future[j].stage = "queued"
  <2>1. queue \in Seq(JobIds) /\ queue # <<>> /\ 1 \in 1 .. Len(queue) /\ Head(queue) = queue[1]
    BY DEF WorkerTake, TypeOK
  <2>2. QED
    BY <2>1 DEF QueueHoldsQueued
<1>2. /\ future' = [future EXCEPT ![j] = [future[j] EXCEPT !.stage = "running"]]
      /\ UNCHANGED <<memory, disk, jobs>>
  BY <1>1 DEF WorkerTake
<1>3. future[j] \in [stage : {"queued", "running"}, key : Keys]
  BY <1>1 DEF Future, TypeOK
<1>4. future'[j].stage = "running" /\ future'[j].key = future[j].key
  <2>1. future'[j] = [future[j] EXCEPT !.stage = "running"]
    BY <1>2 DEF TypeOK
  <2>2. QED
    BY <1>3, <2>1
<1>5. \A i \in JobIds : i # j => future'[i] = future[i]
  BY <1>2 DEF TypeOK
<1>6. InFlight' = InFlight
  BY <1>1, <1>4, <1>5 DEF InFlight
<1>7. collectingBar' = collectingBar
  BY <1>4, <1>5, <1>6 DEF collectingBar, InFlight
<1>8. ASSUME NEW k \in Keys PROVE OutcomeOf(k)' = OutcomeOf(k)
  BY <1>1, <1>2, <1>4, <1>5 DEF OutcomeOf, Done, TypeOK
<1>9. outcomeBar' = outcomeBar
  BY <1>8 DEF outcomeBar, OutcomeOf
<1>10. QED
  BY <1>2, <1>7, <1>9 DEF cellBar

LEMMA WorkerFinishFeed ==
    ASSUME IInv, NEW j \in JobIds, NEW ok \in BOOLEAN, WorkerFinish(j, ok)
    PROVE  \E k \in Keys : k = future[j].key /\ Feed!Complete(k, ok)
<1> USE DEF IInv
<1>1. future \in [JobIds -> Future] /\ future[j].stage = "running"
  BY DEF WorkerFinish, TypeOK
<1>2. PICK k \in Keys : k = future[j].key
  BY <1>1 DEF Future
<1>3. j \in InFlight /\ jobs[k] = j
  BY <1>1, <1>2 DEF InFlight, NoOrphanJob
<1> DEFINE result == [age |-> 0, ok |-> ok]
<1>4. /\ future' = [future EXCEPT ![j] = [stage |-> "done", key |-> k, result |-> result]]
      /\ UNCHANGED <<memory, disk, jobs>>
  BY <1>2 DEF WorkerFinish
<1>5. /\ future'[j] = [stage |-> "done", key |-> k, result |-> result]
      /\ \A i \in JobIds : i # j => future'[i] = future[i]
  BY <1>1, <1>4
<1>6. InFlight' = InFlight \ {j}
  BY <1>5 DEF InFlight
<1>7. \A i \in InFlight \ {j} : future[i].key # k
  BY <1>3 DEF NoOrphanJob
<1>8. k \in collectingBar /\ collectingBar' = collectingBar \ {k}
  <2>1. k \in collectingBar
    BY <1>2, <1>3 DEF collectingBar
  <2>2. ASSUME NEW g \in collectingBar' PROVE g \in collectingBar \ {k}
    <3>1. PICK i \in InFlight' : g = future'[i].key
      BY <2>2 DEF collectingBar
    <3>2. i \in InFlight \ {j} /\ future'[i] = future[i]
      BY <1>5, <1>6, <3>1 DEF InFlight
    <3>3. QED
      BY <1>7, <3>1, <3>2 DEF collectingBar
  <2>3. ASSUME NEW g \in collectingBar \ {k} PROVE g \in collectingBar'
    <3>1. PICK i \in InFlight : g = future[i].key
      BY <2>3 DEF collectingBar
    <3>2. i \in InFlight' /\ future'[i] = future[i]
      BY <1>2, <1>5, <1>6, <2>3, <3>1 DEF InFlight
    <3>3. QED
      BY <3>1, <3>2 DEF collectingBar
  <2>4. QED
    BY <2>1, <2>2, <2>3
<1>9. OutcomeOf(k)' = result
  BY <1>3, <1>4, <1>5, NoJobAssumption DEF OutcomeOf, Done
<1>10. ASSUME NEW g \in Keys \ {k}
       PROVE  OutcomeOf(g)' = OutcomeOf(g)
  <2>1. jobs[g] \in JobIds \cup {NoJob} /\ (jobs[g] # NoJob => jobs[g] # j)
    BY <1>2 DEF JobsNameFutures, TypeOK
  <2>2. QED
    BY <1>4, <1>5, <2>1 DEF OutcomeOf, Done
<1>11. outcomeBar' = [outcomeBar EXCEPT ![k] = result]
  BY <1>9, <1>10 DEF outcomeBar, OutcomeOf
<1>12. cellBar' = cellBar
  BY <1>4 DEF cellBar
<1>13. QED
  BY <1>2, <1>8, <1>11, <1>12 DEF Feed!Complete, cellBar, outcomeBar, collectingBar

LEMMA AgedLater ==
    ASSUME NEW snap \in Snapshot \cup {NoSnap}
    PROVE  Aged(snap) = Feed!Later(snap)
<1>1. CASE snap = NoSnap
  BY <1>1 DEF Aged, Feed!Later
<1>2. CASE snap # NoSnap
  <2>1. snap = [age |-> snap.age, ok |-> snap.ok] /\ snap.age \in Nat
    BY <1>2, TTLAssumption DEF Snapshot, Ages
  <2>2. Aged(snap) = [snap EXCEPT !.age = IF snap.age > TTL THEN snap.age ELSE snap.age + 1]
    BY <1>2, <2>1 DEF Aged, Older
  <2>3. QED
    BY <1>2, <2>1, <2>2 DEF Feed!Later
<1>3. QED
  BY <1>1, <1>2

LEMMA TickFeed ==
    ASSUME IInv, Tick
    PROVE  Feed!Age
<1> USE DEF IInv
<1>1. /\ memory' = [k \in Keys |-> Aged(memory[k])]
      /\ disk' = [k \in Keys |-> Aged(disk[k])]
      /\ UNCHANGED jobs
  BY DEF Tick
<1>2. ASSUME NEW k \in Keys PROVE Kept(k)' = Feed!Later(Kept(k))
  <2>1. memory[k] \in Snapshot \cup {NoSnap} /\ disk[k] \in Snapshot \cup {NoSnap}
    BY DEF TypeOK
  <2>2. memory'[k] = Aged(memory[k]) /\ disk'[k] = Aged(disk[k])
    BY <1>1
  <2>3. Aged(memory[k]) = NoSnap <=> memory[k] = NoSnap
    BY <2>1, AgedType
  <2>4. Aged(memory[k]) = Feed!Later(memory[k]) /\ Aged(disk[k]) = Feed!Later(disk[k])
    BY <2>1, AgedLater
  <2>5. QED
    BY <2>2, <2>3, <2>4 DEF Kept
<1>3. ASSUME NEW j \in JobIds
      PROVE  /\ future'[j].stage = future[j].stage
             /\ future[j].stage # "unused" => future'[j].key = future[j].key
             /\ Done(j) => future'[j].result = Feed!Later(future[j].result)
  <2>1. future[j] \in Future
    BY DEF TypeOK
  <2>2. CASE future[j].stage = "done"
    <3>1. future[j] \in [stage : {"done"}, key : Keys, result : Snapshot]
      BY <2>1, <2>2 DEF Future
    <3>2. future'[j] = [future[j] EXCEPT !.result = Aged(future[j].result)]
      BY <2>2, <3>1 DEF Tick
    <3>3. Aged(future[j].result) = Feed!Later(future[j].result)
      BY <3>1, AgedLater
    <3>4. QED
      BY <3>1, <3>2, <3>3
  <2>3. CASE future[j].stage # "done"
    BY <2>1, <2>3 DEF Tick, Done
  <2>4. QED
    BY <2>2, <2>3
<1>4. ASSUME NEW k \in Keys PROVE OutcomeOf(k)' = Feed!Later(OutcomeOf(k))
  <2>1. jobs[k] \in JobIds \cup {NoJob} /\ jobs'[k] = jobs[k]
    BY <1>1 DEF TypeOK
  <2>2. CASE Done(jobs[k])
    <3>1. jobs[k] \in JobIds /\ Done(jobs[k])'
      BY <1>1, <1>3, <2>1, <2>2 DEF Done
    <3>2. QED
      BY <1>3, <2>1, <2>2, <3>1 DEF OutcomeOf
  <2>3. CASE ~Done(jobs[k])
    <3>1. ~Done(jobs[k])'
      BY <1>1, <1>3, <2>1, <2>3 DEF Done
    <3>2. QED
      BY <2>3, <3>1 DEF OutcomeOf, Feed!Later
  <2>4. QED
    BY <2>2, <2>3
<1>5. InFlight' = InFlight
  BY <1>3 DEF InFlight
<1>6. collectingBar' = collectingBar
  <2>1. \A j \in InFlight : j \in JobIds /\ future'[j].key = future[j].key
    BY <1>3 DEF InFlight
  <2>2. QED
    BY <1>5, <2>1 DEF collectingBar
<1>7. cellBar' = [k \in Keys |-> Feed!Later(cellBar[k])]
  BY <1>2 DEF cellBar, Kept
<1>8. outcomeBar' = [k \in Keys |-> Feed!Later(outcomeBar[k])]
  BY <1>4 DEF outcomeBar, OutcomeOf
<1>9. QED
  BY <1>6, <1>7, <1>8 DEF Feed!Age, cellBar, outcomeBar, collectingBar

LEMMA CrashFeed ==
    ASSUME IInv, ~DiskFaults, Crash
    PROVE  Feed!Restart
<1> USE DEF IInv
<1>1. /\ memory' = [k \in Keys |-> NoSnap] /\ UNCHANGED disk
      /\ jobs' = [k \in Keys |-> NoJob] /\ future' = [j \in JobIds |-> Unused]
      /\ TornWrites \/ \A h \in Handlers : ~At(h, "write")
  BY DEF Crash
<1>2. \/ cellBar' = cellBar
      \/ TornWrites /\ \E k \in Keys : cellBar' = [cellBar EXCEPT ![k] = NoSnap]
  <2>1. CASE \A h \in Handlers : ~At(h, "write")
    <3>1. \A k \in Keys : memory[k] # NoSnap => disk[k] = memory[k]
      BY <2>1 DEF DiskBacksMemory, InRegion
    <3>2. QED
      BY <1>1, <3>1 DEF cellBar
  <2>2. ASSUME NEW h \in Handlers, At(h, "write")
        PROVE  TornWrites /\ \E k \in Keys : cellBar' = [cellBar EXCEPT ![k] = NoSnap]
    <3>1. /\ handler[h].todo # <<>> /\ Region(h) \in Keys
          /\ disk[Region(h)] = NoSnap
      BY <2>2, RegionType DEF WriteHasSnapshot
    <3>2. \A g \in Handlers : At(g, "write") => g = h
      BY <2>2 DEF LockHeld, At
    <3>3. \A k \in Keys \ {Region(h)} : memory[k] # NoSnap => disk[k] = memory[k]
      BY <3>2 DEF DiskBacksMemory, InRegion
    <3>4. cellBar' = [cellBar EXCEPT ![Region(h)] = NoSnap]
      BY <1>1, <3>1, <3>3 DEF cellBar
    <3>5. QED
      BY <1>1, <2>2, <3>1, <3>4
  <2>3. QED
    BY <2>1, <2>2
<1>3. outcomeBar' = [k \in Keys |-> NoSnap]
  BY <1>1 DEF outcomeBar, Done
<1>4. InFlight' = {}
  BY <1>1 DEF InFlight, Unused
<1>5. collectingBar' = {}
  BY <1>4 DEF collectingBar
<1>6. QED
  BY <1>2, <1>3, <1>5 DEF Feed!Restart, cellBar, outcomeBar, collectingBar

-----------------------------------------------------------------------------
(* Every behaviour of the cache is a behaviour of the feed, provided file  *)
(* operations do not fail: wherever the process dies, a restart loses      *)
(* collections and at most the cell whose file was being written.          *)
THEOREM Refinement ==
    ASSUME ~DiskFaults
    PROVE  Spec => ImplementsFeed
<1>1. IInv /\ IInv' /\ [Next]_vars => [Feed!FeedNext]_(Feed!feedVars)
  <2>1. SUFFICES ASSUME IInv, IInv', [Next]_vars
                 PROVE  Feed!FeedNext \/ UNCHANGED <<cellBar, outcomeBar, collectingBar>>
    BY DEF Feed!feedVars, cellBar, outcomeBar, collectingBar
  <2>2. ASSUME NEW h \in Handlers, HandlerStep(h)
        PROVE  Feed!FeedNext \/ UNCHANGED <<cellBar, outcomeBar, collectingBar>>
    <3>1. CASE Harvest(h)
      BY <2>1, <3>1, HarvestFeed DEF Feed!FeedNext
    <3>2. CASE Clear(h)
      BY <2>1, <3>2, ClearFeed DEF Feed!FeedNext
    <3>3. CASE ServeCollecting(h)
      BY <2>1, <3>3, ServeCollectingFeed DEF Feed!FeedNext
    <3>4. CASE WriteFile(h) \/ ServeFresh(h)
      BY <2>1, <3>4, WriteFileFeed, ServeFreshFeed
    <3>5. CASE NotDone(h) \/ Respond(h)
      BY <3>5, SameBars DEF NotDone, Respond
    <3>6. QED
      BY <2>2, <3>1, <3>2, <3>3, <3>4, <3>5 DEF HandlerStep
  <2>3. CASE \E h \in Handlers : Arrive(h)
    BY <2>3, SameBars DEF Arrive, Enter
  <2>4. CASE Finish
    BY <2>1, <2>4, WorkerFinishFeed DEF Finish, Feed!FeedNext
  <2>5. CASE WorkerTake
    BY <2>1, <2>5, WorkerTakeFeed
  <2>6. CASE Tick
    BY <2>1, <2>6, TickFeed DEF Feed!FeedNext
  <2>7. CASE Crash
    BY <2>1, <2>7, CrashFeed DEF Feed!FeedNext
  <2>8. CASE UNCHANGED vars
    BY <2>8, SameBars DEF vars
  <2>9. QED
    BY <2>1, <2>2, <2>3, <2>4, <2>5, <2>6, <2>7, <2>8 DEF Next
<1>2. QED
  BY InitFeed, <1>1, Invariance, PTL DEF Spec, ImplementsFeed, Feed!FeedSpec

-----------------------------------------------------------------------------
(* A client is never shown an older snapshot than before.  A collection    *)
(* that is under way began after everything installed for its key was      *)
(* completed, so its outcome is at most as old as the memory, the file and *)
(* what was last shown.                                                    *)
Ordered(k) ==
    /\ memory[k] # NoSnap => memory[k].age <= horizon[k]
    /\ disk[k] # NoSnap => disk[k].age <= horizon[k]
    /\ OutcomeOf(k) # NoSnap =>
          /\ OutcomeOf(k).age <= horizon[k]
          /\ memory[k] # NoSnap => OutcomeOf(k).age <= memory[k].age
          /\ disk[k] # NoSnap => OutcomeOf(k).age <= disk[k].age

AgesOrdered == \A k \in Keys : Ordered(k)

LEMMA AgesAreNumbers ==
    ASSUME TypeOK, NEW k \in Keys
    PROVE  /\ horizon[k] \in Nat
           /\ memory[k] # NoSnap => memory[k].age \in Nat
           /\ disk[k] # NoSnap => disk[k].age \in Nat
           /\ OutcomeOf(k) # NoSnap => OutcomeOf(k) \in Snapshot /\ OutcomeOf(k).age \in Nat
<1>1. Ages \subseteq Nat
  BY TTLAssumption DEF Ages
<1>2. memory[k] \in Snapshot \cup {NoSnap} /\ disk[k] \in Snapshot \cup {NoSnap}
      /\ horizon[k] \in Ages
  BY DEF TypeOK
<1>3. OutcomeOf(k) # NoSnap => OutcomeOf(k) \in Snapshot
  BY DoneFuture DEF OutcomeOf, TypeOK
<1>4. \A snap \in Snapshot : snap.age \in Nat
  BY <1>1 DEF Snapshot
<1>5. QED
  BY <1>1, <1>2, <1>3, <1>4

(* A row for the key of its region, with the snapshot that is now in       *)
(* memory and on disk: nothing that remains is older.                      *)
LEMMA EmitOrdered ==
    ASSUME TypeOK, TypeOK', AgesOrdered, NEW h \in Handlers, NEW row \in Rows,
           NEW k \in Keys, row.key = k, Emit(h, row),
           row.snap # NoSnap => /\ memory'[k] = row.snap /\ disk'[k] = row.snap
                                /\ row.snap = memory[k] \/ row.snap = disk[k],
           row.snap = NoSnap => memory'[k] = NoSnap /\ disk'[k] = NoSnap,
           \A g \in Keys \ {k} : memory'[g] = memory[g] /\ disk'[g] = disk[g],
           \A g \in Keys : OutcomeOf(g)' = OutcomeOf(g) \/ OutcomeOf(g)' = NoSnap
    PROVE  AgesOrdered'
<1>1. \A g \in Keys \ {k} : horizon'[g] = horizon[g]
  BY DEF Emit, TypeOK
<1>2. row.snap # NoSnap => horizon'[k] = row.snap.age
  BY DEF Emit, TypeOK
<1>3. row.snap = NoSnap => horizon'[k] = horizon[k]
  BY DEF Emit
<1>4. \A g \in Keys \ {k} : Ordered(g)'
  BY <1>1 DEF AgesOrdered, Ordered
<1>5. CASE row.snap = NoSnap
  BY <1>3, <1>4, <1>5 DEF AgesOrdered, Ordered
<1>6. CASE row.snap # NoSnap
  <2>1. row.snap.age \in Nat
    BY <1>6, AgesAreNumbers
  <2>2. OutcomeOf(k) # NoSnap => OutcomeOf(k).age <= row.snap.age
    BY <1>6 DEF AgesOrdered, Ordered
  <2>3. Ordered(k)'
    BY <1>2, <1>6, <2>1, <2>2 DEF Ordered
  <2>4. QED
    BY <1>4, <2>3 DEF AgesOrdered
<1>7. QED
  BY <1>5, <1>6

LEMMA OutcomeKept ==
    ASSUME outcomeBar' = outcomeBar
    PROVE  \A g \in Keys : OutcomeOf(g)' = OutcomeOf(g)
<1>1. \A g \in Keys : outcomeBar[g] = OutcomeOf(g)
  BY DEF outcomeBar, OutcomeOf
<1>2. \A g \in Keys : outcomeBar'[g] = OutcomeOf(g)'
  BY DEF outcomeBar, OutcomeOf
<1>3. QED
  BY <1>1, <1>2

LEMMA OutcomeReplaced ==
    ASSUME NEW k \in Keys, NEW o, outcomeBar' = [outcomeBar EXCEPT ![k] = o]
    PROVE  /\ OutcomeOf(k)' = o
           /\ \A g \in Keys \ {k} : OutcomeOf(g)' = OutcomeOf(g)
<1>1. \A g \in Keys : outcomeBar[g] = OutcomeOf(g)
  BY DEF outcomeBar, OutcomeOf
<1>2. \A g \in Keys : outcomeBar'[g] = OutcomeOf(g)'
  BY DEF outcomeBar, OutcomeOf
<1>3. \A g \in Keys : outcomeBar'[g] = IF g = k THEN o ELSE outcomeBar[g]
  BY DEF outcomeBar
<1>4. QED
  BY <1>1, <1>2, <1>3

LEMMA HarvestOrdered ==
    ASSUME IInv, IInv', ~DiskFaults, AgesOrdered, NEW h \in Handlers, Harvest(h)
    PROVE  AgesOrdered'
<1>1. PICK k \in Keys : k = Region(h)
  BY RegionType DEF Harvest, InRegion, IInv
<1>2. PICK g \in Keys : Feed!Install(g)
  BY HarvestFeed
<1>3. Done(jobs[k]) /\ OutcomeOf(k) = future[jobs[k]].result
  BY <1>1 DEF Harvest, OutcomeOf
<1>4. OutcomeOf(k) # NoSnap
  BY <1>1, <1>3, DoneFuture, NoSnapAssumption DEF IInv, TypeOK
<1>5. /\ memory' = [memory EXCEPT ![k] = OutcomeOf(k)]
      /\ disk' = [disk EXCEPT ![k] = NoSnap]
      /\ UNCHANGED horizon
  BY <1>1, <1>3 DEF Harvest
<1>6. \A i \in Keys : OutcomeOf(i)' = OutcomeOf(i) \/ OutcomeOf(i)' = NoSnap
  <2>1. outcomeBar' = [outcomeBar EXCEPT ![g] = NoSnap]
    BY <1>2 DEF Feed!Install, outcomeBar
  <2>2. QED
    BY <2>1, OutcomeReplaced
<1>7. OutcomeOf(k)' = NoSnap
  BY <1>1, <1>3 DEF Harvest, OutcomeOf, Done, IInv, TypeOK
<1>8. Ordered(k)'
  <2>1. memory'[k] = OutcomeOf(k) /\ disk'[k] = NoSnap /\ horizon'[k] = horizon[k]
    BY <1>5 DEF IInv, TypeOK
  <2>2. OutcomeOf(k).age <= horizon[k]
    BY <1>4 DEF AgesOrdered, Ordered
  <2>3. QED
    BY <1>7, <2>1, <2>2 DEF Ordered
<1>9. ASSUME NEW i \in Keys \ {k} PROVE Ordered(i)'
  <2>1. memory'[i] = memory[i] /\ disk'[i] = disk[i] /\ horizon'[i] = horizon[i]
    BY <1>5 DEF IInv, TypeOK
  <2>2. QED
    BY <1>6, <2>1 DEF AgesOrdered, Ordered
<1>10. QED
  BY <1>8, <1>9 DEF AgesOrdered

LEMMA WriteFileOrdered ==
    ASSUME IInv, IInv', ~DiskFaults, AgesOrdered, NEW h \in Handlers, WriteFile(h)
    PROVE  AgesOrdered'
<1> USE DEF IInv
<1>1. PICK k \in Keys : k = Region(h)
  BY RegionType DEF WriteFile, InRegion
<1>2. memory[k] \in Snapshot
  BY <1>1 DEF WriteFile, InRegion, WriteHasSnapshot, TypeOK
<1>3. /\ UNCHANGED memory /\ disk' = [disk EXCEPT ![k] = memory[k]]
      /\ Emit(h, FinalRow(k, memory[k]))
  BY <1>1 DEF WriteFile
<1>4. /\ FinalRow(k, memory[k]) \in Rows /\ FinalRow(k, memory[k]).snap = memory[k]
      /\ FinalRow(k, memory[k]).key = k
  BY <1>2, FinalRowType
<1>5. \A g \in Keys : OutcomeOf(g)' = OutcomeOf(g)
  BY WriteFileFeed, OutcomeKept
<1>6. /\ memory'[k] = memory[k] /\ disk'[k] = memory[k] /\ memory[k] # NoSnap
      /\ \A g \in Keys \ {k} : memory'[g] = memory[g] /\ disk'[g] = disk[g]
  BY <1>2, <1>3, NoSnapAssumption DEF TypeOK
<1>7. QED
  BY <1>3, <1>4, <1>5, <1>6, EmitOrdered

LEMMA ClearOrdered ==
    ASSUME IInv, IInv', ~DiskFaults, AgesOrdered, NEW h \in Handlers, Clear(h)
    PROVE  AgesOrdered'
<1> USE DEF IInv
<1>1. PICK k \in Keys : k = Region(h)
  BY RegionType DEF Clear, InRegion
<1>2. PICK g \in Keys : Feed!Forget(g)
  BY ClearFeed
<1>3. outcomeBar' = [outcomeBar EXCEPT ![g] = NoSnap]
  BY <1>2 DEF Feed!Forget, outcomeBar
<1>4. \A i \in Keys : OutcomeOf(i)' = OutcomeOf(i) \/ OutcomeOf(i)' = NoSnap
  BY <1>3, OutcomeReplaced
<1>5. OutcomeOf(k)' = NoSnap
  <2>1. PICK j \in JobIds \cup {NoJob} : j = jobs[k]
    BY DEF TypeOK
  <2>2. /\ jobs' = [jobs EXCEPT ![k] = IF Done(j) THEN NoJob ELSE j]
        /\ future' = IF Done(j) THEN [future EXCEPT ![j] = Unused] ELSE future
    BY <1>1, <2>1 DEF Clear
  <2>3. CASE Done(j)
    BY <2>2, <2>3 DEF OutcomeOf, Done, TypeOK
  <2>4. CASE ~Done(j)
    <3>1. UNCHANGED <<jobs, future>>
      BY <2>1, <2>2, <2>4 DEF TypeOK
    <3>2. QED
      BY <2>1, <2>4, <3>1 DEF OutcomeOf, Done
  <2>5. QED
    BY <2>3, <2>4
<1>6. /\ memory' = [memory EXCEPT ![k] = NoSnap] /\ disk' = [disk EXCEPT ![k] = NoSnap]
      /\ horizon' = [horizon EXCEPT ![k] = 0]
  BY <1>1 DEF Clear
<1>7. Ordered(k)'
  BY <1>5, <1>6 DEF Ordered, TypeOK
<1>8. ASSUME NEW i \in Keys \ {k} PROVE Ordered(i)'
  <2>1. memory'[i] = memory[i] /\ disk'[i] = disk[i] /\ horizon'[i] = horizon[i]
    BY <1>6 DEF TypeOK
  <2>2. QED
    BY <1>4, <2>1 DEF AgesOrdered, Ordered
<1>9. QED
  BY <1>7, <1>8 DEF AgesOrdered

LEMMA ServeOrdered ==
    ASSUME IInv, IInv', ~DiskFaults, AgesOrdered, NEW h \in Handlers,
           InRegion(h, "decide"), NEW k \in Keys, NEW snap \in Lookup(k),
           memory' = [memory EXCEPT ![k] = snap], UNCHANGED disk,
           NEW row \in Rows, row.key = k, row.snap = snap, Emit(h, row),
           \A g \in Keys : OutcomeOf(g)' = OutcomeOf(g) \/ OutcomeOf(g)' = NoSnap
    PROVE  AgesOrdered'
<1> USE DEF IInv
<1>1. \A g \in Handlers : ~At(g, "write")
  BY DEF LockHeld, InRegion, At
<1>2. memory[k] # NoSnap => disk[k] = memory[k]
  BY <1>1 DEF DiskBacksMemory, InRegion
<1>3. snap = disk[k] /\ disk'[k] = disk[k] /\ memory'[k] = snap
  BY <1>2 DEF Lookup, TypeOK
<1>4. \A g \in Keys \ {k} : memory'[g] = memory[g] /\ disk'[g] = disk[g]
  BY DEF TypeOK
<1>5. QED
  BY <1>3, <1>4, EmitOrdered

LEMMA ServeFreshOrdered ==
    ASSUME IInv, IInv', ~DiskFaults, AgesOrdered, NEW h \in Handlers, ServeFresh(h)
    PROVE  AgesOrdered'
<1>1. PICK k \in Keys : k = Region(h)
  BY RegionType DEF ServeFresh, InRegion, IInv
<1>2. PICK snap \in Lookup(k) \ {NoSnap} :
         /\ memory' = [memory EXCEPT ![k] = snap] /\ Emit(h, FinalRow(k, snap))
  BY <1>1 DEF ServeFresh
<1>3. snap \in Snapshot
  BY <1>2 DEF Lookup, IInv, TypeOK
<1>4. \A g \in Keys : OutcomeOf(g)' = OutcomeOf(g)
  BY ServeFreshFeed, OutcomeKept
<1>5. InRegion(h, "decide") /\ UNCHANGED disk
  BY DEF ServeFresh
<1>6. /\ FinalRow(k, snap) \in Rows /\ FinalRow(k, snap).snap = snap
      /\ FinalRow(k, snap).key = k
  BY <1>3, FinalRowType
<1>7. QED
  BY <1>2, <1>4, <1>5, <1>6, ServeOrdered

LEMMA ServeCollectingOrdered ==
    ASSUME IInv, IInv', ~DiskFaults, AgesOrdered, NEW h \in Handlers, ServeCollecting(h)
    PROVE  AgesOrdered'
<1>1. PICK k \in Keys : k = Region(h)
  BY RegionType DEF ServeCollecting, InRegion, IInv
<1>2. PICK snap \in Lookup(k) :
         /\ memory' = [memory EXCEPT ![k] = snap] /\ Emit(h, CollectingRow(k, snap))
  BY <1>1 DEF ServeCollecting
<1>3. snap \in Snapshot \cup {NoSnap}
  BY <1>2 DEF Lookup, IInv, TypeOK
<1>4. \A g \in Keys : OutcomeOf(g)' = OutcomeOf(g) \/ OutcomeOf(g)' = NoSnap
  <2>1. CASE outcomeBar' = outcomeBar
    BY <2>1, OutcomeKept
  <2>2. CASE \E i \in Keys : Feed!Begin(i)
    <3>1. PICK i \in Keys : outcomeBar' = [outcomeBar EXCEPT ![i] = NoSnap]
      BY <2>2 DEF Feed!Begin, outcomeBar
    <3>2. QED
      BY <3>1, OutcomeReplaced
  <2>3. QED
    BY <2>1, <2>2, ServeCollectingFeed
<1>5. InRegion(h, "decide") /\ UNCHANGED disk
  BY DEF ServeCollecting
<1>6. /\ CollectingRow(k, snap) \in Rows /\ CollectingRow(k, snap).snap = snap
      /\ CollectingRow(k, snap).key = k
  BY <1>3, CollectingRowType
<1>7. QED
  BY <1>2, <1>4, <1>5, <1>6, ServeOrdered

LEMMA FinishOrdered ==
    ASSUME IInv, AgesOrdered, NEW j \in JobIds, NEW ok \in BOOLEAN, WorkerFinish(j, ok)
    PROVE  AgesOrdered'
<1>1. PICK k \in Keys : Feed!Complete(k, ok)
  BY WorkerFinishFeed
<1>2. outcomeBar' = [outcomeBar EXCEPT ![k] = [age |-> 0, ok |-> ok]]
  BY <1>1 DEF Feed!Complete, outcomeBar
<1>3. /\ OutcomeOf(k)' = [age |-> 0, ok |-> ok]
      /\ \A g \in Keys \ {k} : OutcomeOf(g)' = OutcomeOf(g)
  BY <1>2, OutcomeReplaced
<1>4. UNCHANGED <<memory, disk, horizon>>
  BY DEF WorkerFinish
<1>5. Ordered(k)'
  <2>1. (OutcomeOf(k)').age = 0
    BY <1>3
  <2>2. /\ horizon[k] \in Nat /\ (memory[k] # NoSnap => memory[k].age \in Nat)
        /\ (disk[k] # NoSnap => disk[k].age \in Nat)
    BY AgesAreNumbers DEF IInv
  <2>3. QED
    BY <1>4, <2>1, <2>2 DEF AgesOrdered, Ordered
<1>6. ASSUME NEW g \in Keys \ {k} PROVE Ordered(g)'
  BY <1>3, <1>4 DEF AgesOrdered, Ordered
<1>7. QED
  BY <1>5, <1>6 DEF AgesOrdered

LEMMA OlderMonotone ==
    ASSUME NEW a \in Nat, NEW b \in Nat, a <= b
    PROVE  Older(a) <= Older(b)
BY TTLAssumption DEF Older

LEMMA AgedAge ==
    ASSUME NEW snap \in Snapshot
    PROVE  Aged(snap).age = Older(snap.age)
<1>1. snap = [age |-> snap.age, ok |-> snap.ok]
  BY DEF Snapshot
<1>2. Aged(snap) = [snap EXCEPT !.age = Older(snap.age)]
  BY NoSnapAssumption DEF Aged
<1>3. QED
  BY <1>1, <1>2

LEMMA TickOrdered ==
    ASSUME IInv, AgesOrdered, Tick
    PROVE  AgesOrdered'
<1>1. SUFFICES ASSUME NEW k \in Keys PROVE Ordered(k)'
  BY DEF AgesOrdered
<1>2. OutcomeOf(k)' = Aged(OutcomeOf(k))
  <2>1. outcomeBar' = [i \in Keys |-> Feed!Later(outcomeBar[i])]
    BY TickFeed DEF Feed!Age, outcomeBar
  <2>2. outcomeBar'[k] = OutcomeOf(k)' /\ outcomeBar[k] = OutcomeOf(k)
    BY DEF outcomeBar, OutcomeOf
  <2>3. OutcomeOf(k) \in Snapshot \cup {NoSnap}
    BY AgesAreNumbers DEF IInv
  <2>4. QED
    BY <2>1, <2>2, <2>3, AgedLater
<1>3. memory'[k] = Aged(memory[k]) /\ disk'[k] = Aged(disk[k]) /\ horizon'[k] = Older(horizon[k])
  BY DEF Tick
<1>4. /\ memory[k] \in Snapshot \cup {NoSnap} /\ disk[k] \in Snapshot \cup {NoSnap}
      /\ OutcomeOf(k) \in Snapshot \cup {NoSnap}
  BY AgesAreNumbers DEF IInv, TypeOK
<1>5. \A snap \in Snapshot \cup {NoSnap} :
         /\ Aged(snap) = NoSnap <=> snap = NoSnap
         /\ snap # NoSnap => Aged(snap).age = Older(snap.age)
  BY AgedType, AgedAge
<1>6. /\ horizon[k] \in Nat /\ (memory[k] # NoSnap => memory[k].age \in Nat)
      /\ (disk[k] # NoSnap => disk[k].age \in Nat)
      /\ (OutcomeOf(k) # NoSnap => OutcomeOf(k).age \in Nat)
  BY AgesAreNumbers DEF IInv
<1>7. Ordered(k)
  BY DEF AgesOrdered
<1> HIDE DEF AgesOrdered, IInv
<1>8. memory'[k] # NoSnap => memory'[k].age <= horizon'[k]
  BY <1>3, <1>4, <1>5, <1>6, <1>7, OlderMonotone DEF Ordered
<1>9. disk'[k] # NoSnap => disk'[k].age <= horizon'[k]
  BY <1>3, <1>4, <1>5, <1>6, <1>7, OlderMonotone DEF Ordered
<1>10. ASSUME OutcomeOf(k)' # NoSnap
       PROVE  /\ (OutcomeOf(k)').age <= horizon'[k]
              /\ memory'[k] # NoSnap => (OutcomeOf(k)').age <= memory'[k].age
              /\ disk'[k] # NoSnap => (OutcomeOf(k)').age <= disk'[k].age
  <2>1. OutcomeOf(k) # NoSnap /\ (OutcomeOf(k)').age = Older(OutcomeOf(k).age)
    BY <1>2, <1>4, <1>5, <1>10
  <2>2. (OutcomeOf(k)').age <= horizon'[k]
    BY <1>3, <1>6, <1>7, <2>1, OlderMonotone DEF Ordered
  <2>3. memory'[k] # NoSnap => (OutcomeOf(k)').age <= memory'[k].age
    BY <1>3, <1>4, <1>5, <1>6, <1>7, <2>1, OlderMonotone DEF Ordered
  <2>4. disk'[k] # NoSnap => (OutcomeOf(k)').age <= disk'[k].age
    BY <1>3, <1>4, <1>5, <1>6, <1>7, <2>1, OlderMonotone DEF Ordered
  <2>5. QED
    BY <2>2, <2>3, <2>4
<1>11. QED
  BY <1>8, <1>9, <1>10 DEF Ordered

LEMMA CrashOrdered ==
    ASSUME AgesOrdered, Crash
    PROVE  AgesOrdered'
<1>1. /\ \A k \in Keys : memory'[k] = NoSnap /\ ~Done(jobs[k])'
      /\ UNCHANGED <<disk, horizon>>
  BY DEF Crash, Done
<1>2. \A k \in Keys : OutcomeOf(k)' = NoSnap
  BY DEF Crash, OutcomeOf, Done
<1>3. QED
  BY <1>1, <1>2 DEF AgesOrdered, Ordered

LEMMA AgesOrderedInvariant ==
    ASSUME ~DiskFaults
    PROVE  Spec => []AgesOrdered
<1>1. Init => AgesOrdered
  BY DEF Init, AgesOrdered, Ordered, OutcomeOf, Done
<1>2. IInv /\ IInv' /\ AgesOrdered /\ [Next]_vars => AgesOrdered'
  <2>1. SUFFICES ASSUME IInv, IInv', AgesOrdered, [Next]_vars PROVE AgesOrdered'
    OBVIOUS
  <2>2. CASE UNCHANGED <<memory, disk, jobs, future, horizon>>
    BY <2>1, <2>2 DEF AgesOrdered, Ordered, OutcomeOf, Done
  <2>3. ASSUME NEW h \in Handlers, HandlerStep(h) PROVE AgesOrdered'
    <3>1. CASE NotDone(h) \/ Respond(h)
      BY <2>2, <3>1 DEF NotDone, Respond
    <3>2. QED
      BY <2>1, <2>3, <3>1, HarvestOrdered, WriteFileOrdered, ClearOrdered,
         ServeFreshOrdered, ServeCollectingOrdered DEF HandlerStep
  <2>4. CASE \E h \in Handlers : Arrive(h)
    BY <2>2, <2>4 DEF Arrive, Enter
  <2>5. CASE WorkerTake
    <3>1. UNCHANGED <<memory, disk, horizon>>
      BY <2>5 DEF WorkerTake
    <3>2. \A k \in Keys : OutcomeOf(k)' = OutcomeOf(k)
      BY <2>1, <2>5, WorkerTakeFeed, OutcomeKept
    <3>3. QED
      BY <2>1, <3>1, <3>2 DEF AgesOrdered, Ordered
  <2>6. CASE Finish
    BY <2>1, <2>6, FinishOrdered DEF Finish
  <2>7. CASE UNCHANGED vars
    BY <2>2, <2>7 DEF vars
  <2>8. QED
    BY <2>1, <2>3, <2>4, <2>5, <2>6, <2>7, TickOrdered, CrashOrdered DEF Next
<1>3. QED
  BY <1>1, <1>2, Invariance, PTL DEF Spec

(* Only a row emitted in this step is new, and it carries the snapshot     *)
(* that memory, the file or the finished collection held.                  *)
LEMMA EmitNewRows ==
    ASSUME TypeOK, NEW h \in Handlers, NEW r, Emit(h, r),
           NEW g \in Handlers, NEW row \in NewRows(g)
    PROVE  row = r
<1>1. \A i \in Handlers \ {h} : handler'[i] = handler[i]
  BY DEF Emit, TypeOK
<1>2. handler'[h].rows = handler[h].rows \cup {r}
  BY DEF Emit, TypeOK, Handler
<1>3. QED
  BY <1>1, <1>2 DEF NewRows

LEMMA ShownStep ==
    ASSUME IInv, IInv', ~DiskFaults, AgesOrdered, [Next]_vars,
           NEW g \in Handlers, NEW row \in NewRows(g), row.snap # NoSnap
    PROVE  row.snap.age <= horizon[row.key]
<1> USE DEF IInv
<1>1. CASE \E h \in Handlers : WriteFile(h)
  <2>1. PICK h \in Handlers : WriteFile(h)
    BY <1>1
  <2>2. PICK k \in Keys : k = Region(h)
    BY <2>1, RegionType DEF WriteFile, InRegion
  <2>3. memory[k] \in Snapshot
    BY <2>1, <2>2 DEF WriteFile, InRegion, WriteHasSnapshot, TypeOK
  <2>4. row = FinalRow(k, memory[k])
    BY <2>1, <2>2, EmitNewRows DEF WriteFile
  <2>5. QED
    BY <2>3, <2>4, FinalRowType, NoSnapAssumption DEF AgesOrdered, Ordered
<1>2. CASE \E h \in Handlers : ServeFresh(h) \/ ServeCollecting(h)
  <2>1. PICK h \in Handlers : ServeFresh(h) \/ ServeCollecting(h)
    BY <1>2
  <2>2. PICK k \in Keys : k = Region(h)
    BY <2>1, RegionType DEF ServeFresh, ServeCollecting, InRegion
  <2>3. PICK snap \in Lookup(k) : \/ Emit(h, FinalRow(k, snap)) /\ snap # NoSnap
                                 \/ Emit(h, CollectingRow(k, snap))
    BY <2>1, <2>2 DEF ServeFresh, ServeCollecting
  <2>4. snap \in Snapshot \cup {NoSnap}
    BY DEF Lookup, TypeOK
  <2>5. row.key = k /\ row.snap = snap
    BY <2>3, <2>4, EmitNewRows, FinalRowType, CollectingRowType
  <2>6. snap = memory[k] \/ snap = disk[k]
    BY DEF Lookup
  <2>7. QED
    BY <2>5, <2>6 DEF AgesOrdered, Ordered
<1>3. CASE \E h \in Handlers : Harvest(h)
  <2>1. PICK h \in Handlers : Harvest(h)
    BY <1>3
  <2>2. handler' = [handler EXCEPT ![h].pc = "write"]
    BY <2>1 DEF Harvest
  <2>3. handler'[g].rows = handler[g].rows
    BY <2>2 DEF TypeOK, Handler
  <2>4. QED
    BY <2>3 DEF NewRows
<1>4. CASE \E h \in Handlers : Clear(h) \/ NotDone(h)
  <2>1. PICK h \in Handlers : Clear(h) \/ NotDone(h)
    BY <1>4
  <2>2. PICK job : handler' = [handler EXCEPT ![h].pc = "decide", ![h].job = job]
    BY <2>1 DEF Clear, NotDone
  <2>3. handler'[g].rows = handler[g].rows
    BY <2>2 DEF TypeOK, Handler
  <2>4. QED
    BY <2>3 DEF NewRows
<1>5. CASE (\E h \in Handlers : Respond(h) \/ Arrive(h)) \/ Crash
  <2>1. handler'[g] = handler[g] \/ handler'[g].rows = {}
    <3>1. CASE \E h \in Handlers : Respond(h)
      BY <3>1 DEF Respond, Idle, TypeOK
    <3>2. CASE \E h \in Handlers : Arrive(h)
      <4>1. PICK h \in Handlers, rs \in Requests, refresh \in BOOLEAN, clear \in BOOLEAN :
                   Enter(h, rs, refresh, clear)
        BY <3>2 DEF Arrive
      <4>2. handler' = [handler EXCEPT ![h] = [Idle EXCEPT !.pc = "look", !.todo = rs,
                                                   !.refresh = refresh, !.clear = clear]]
        BY <4>1 DEF Enter
      <4>3. handler'[h].rows = {}
        BY <4>2 DEF Idle, TypeOK
      <4>4. QED
        BY <4>2, <4>3 DEF TypeOK
    <3>3. CASE Crash
      BY <3>3 DEF Crash, Idle
    <3>4. QED
      BY <1>5, <3>1, <3>2, <3>3
  <2>2. QED
    BY <2>1 DEF NewRows
<1>6. CASE UNCHANGED handler
  BY <1>6 DEF NewRows
<1>7. QED
  BY <1>1, <1>2, <1>3, <1>4, <1>5, <1>6
     DEF Next, HandlerStep, Finish, WorkerTake, WorkerFinish, Tick, vars

(* For one key no response goes back in time, across polls, refreshes,     *)
(* clears, crashes and torn writes, if no file operation fails.            *)
THEOREM NeverOlder ==
    ASSUME ~DiskFaults
    PROVE  Spec => NeverShowsOlder
<1>1. IInv /\ IInv' /\ AgesOrdered /\ [Next]_vars =>
         [\A h \in Handlers : \A row \in NewRows(h) :
             row.snap # NoSnap => row.snap.age <= horizon[row.key]]_vars
  BY ShownStep
<1>2. QED
  BY <1>1, Invariance, AgesOrderedInvariant, PTL DEF Spec, NeverShowsOlder

-----------------------------------------------------------------------------
(* The cache implements the API.  The status of a key depends on its cell, *)
(* on its outcome, on whether it has a job, and on whether a handler that  *)
(* found the job running is about to answer for it.                        *)
statusBar == [k \in Keys |-> Status(k)]

LEMMA EndedIs ==
    ASSUME TypeOK, NEW k \in Keys
    PROVE  /\ Ended(k) <=> OutcomeOf(k) # NoSnap /\ ~Unseen(k)
           /\ Done(jobs[k]) <=> OutcomeOf(k) # NoSnap
<1>1. Done(jobs[k]) => OutcomeOf(k) \in Snapshot
  BY DoneFuture DEF OutcomeOf, TypeOK
<1>2. ~Done(jobs[k]) => OutcomeOf(k) = NoSnap
  BY DEF OutcomeOf
<1>3. QED
  BY <1>1, <1>2, NoSnapAssumption DEF Ended

LEMMA EndedNext ==
    ASSUME TypeOK', NEW k \in Keys
    PROVE  Ended(k)' <=> OutcomeOf(k)' # NoSnap /\ ~Unseen(k)'
<1>1. Done(jobs[k])' => OutcomeOf(k)' \in Snapshot
  BY DEF OutcomeOf, TypeOK, Done, Future
<1>2. ~Done(jobs[k])' => OutcomeOf(k)' = NoSnap
  BY DEF OutcomeOf
<1>3. QED
  BY <1>1, <1>2, NoSnapAssumption DEF Ended

(* The handler that is inside the walk over the regions is the only one.   *)
LEMMA UnseenNow ==
    ASSUME IInv, NEW h \in Handlers, ~At(h, "idle"), NEW k \in Keys
    PROVE  Unseen(k) <=> InRegion(h, "decide") /\ Region(h) = k
BY DEF IInv, LockHeld, Unseen, InRegion, At

LEMMA UnseenNext ==
    ASSUME IInv', NEW h \in Handlers, ~At(h, "idle")', NEW k \in Keys
    PROVE  Unseen(k)' <=> InRegion(h, "decide")' /\ Region(h)' = k
BY DEF IInv, LockHeld, Unseen, InRegion, At

LEMMA UnseenNever ==
    ASSUME IInv, lock = NoHandler, NEW k \in Keys
    PROVE  ~Unseen(k)
BY NoHandlerAssumption DEF IInv, LockHeld, Unseen, InRegion, At

(* What it takes for a status to stay as it is.                            *)
LEMMA SameStatus ==
    ASSUME NEW k \in Keys, Kept(k)' = Kept(k), jobs'[k] = NoJob <=> jobs[k] = NoJob,
           Ended(k)' <=> Ended(k), Ended(k) => OutcomeOf(k)' = OutcomeOf(k)
    PROVE  Status(k)' = Status(k)
<1>1. Ended(k) => /\ OutcomeOf(k) = future[jobs[k]].result
                  /\ OutcomeOf(k)' = (future[jobs[k]].result)'
  BY DEF Ended, OutcomeOf
<1>2. IsFresh(Kept(k))' <=> IsFresh(Kept(k))
  BY DEF IsFresh
<1>3. Ended(k) => (IsFresh(future[jobs[k]].result)' <=> IsFresh(future[jobs[k]].result))
  BY <1>1 DEF IsFresh
<1>4. CASE Ended(k)
  BY <1>3, <1>4 DEF Status
<1>5. CASE ~Ended(k)
  BY <1>2, <1>5 DEF Status
<1>6. QED
  BY <1>4, <1>5

LEMMA KeptSame ==
    ASSUME cellBar' = cellBar
    PROVE  \A k \in Keys : Kept(k)' = Kept(k)
<1>1. \A k \in Keys : cellBar[k] = Kept(k)
  BY DEF cellBar, Kept
<1>2. \A k \in Keys : cellBar'[k] = Kept(k)'
  BY DEF cellBar, Kept
<1>3. QED
  BY <1>1, <1>2

LEMMA KeptReplaced ==
    ASSUME NEW k \in Keys, NEW snap, cellBar' = [cellBar EXCEPT ![k] = snap]
    PROVE  /\ Kept(k)' = snap
           /\ \A g \in Keys \ {k} : Kept(g)' = Kept(g)
<1>1. \A g \in Keys : cellBar[g] = Kept(g)
  BY DEF cellBar, Kept
<1>2. \A g \in Keys : cellBar'[g] = Kept(g)'
  BY DEF cellBar, Kept
<1>3. \A g \in Keys : cellBar'[g] = IF g = k THEN snap ELSE cellBar[g]
  BY DEF cellBar
<1>4. QED
  BY <1>1, <1>2, <1>3

LEMMA SameStatuses ==
    ASSUME TypeOK, TypeOK', cellBar' = cellBar, outcomeBar' = outcomeBar, UNCHANGED jobs,
           \A k \in Keys : (Unseen(k)' <=> Unseen(k)) \/ OutcomeOf(k) = NoSnap
    PROVE  statusBar' = statusBar
<1>1. ASSUME NEW k \in Keys PROVE Status(k)' = Status(k)
  <2>1. OutcomeOf(k)' = OutcomeOf(k) /\ Kept(k)' = Kept(k)
    BY OutcomeKept, KeptSame
  <2>2. Ended(k)' <=> Ended(k)
    BY <2>1, EndedIs, EndedNext
  <2>3. QED
    BY <2>1, <2>2, SameStatus
<1>2. QED
  BY <1>1 DEF statusBar

(* A handler that enters, leaves, goes on to decide or fills its file      *)
(* changes no status, nor does a thread that takes a collection.           *)
LEMMA EnterApi ==
    ASSUME IInv, IInv', NEW h \in Handlers, Arrive(h)
    PROVE  statusBar' = statusBar
<1>1. PICK rs \in Requests, refresh \in BOOLEAN, clear \in BOOLEAN :
         Enter(h, rs, refresh, clear)
  BY DEF Arrive
<1>2. handler'[h].pc = "look"
  BY <1>1 DEF Enter, Idle, IInv, TypeOK
<1>3. ASSUME NEW k \in Keys PROVE ~Unseen(k) /\ ~Unseen(k)'
  BY <1>1, <1>2, UnseenNever, UnseenNext DEF Enter, At, InRegion
<1>4. cellBar' = cellBar /\ outcomeBar' = outcomeBar /\ UNCHANGED jobs
  BY <1>1, SameBars DEF Enter
<1>5. QED
  BY <1>3, <1>4, SameStatuses DEF IInv

LEMMA RespondApi ==
    ASSUME IInv, IInv', NEW h \in Handlers, Respond(h)
    PROVE  statusBar' = statusBar
<1>1. ASSUME NEW k \in Keys PROVE ~Unseen(k)
  BY UnseenNow DEF Respond, At, InRegion
<1>2. ASSUME NEW k \in Keys PROVE ~Unseen(k)'
  BY NoHandlerAssumption DEF Respond, IInv, LockHeld, Unseen, InRegion, At
<1>3. cellBar' = cellBar /\ outcomeBar' = outcomeBar /\ UNCHANGED jobs
  BY SameBars DEF Respond
<1>4. QED
  BY <1>1, <1>2, <1>3, SameStatuses DEF IInv

LEMMA NotDoneApi ==
    ASSUME IInv, IInv', NEW h \in Handlers, NotDone(h)
    PROVE  statusBar' = statusBar
<1>1. /\ handler' = [handler EXCEPT ![h] = [handler[h] EXCEPT !.pc = "decide",
                                                             !.job = jobs[Region(h)]]]
      /\ handler[h] \in Handler
  BY DEF NotDone, IInv, TypeOK
<1>2. handler'[h].pc = "decide" /\ Region(h)' = Region(h)
  BY <1>1 DEF Region, Handler, IInv, TypeOK
<1>3. ASSUME NEW k \in Keys PROVE ~Unseen(k)' \/ OutcomeOf(k) = NoSnap
  <2>1. Unseen(k)' => Region(h) = k
    BY <1>2, UnseenNext DEF At
  <2>2. QED
    BY <2>1 DEF NotDone, OutcomeOf
<1>4. ASSUME NEW k \in Keys PROVE ~Unseen(k)
  BY UnseenNow DEF NotDone, At, InRegion
<1>5. cellBar' = cellBar /\ outcomeBar' = outcomeBar /\ UNCHANGED jobs
  BY SameBars DEF NotDone
<1>6. QED
  BY <1>3, <1>4, <1>5, SameStatuses DEF IInv

LEMMA WriteFileApi ==
    ASSUME IInv, IInv', NEW h \in Handlers, WriteFile(h)
    PROVE  statusBar' = statusBar
<1>1. PICK row : Emit(h, row)
  BY DEF WriteFile
<1>2. handler'[h].pc = "look"
  BY <1>1 DEF Emit, IInv, TypeOK, Handler
<1>3. ASSUME NEW k \in Keys PROVE ~Unseen(k) /\ ~Unseen(k)'
  BY <1>2, UnseenNow, UnseenNext DEF WriteFile, At, InRegion
<1>4. cellBar' = cellBar /\ outcomeBar' = outcomeBar /\ UNCHANGED jobs
  BY WriteFileFeed DEF WriteFile
<1>5. QED
  BY <1>3, <1>4, SameStatuses DEF IInv

LEMMA WorkerTakeApi ==
    ASSUME IInv, IInv', WorkerTake
    PROVE  statusBar' = statusBar
<1>1. ASSUME NEW k \in Keys PROVE Unseen(k)' <=> Unseen(k)
  BY DEF WorkerTake, Unseen, InRegion, At, Region
<1>2. cellBar' = cellBar /\ outcomeBar' = outcomeBar /\ UNCHANGED jobs
  BY WorkerTakeFeed DEF WorkerTake
<1>3. QED
  BY <1>1, <1>2, SameStatuses DEF IInv

(* Only the status of one key changes.                                     *)
LEMMA OneStatus ==
    ASSUME NEW k \in Keys, \A g \in Keys \ {k} : Status(g)' = Status(g)
    PROVE  statusBar' = [statusBar EXCEPT ![k] = Status(k)']
BY DEF statusBar

(* The other keys, in a step of a handler for one of them.                 *)
LEMMA OtherStatus ==
    ASSUME TypeOK, TypeOK', NEW g \in Keys,
           Kept(g)' = Kept(g), OutcomeOf(g)' = OutcomeOf(g), jobs'[g] = jobs[g],
           ~Unseen(g), ~Unseen(g)'
    PROVE  Status(g)' = Status(g)
BY EndedIs, EndedNext, SameStatus

(* The result that ended is shown, and is the snapshot from then on.       *)
LEMMA HarvestApi ==
    ASSUME IInv, IInv', ~DiskFaults, NEW h \in Handlers, Harvest(h)
    PROVE  \E k \in Keys : k = Region(h) /\ \A refresh \in BOOLEAN : Api!Ask(k, refresh)
<1>1. PICK k \in Keys : k = Region(h) /\ Feed!Install(k)
  BY HarvestFeed
<1>2. /\ OutcomeOf(k) # NoSnap
      /\ Kept(k)' = OutcomeOf(k) /\ OutcomeOf(k)' = NoSnap
      /\ \A g \in Keys \ {k} : Kept(g)' = Kept(g) /\ OutcomeOf(g)' = OutcomeOf(g)
  <2>1. /\ outcomeBar[k] # NoSnap
        /\ cellBar' = [cellBar EXCEPT ![k] = outcomeBar[k]]
        /\ outcomeBar' = [outcomeBar EXCEPT ![k] = NoSnap]
    BY <1>1 DEF Feed!Install, cellBar, outcomeBar
  <2>2. outcomeBar[k] = OutcomeOf(k)
    BY DEF outcomeBar, OutcomeOf
  <2>3. QED
    BY <2>1, <2>2, KeptReplaced, OutcomeReplaced
<1>3. jobs' = [jobs EXCEPT ![k] = NoJob] /\ OutcomeOf(k) = future[jobs[k]].result
  BY <1>1 DEF Harvest, OutcomeOf
<1>4. handler'[h].pc = "write"
  BY DEF Harvest, IInv, TypeOK, Handler
<1>5. ASSUME NEW g \in Keys PROVE ~Unseen(g) /\ ~Unseen(g)'
  BY <1>4, UnseenNow, UnseenNext DEF Harvest, At, InRegion
<1>6. \A g \in Keys \ {k} : Status(g)' = Status(g)
  BY <1>2, <1>3, <1>5, OtherStatus DEF IInv, TypeOK
<1>7. Ended(k) /\ ~Ended(k)' /\ jobs'[k] = NoJob
  BY <1>2, <1>3, <1>5, EndedIs, EndedNext DEF IInv, TypeOK
<1>8. PICK freshness \in {"fresh", "stale"} : freshness = "fresh" <=> IsFresh(OutcomeOf(k))
  OBVIOUS
<1>9. Status(k) = [fresh |-> FALSE, job |-> freshness]
  BY <1>3, <1>7, <1>8 DEF Status
<1>10. Status(k)' = [fresh |-> freshness = "fresh", job |-> "none"]
  <2>1. Kept(k)' # NoSnap /\ (IsFresh(Kept(k))' <=> freshness = "fresh")
    BY <1>2, <1>8 DEF IsFresh
  <2>2. QED
    BY <1>7, <2>1 DEF Status
<1>11. ASSUME NEW refresh \in BOOLEAN PROVE Api!Ask(k, refresh)
  <2>1. statusBar[k] = [fresh |-> FALSE, job |-> freshness]
    BY <1>9 DEF statusBar
  <2>2. Status(k)' = Api!Answered(statusBar[k], refresh)
    BY <1>10, <2>1 DEF Api!Answered, Api!Ended
  <2>3. QED
    BY <1>6, <2>2, OneStatus DEF Api!Ask, statusBar
<1>12. QED
  BY <1>1, <1>11

LEMMA ClearApi ==
    ASSUME IInv, IInv', ~DiskFaults, NEW h \in Handlers, Clear(h)
    PROVE  \E k \in Keys : Api!Clear(k)
<1>1. PICK k \in Keys : k = Region(h) /\ Feed!Forget(k)
  BY ClearFeed
<1>2. /\ Kept(k)' = NoSnap /\ OutcomeOf(k)' = NoSnap
      /\ \A g \in Keys \ {k} : Kept(g)' = Kept(g) /\ OutcomeOf(g)' = OutcomeOf(g)
  <2>1. /\ cellBar' = [cellBar EXCEPT ![k] = NoSnap]
        /\ outcomeBar' = [outcomeBar EXCEPT ![k] = NoSnap]
    BY <1>1 DEF Feed!Forget, cellBar, outcomeBar
  <2>2. QED
    BY <2>1, KeptReplaced, OutcomeReplaced
<1>3. jobs' = [jobs EXCEPT ![k] = IF Done(jobs[k]) THEN NoJob ELSE jobs[k]]
  BY <1>1 DEF Clear
<1>4. handler'[h].pc = "decide" /\ Region(h)' = k
  <2>1. PICK job : handler' = [handler EXCEPT ![h] = [handler[h] EXCEPT !.pc = "decide",
                                                                        !.job = job]]
    BY DEF Clear
  <2>2. QED
    BY <1>1, <2>1 DEF Region, IInv, TypeOK, Handler
<1>5. ASSUME NEW g \in Keys PROVE ~Unseen(g) /\ (g # k => ~Unseen(g)')
  BY <1>4, UnseenNow, UnseenNext DEF Clear, At, InRegion
<1>6. \A g \in Keys \ {k} : Status(g)' = Status(g)
  BY <1>2, <1>3, <1>5, OtherStatus DEF IInv, TypeOK
<1>7. ~Ended(k)' /\ (Ended(k) <=> Done(jobs[k]))
  BY <1>2, <1>5, EndedIs, EndedNext DEF IInv
<1>8. jobs'[k] = IF Done(jobs[k]) THEN NoJob ELSE jobs[k]
  BY <1>3 DEF IInv, TypeOK
<1>9. Status(k)' = [fresh |-> FALSE, job |-> IF jobs'[k] = NoJob THEN "none" ELSE "running"]
  BY <1>2, <1>7 DEF Status
<1>10. /\ Ended(k) => Status(k).job \in {"fresh", "stale"}
       /\ ~Ended(k) => Status(k).job = IF jobs[k] = NoJob THEN "none" ELSE "running"
  BY DEF Status
<1>11. Status(k)' = Api!Cleared(statusBar[k])
  <2>1. statusBar[k] = Status(k)
    BY DEF statusBar
  <2>2. CASE Ended(k)
    BY <1>7, <1>8, <1>9, <1>10, <2>1, <2>2 DEF Api!Cleared, Api!Ended
  <2>3. CASE ~Ended(k)
    BY <1>7, <1>8, <1>9, <1>10, <2>1, <2>3 DEF Api!Cleared, Api!Ended
  <2>4. QED
    BY <2>2, <2>3
<1>12. QED
  BY <1>6, <1>11, OneStatus DEF Api!Clear, statusBar

(* Once the handler has answered, a collection that ended before it did is *)
(* seen to have ended.                                                     *)
LEMMA ServeFreshApi ==
    ASSUME IInv, IInv', ~DiskFaults, NEW h \in Handlers, ServeFresh(h)
    PROVE  \/ statusBar' = statusBar
           \/ \E k \in Keys : \E freshness \in {"fresh", "stale"} : Api!Finish(k, freshness)
<1>1. PICK k \in Keys : k = Region(h)
  BY RegionType DEF ServeFresh, InRegion, IInv
<1>2. cellBar' = cellBar /\ outcomeBar' = outcomeBar /\ UNCHANGED jobs
  BY ServeFreshFeed DEF ServeFresh
<1>3. \A g \in Keys : Kept(g)' = Kept(g) /\ OutcomeOf(g)' = OutcomeOf(g)
  BY <1>2, KeptSame, OutcomeKept
<1>4. handler'[h].pc = "look"
  BY DEF ServeFresh, Emit, IInv, TypeOK, Handler
<1>5. ASSUME NEW g \in Keys PROVE (Unseen(g) <=> g = k) /\ ~Unseen(g)'
  BY <1>1, <1>4, UnseenNow, UnseenNext DEF ServeFresh, At, InRegion
<1>6. CASE OutcomeOf(k) = NoSnap
  BY <1>2, <1>5, <1>6, SameStatuses DEF IInv
<1>7. CASE OutcomeOf(k) # NoSnap
  <2>1. ~Ended(k) /\ Ended(k)' /\ Done(jobs[k])
    BY <1>3, <1>5, <1>7, EndedIs, EndedNext DEF IInv
  <2>2. Status(k).job = "running"
    BY <2>1 DEF Status, Done
  <2>3. PICK freshness \in {"fresh", "stale"} :
           Status(k)' = [fresh |-> FALSE, job |-> freshness]
    <3>1. PICK freshness \in {"fresh", "stale"} :
             freshness = "fresh" <=> IsFresh(future[jobs[k]].result)'
      OBVIOUS
    <3>2. Status(k)' = [fresh |-> FALSE, job |-> freshness]
      BY <2>1, <3>1 DEF Status
    <3>3. QED
      BY <3>2
  <2>4. \A g \in Keys \ {k} : Status(g)' = Status(g)
    BY <1>2, <1>3, <1>5, OtherStatus DEF IInv
  <2>5. Api!Finish(k, freshness)
    BY <2>2, <2>3, <2>4, OneStatus DEF Api!Finish, statusBar
  <2>6. QED
    BY <2>5
<1>8. QED
  BY <1>6, <1>7

(* Without faults a handler finds what the cell holds.                     *)
LEMMA FoundKept ==
    ASSUME ~DiskFaults, NEW k \in Keys, NEW snap \in Lookup(k)
    PROVE  snap = Kept(k)
BY DEF Lookup, Kept

(* A collection starts, or one that ended unseen is replaced by the next.  *)
LEMMA ServeCollectingApi ==
    ASSUME IInv, IInv', ~DiskFaults, NEW h \in Handlers, ServeCollecting(h)
    PROVE  \/ statusBar' = statusBar
           \/ \E k \in Keys : k = Region(h) /\ Api!Ask(k, handler[h].refresh)
<1>1. PICK k \in Keys : k = Region(h)
  BY RegionType DEF ServeCollecting, InRegion, IInv
<1>2. cellBar' = cellBar /\ \A g \in Keys : Kept(g)' = Kept(g)
  <2>1. cellBar' = cellBar
    BY ServeCollectingFeed DEF Feed!Begin, cellBar
  <2>2. QED
    BY <2>1, KeptSame
<1>3. handler'[h].pc = "look"
  BY DEF ServeCollecting, Emit, IInv, TypeOK, Handler
<1>4. ASSUME NEW g \in Keys PROVE (Unseen(g) <=> g = k) /\ ~Unseen(g)'
  BY <1>1, <1>3, UnseenNow, UnseenNext DEF ServeCollecting, At, InRegion
<1>5. handler[h].job = jobs[k]
  BY <1>1 DEF ServeCollecting, InRegion, IInv, JobStillNamed
<1>6. CASE StillCollecting(h)
  <2>1. outcomeBar' = outcomeBar /\ UNCHANGED jobs
    BY <1>6, ServeCollectingFeed DEF ServeCollecting
  <2>2. OutcomeOf(k) = NoSnap
    BY <1>5, <1>6 DEF StillCollecting, OutcomeOf
  <2>3. QED
    BY <1>2, <1>4, <2>1, <2>2, SameStatuses DEF IInv
<1>7. CASE ~StillCollecting(h)
  <2>1. /\ OutcomeOf(k)' = NoSnap
        /\ \A g \in Keys \ {k} : OutcomeOf(g)' = OutcomeOf(g)
    <3>1. outcomeBar' = [outcomeBar EXCEPT ![k] = NoSnap]
      BY <1>1, <1>7, ServeCollectingFeed DEF Feed!Begin, outcomeBar
    <3>2. QED
      BY <3>1, OutcomeReplaced
  <2>2. PICK j \in JobIds : jobs' = [jobs EXCEPT ![k] = j]
    BY <1>1, <1>7 DEF ServeCollecting, StartJob
  <2>3. jobs'[k] # NoJob /\ \A g \in Keys \ {k} : jobs'[g] = jobs[g]
    BY <2>2, NoJobAssumption DEF IInv, TypeOK
  <2>4. \A g \in Keys \ {k} : Status(g)' = Status(g)
    BY <1>2, <1>4, <2>1, <2>3, OtherStatus DEF IInv
  <2>5. ~Ended(k) /\ ~Ended(k)'
    BY <1>4, <2>1, EndedIs, EndedNext DEF IInv
  <2>6. CASE jobs[k] # NoJob
    <3>1. Status(k)' = Status(k)
      BY <1>2, <2>3, <2>5, <2>6, SameStatus
    <3>2. QED
      BY <2>4, <3>1 DEF statusBar
  <2>7. CASE jobs[k] = NoJob
    <3>1. PICK fresh \in BOOLEAN : fresh <=> Kept(k) # NoSnap /\ IsFresh(Kept(k))
      OBVIOUS
    <3>2. Status(k) = [fresh |-> fresh, job |-> "none"]
      BY <2>5, <2>7, <3>1 DEF Status
    <3>3. Status(k)' = [fresh |-> fresh, job |-> "running"]
      <4>1. IsFresh(Kept(k))' <=> IsFresh(Kept(k))
        BY <1>2 DEF IsFresh
      <4>2. QED
        BY <1>2, <2>3, <2>5, <3>1, <4>1 DEF Status
    <3>4. Status(k)' = Api!Answered(statusBar[k], handler[h].refresh)
      <4>1. fresh => handler[h].refresh
        BY <1>1, <3>1, FoundKept DEF ServeCollecting
      <4>2. statusBar[k] = [fresh |-> fresh, job |-> "none"]
        BY <3>2 DEF statusBar
      <4>3. ~Api!Ended(statusBar[k]) /\ ~Api!Finished(statusBar[k], handler[h].refresh)
        BY <4>1, <4>2 DEF Api!Finished, Api!Ended
      <4>4. QED
        BY <3>3, <4>2, <4>3 DEF Api!Answered
    <3>5. Api!Ask(k, handler[h].refresh)
      BY <2>4, <3>4, OneStatus DEF Api!Ask, statusBar
    <3>6. QED
      BY <1>1, <3>5
  <2>8. QED
    BY <2>6, <2>7
<1>8. QED
  BY <1>6, <1>7

LEMMA WorkerFinishApi ==
    ASSUME IInv, IInv', NEW j \in JobIds, NEW ok \in BOOLEAN, WorkerFinish(j, ok)
    PROVE  statusBar' = statusBar \/ \E k \in Keys : Api!Finish(k, "fresh")
<1>1. PICK k \in Keys : k = future[j].key /\ Feed!Complete(k, ok)
  BY WorkerFinishFeed
<1>2. jobs[k] = j /\ ~Done(j) /\ j # NoJob /\ UNCHANGED jobs
  BY <1>1, NoJobAssumption DEF WorkerFinish, IInv, NoOrphanJob, InFlight, Done
<1>3. Done(j)' /\ future'[j].result = [age |-> 0, ok |-> ok]
  BY <1>2 DEF WorkerFinish, Done, IInv, TypeOK
<1>4. \A g \in Keys : Kept(g)' = Kept(g)
  BY KeptSame DEF WorkerFinish, cellBar
<1>5. \A g \in Keys \ {k} : OutcomeOf(g)' = OutcomeOf(g)
  <2>1. outcomeBar' = [outcomeBar EXCEPT ![k] = [age |-> 0, ok |-> ok]]
    BY <1>1 DEF Feed!Complete, outcomeBar
  <2>2. QED
    BY <2>1, OutcomeReplaced
<1>6. ASSUME NEW g \in Keys PROVE Unseen(g)' <=> Unseen(g)
  BY DEF WorkerFinish, Unseen, InRegion, At, Region
<1>7. ASSUME NEW g \in Keys \ {k} PROVE Status(g)' = Status(g)
  <2>1. Ended(g)' <=> Ended(g)
    BY <1>5, <1>6, EndedIs, EndedNext DEF IInv
  <2>2. QED
    BY <1>2, <1>4, <1>5, <2>1, SameStatus
<1>8. ~Ended(k) /\ (Ended(k)' <=> ~Unseen(k))
  BY <1>2, <1>3, <1>6 DEF Ended
<1>9. CASE Unseen(k)
  <2>1. Status(k)' = Status(k)
    BY <1>2, <1>4, <1>8, <1>9, SameStatus
  <2>2. QED
    BY <1>7, <2>1 DEF statusBar
<1>10. CASE ~Unseen(k)
  <2>1. Status(k).job = "running"
    BY <1>2, <1>8 DEF Status
  <2>2. IsFresh(future'[j].result)
    BY <1>3, TTLAssumption DEF IsFresh
  <2>3. Status(k)' = [fresh |-> FALSE, job |-> "fresh"]
    BY <1>2, <1>8, <1>10, <2>2 DEF Status, IsFresh
  <2>4. Api!Finish(k, "fresh")
    BY <1>7, <2>1, <2>3, OneStatus DEF Api!Finish, statusBar
  <2>5. QED
    BY <2>4
<1>11. QED
  BY <1>9, <1>10

LEMMA FreshBefore ==
    ASSUME NEW snap \in Snapshot, IsFresh(Aged(snap))
    PROVE  IsFresh(snap)
<1>1. snap.age \in Nat
  BY TTLAssumption DEF Snapshot, Ages
<1>2. Older(snap.age) <= TTL
  BY AgedAge DEF IsFresh
<1>3. QED
  BY <1>1, <1>2, TTLAssumption DEF Older, IsFresh

LEMMA AgingStatus ==
    ASSUME NEW fresh \in BOOLEAN, NEW later \in BOOLEAN, later => fresh,
           NEW job \in {"none", "running", "fresh", "stale"}, NEW next,
           next = job \/ (job \in {"fresh", "stale"} /\ next = "stale")
    PROVE  /\ [fresh |-> later, job |-> next] \in Api!Statuses
           /\ [fresh |-> later, job |-> next] \in Api!Aging([fresh |-> fresh, job |-> job])
<1>1. later = fresh \/ later = FALSE
  OBVIOUS
<1>2. later \in {fresh, FALSE}
  BY <1>1
<1>3. next \in {job} \cup (IF job \in {"fresh", "stale"} THEN {"stale"} ELSE {})
  OBVIOUS
<1>4. QED
  BY <1>2, <1>3 DEF Api!Statuses, Api!Aging, Api!Ended

(* Time only takes freshness away.                                         *)
LEMMA TickApi ==
    ASSUME IInv, IInv', Tick
    PROVE  Api!Age
<1>1. Feed!Age
  BY TickFeed
<1>2. ASSUME NEW k \in Keys
      PROVE  statusBar'[k] \in Api!Statuses /\ statusBar'[k] \in Api!Aging(statusBar[k])
  <2>1. /\ Kept(k) \in Snapshot \cup {NoSnap} /\ OutcomeOf(k) \in Snapshot \cup {NoSnap}
    BY AgesAreNumbers DEF IInv, TypeOK, Kept
  <2>2. Kept(k)' = Aged(Kept(k))
    <3>1. cellBar' = [i \in Keys |-> Feed!Later(cellBar[i])]
      BY <1>1 DEF Feed!Age, cellBar
    <3>2. cellBar'[k] = Kept(k)' /\ cellBar[k] = Kept(k)
      BY DEF cellBar, Kept
    <3>3. QED
      BY <2>1, <3>1, <3>2, AgedLater
  <2>3. OutcomeOf(k)' = Aged(OutcomeOf(k))
    <3>1. outcomeBar' = [i \in Keys |-> Feed!Later(outcomeBar[i])]
      BY <1>1 DEF Feed!Age, outcomeBar
    <3>2. outcomeBar'[k] = OutcomeOf(k)' /\ outcomeBar[k] = OutcomeOf(k)
      BY DEF outcomeBar, OutcomeOf
    <3>3. QED
      BY <2>1, <3>1, <3>2, AgedLater
  <2>4. (Kept(k)' = NoSnap <=> Kept(k) = NoSnap) /\ (OutcomeOf(k)' = NoSnap <=> OutcomeOf(k) = NoSnap)
    BY <2>1, <2>2, <2>3, AgedType
  <2>5. Ended(k)' <=> Ended(k)
    <3>1. Unseen(k)' <=> Unseen(k)
      BY DEF Tick, Unseen, InRegion, At, Region
    <3>2. QED
      BY <2>4, <3>1, EndedIs, EndedNext DEF IInv
  <2>6. PICK fresh \in BOOLEAN, later \in BOOLEAN :
           /\ fresh <=> ~Ended(k) /\ Kept(k) # NoSnap /\ IsFresh(Kept(k))
           /\ later <=> ~Ended(k)' /\ Kept(k)' # NoSnap /\ IsFresh(Kept(k))'
    OBVIOUS
  <2>7. later => fresh
    <3>1. IsFresh(Kept(k))' => IsFresh(Aged(Kept(k)))
      BY <2>2 DEF IsFresh
    <3>2. QED
      BY <2>1, <2>4, <2>5, <2>6, <3>1, FreshBefore
  <2>8. statusBar[k] = Status(k) /\ statusBar'[k] = Status(k)'
    BY DEF statusBar
  <2>9. CASE Ended(k)
    <3>1. PICK job \in {"fresh", "stale"}, next \in {"fresh", "stale"} :
             /\ job = "fresh" <=> IsFresh(future[jobs[k]].result)
             /\ next = "fresh" <=> IsFresh(future[jobs[k]].result)'
      OBVIOUS
    <3>2. /\ statusBar[k] = [fresh |-> fresh, job |-> job]
          /\ statusBar'[k] = [fresh |-> later, job |-> next]
      BY <2>5, <2>6, <2>8, <2>9, <3>1 DEF Status
    <3>3. next = "fresh" => job = "fresh"
      <4>1. /\ OutcomeOf(k) = future[jobs[k]].result /\ OutcomeOf(k) # NoSnap
            /\ OutcomeOf(k)' = (future[jobs[k]].result)'
        BY <2>5, <2>9, EndedIs DEF Ended, OutcomeOf, IInv
      <4>2. IsFresh(future[jobs[k]].result)' => IsFresh(Aged(OutcomeOf(k)))
        BY <2>3, <4>1 DEF IsFresh
      <4>3. QED
        BY <2>1, <3>1, <4>1, <4>2, FreshBefore
    <3>4. QED
      BY <2>7, <3>2, <3>3, AgingStatus
  <2>10. CASE ~Ended(k)
    <3>1. PICK job \in {"none", "running"} : job = "none" <=> jobs[k] = NoJob
      OBVIOUS
    <3>2. /\ statusBar[k] = [fresh |-> fresh, job |-> job]
          /\ statusBar'[k] = [fresh |-> later, job |-> job]
      BY <2>5, <2>6, <2>8, <2>10, <3>1 DEF Status, Tick
    <3>3. QED
      BY <2>7, <3>2, AgingStatus
  <2>11. QED
    BY <2>9, <2>10
<1>3. statusBar' \in [Keys -> Api!Statuses]
  BY <1>2 DEF statusBar
<1>4. QED
  BY <1>2, <1>3 DEF Api!Age, statusBar

(* A restart loses collections, and the snapshot whose file was open.      *)
LEMMA CrashApi ==
    ASSUME IInv, IInv', ~DiskFaults, Crash
    PROVE  Api!Restart
<1>1. /\ memory' = [k \in Keys |-> NoSnap] /\ UNCHANGED disk
      /\ jobs' = [k \in Keys |-> NoJob] /\ handler' = [h \in Handlers |-> Idle]
      /\ TornWrites \/ \A h \in Handlers : ~At(h, "write")
  BY DEF Crash
<1> DEFINE torn == {k \in Keys : \E h \in Handlers : At(h, "write") /\ Region(h) = k}
           back == {k \in Keys : /\ Api!Ended(statusBar[k])
                                 /\ disk[k] # NoSnap /\ IsFresh(disk[k])}
<1>2. torn # {} => TornWrites /\ \A k, n \in torn : k = n
  <2>1. \A g, h \in Handlers : At(g, "write") /\ At(h, "write") => g = h
    BY DEF IInv, LockHeld, At
  <2>2. QED
    BY <1>1, <2>1
<1>3. ASSUME NEW k \in torn PROVE disk[k] = NoSnap
  BY <1>3 DEF IInv, WriteHasSnapshot
<1>4. ASSUME NEW k \in Keys \ torn PROVE Kept(k) = disk[k]
  BY <1>4 DEF IInv, DiskBacksMemory, InRegion, Kept
<1>5. ASSUME NEW k \in Keys
      PROVE  Status(k)' = [fresh |-> (statusBar[k].fresh \/ k \in back) /\ k \notin torn,
                           job |-> "none"]
  <2>1. PICK fresh \in BOOLEAN : fresh <=> disk[k] # NoSnap /\ IsFresh(disk[k])
    OBVIOUS
  <2>2. ~Ended(k)' /\ Kept(k)' = disk[k] /\ jobs'[k] = NoJob
    BY <1>1 DEF Ended, Done, Kept
  <2>3. IsFresh(Kept(k))' <=> IsFresh(disk[k])
    BY <2>2 DEF IsFresh
  <2>4. Status(k)' = [fresh |-> fresh, job |-> "none"]
    BY <2>1, <2>2, <2>3 DEF Status
  <2>5. CASE k \in torn
    BY <1>3, <2>1, <2>4, <2>5
  <2>6. CASE k \notin torn
    <3>1. Ended(k) => ~statusBar[k].fresh /\ Api!Ended(statusBar[k])
      BY DEF statusBar, Status, Api!Ended
    <3>2. ~Ended(k) => (statusBar[k].fresh <=> fresh) /\ ~Api!Ended(statusBar[k])
      <4>1. Kept(k) = disk[k]
        BY <1>4, <2>6
      <4>2. ~Ended(k) => statusBar[k] = [fresh |-> fresh, job |-> IF jobs[k] = NoJob
                                                                 THEN "none" ELSE "running"]
        BY <2>1, <4>1 DEF statusBar, Status
      <4>3. QED
        BY <4>2 DEF Api!Ended
    <3>3. fresh <=> statusBar[k].fresh \/ k \in back
      BY <2>1, <3>1, <3>2
    <3>4. QED
      BY <2>4, <2>6, <3>3
  <2>7. QED
    BY <2>5, <2>6
<1>6. statusBar' = [k \in Keys |-> [fresh |-> (statusBar[k].fresh \/ k \in back) /\ k \notin torn,
                                  job |-> "none"]]
  BY <1>5 DEF statusBar
<1>7. back \in SUBSET {k \in Keys : Api!Ended(statusBar[k])} /\ torn \in SUBSET Keys
  OBVIOUS
<1> HIDE DEF back, torn
<1>8. QED
  BY <1>2, <1>6, <1>7 DEF Api!Restart, statusBar

LEMMA InitApi == Init => Api!ApiInit
<1>1. SUFFICES ASSUME Init PROVE Api!ApiInit
  OBVIOUS
<1>2. ASSUME NEW k \in Keys PROVE Status(k) = [fresh |-> FALSE, job |-> "none"]
  <2>1. ~Ended(k) /\ Kept(k) = NoSnap /\ jobs[k] = NoJob
    BY <1>1 DEF Init, Ended, Done, Kept
  <2>2. QED
    BY <2>1 DEF Status
<1>3. QED
  BY <1>2 DEF Api!ApiInit, Api!Lost

(* A handler that the step is not about answers nothing.                   *)
LEMMA AnswersNothing ==
    ASSUME NEW g \in Handlers,
           \/ handler'[g] = handler[g]
           \/ At(g, "write") \/ At(g, "idle")
           \/ handler'[g].pc # "write" /\ handler'[g].rows \subseteq handler[g].rows
    PROVE  ~AnswersFinal(g) /\ ~AnswersCollecting(g)
<1>1. CASE At(g, "write") \/ At(g, "idle")
  BY <1>1 DEF AnswersFinal, AnswersCollecting, InRegion, At
<1>2. CASE handler'[g] = handler[g]
  BY <1>2 DEF AnswersFinal, AnswersCollecting, InRegion, At, NewRows
<1>3. CASE handler'[g].pc # "write" /\ handler'[g].rows \subseteq handler[g].rows
  BY <1>3 DEF AnswersFinal, AnswersCollecting, NewRows
<1>4. QED
  BY <1>1, <1>2, <1>3

(* While the lock holder looks at its region, a job that is done has ended.*)
LEMMA HarvestAnswers ==
    ASSUME IInv, NEW h \in Handlers, Harvest(h)
    PROVE  /\ Api!Finished(Status(Region(h)), handler[h].refresh)
           /\ ~AnswersCollecting(h)
<1>1. PICK k \in Keys : k = Region(h)
  BY RegionType DEF Harvest, InRegion, IInv
<1>2. ~Unseen(k) /\ Done(jobs[k])
  BY <1>1, UnseenNow DEF Harvest, At, InRegion
<1>3. Status(k).job \in {"fresh", "stale"}
  BY <1>2 DEF Status, Ended
<1>4. Api!Finished(Status(k), handler[h].refresh)
  BY <1>3 DEF Api!Finished, Api!Ended
<1>5. QED
  BY <1>1, <1>4 DEF Harvest, InRegion, At, AnswersCollecting

LEMMA ServeFreshAnswers ==
    ASSUME IInv, ~DiskFaults, NEW h \in Handlers, ServeFresh(h)
    PROVE  /\ Api!Finished(Status(Region(h)), handler[h].refresh)
           /\ ~AnswersCollecting(h)
<1>1. PICK k \in Keys : k = Region(h)
  BY RegionType DEF ServeFresh, InRegion, IInv
<1>2. Unseen(k) /\ ~handler[h].refresh
  BY <1>1 DEF ServeFresh, Unseen
<1>3. PICK snap \in Lookup(k) \ {NoSnap} : IsFresh(snap) /\ Emit(h, FinalRow(k, snap))
  BY <1>1 DEF ServeFresh
<1>4. snap = Kept(k) /\ snap # NoSnap
  BY <1>3, FoundKept
<1>5. Status(k).fresh = TRUE
  BY <1>2, <1>3, <1>4 DEF Status, Ended, IsFresh
<1>6. Api!Finished(Status(k), handler[h].refresh)
  BY <1>2, <1>5 DEF Api!Finished
<1>7. ASSUME NEW row \in NewRows(h) PROVE row.status # "collecting"
  <2>1. row = FinalRow(k, snap)
    BY <1>3, EmitNewRows DEF IInv
  <2>2. QED
    BY <2>1 DEF FinalRow
<1>8. QED
  BY <1>1, <1>6, <1>7 DEF AnswersCollecting

LEMMA ServeCollectingAnswers ==
    ASSUME IInv, ~DiskFaults, NEW h \in Handlers, ServeCollecting(h)
    PROVE  /\ ~Api!Finished(Status(Region(h)), handler[h].refresh)
           /\ ~AnswersFinal(h)
<1>1. PICK k \in Keys : k = Region(h)
  BY RegionType DEF ServeCollecting, InRegion, IInv
<1>2. ~Ended(k)
  BY <1>1 DEF ServeCollecting, Unseen, Ended
<1>3. PICK snap \in Lookup(k) : /\ snap # NoSnap => ~IsFresh(snap) \/ handler[h].refresh
                               /\ Emit(h, CollectingRow(k, snap))
  BY <1>1 DEF ServeCollecting
<1>4. PICK fresh \in BOOLEAN : fresh <=> Kept(k) # NoSnap /\ IsFresh(Kept(k))
  OBVIOUS
<1>5. fresh => handler[h].refresh
  BY <1>3, <1>4, FoundKept
<1>6. Status(k) = [fresh |-> fresh, job |-> IF jobs[k] = NoJob THEN "none" ELSE "running"]
  BY <1>2, <1>4 DEF Status
<1>7. ~Api!Finished(Status(k), handler[h].refresh)
  BY <1>5, <1>6 DEF Api!Finished, Api!Ended
<1>8. ASSUME NEW row \in NewRows(h) PROVE row.status = "collecting"
  <2>1. row = CollectingRow(k, snap)
    BY <1>3, EmitNewRows DEF IInv
  <2>2. QED
    BY <2>1 DEF CollectingRow
<1>9. QED
  BY <1>1, <1>7, <1>8 DEF AnswersFinal, ServeCollecting, InRegion, At

(* A step of a handler leaves the others as they are.                      *)
LEMMA OtherHandlers ==
    ASSUME IInv, NEW h \in Handlers, HandlerStep(h) \/ Arrive(h)
    PROVE  \A g \in Handlers \ {h} : handler'[g] = handler[g]
<1> USE DEF IInv, TypeOK
<1>1. CASE Harvest(h)
  BY <1>1 DEF Harvest, Emit
<1>2. CASE WriteFile(h) \/ ServeFresh(h) \/ ServeCollecting(h)
  <2>1. PICK row : Emit(h, row)
    BY <1>2 DEF WriteFile, ServeFresh, ServeCollecting
  <2>2. QED
    BY <2>1 DEF Emit
<1>3. CASE Clear(h) \/ NotDone(h)
  <2>1. PICK job : handler' = [handler EXCEPT ![h] = [handler[h] EXCEPT !.pc = "decide",
                                                                        !.job = job]]
    BY <1>3 DEF Clear, NotDone
  <2>2. QED
    BY <2>1
<1>4. CASE Respond(h) \/ Arrive(h)
  <2>1. PICK next : handler' = [handler EXCEPT ![h] = next]
    BY <1>4 DEF Respond, Arrive, Enter
  <2>2. QED
    BY <2>1
<1>5. QED
  BY <1>1, <1>2, <1>3, <1>4 DEF HandlerStep

(* Whatever a handler answers is what the status says.                     *)
LEMMA AnswersStep ==
    ASSUME IInv, ~DiskFaults, [Next]_vars
    PROVE  AnswersTrue
<1>1. SUFFICES ASSUME NEW g \in Handlers
               PROVE  /\ AnswersFinal(g) => Api!Finished(Status(Region(g)), handler[g].refresh)
                      /\ AnswersCollecting(g) => ~Api!Finished(Status(Region(g)), handler[g].refresh)
  BY DEF AnswersTrue
<1>2. CASE Harvest(g) \/ ServeFresh(g) \/ ServeCollecting(g)
  BY <1>2, HarvestAnswers, ServeFreshAnswers, ServeCollectingAnswers
<1>3. CASE WriteFile(g) \/ Arrive(g)
  BY <1>3, AnswersNothing DEF WriteFile, InRegion, Arrive, Enter
<1>4. CASE Clear(g) \/ NotDone(g)
  <2>1. PICK job : handler' = [handler EXCEPT ![g] = [handler[g] EXCEPT !.pc = "decide",
                                                                        !.job = job]]
    BY <1>4 DEF Clear, NotDone
  <2>2. handler'[g].pc # "write" /\ handler'[g].rows \subseteq handler[g].rows
    BY <2>1 DEF IInv, TypeOK, Handler
  <2>3. QED
    BY <2>2, AnswersNothing
<1>5. CASE Respond(g)
  <2>1. handler'[g].pc # "write" /\ handler'[g].rows \subseteq handler[g].rows
    BY <1>5 DEF Respond, Idle, IInv, TypeOK
  <2>2. QED
    BY <2>1, AnswersNothing
<1>6. CASE Crash
  <2>1. handler'[g].pc # "write" /\ handler'[g].rows \subseteq handler[g].rows
    BY <1>6 DEF Crash, Idle
  <2>2. QED
    BY <2>1, AnswersNothing
<1>7. CASE \E h \in Handlers \ {g} : HandlerStep(h) \/ Arrive(h)
  BY <1>7, OtherHandlers, AnswersNothing
<1>8. CASE UNCHANGED handler
  BY <1>8, AnswersNothing
<1>9. QED
  BY <1>2, <1>3, <1>4, <1>5, <1>6, <1>7, <1>8
     DEF Next, HandlerStep, Finish, WorkerTake, WorkerFinish, Tick, vars

(* Every behaviour of the cache is one of the API that the page rests on,  *)
(* provided file operations do not fail, and each region is answered with  *)
(* a finished snapshot exactly if the API has one, for any number of       *)
(* handlers and workers, whatever ends between the two calls of done().    *)
THEOREM ApiRefinement ==
    ASSUME ~DiskFaults
    PROVE  Spec => ImplementsApi
<1>1. IInv /\ IInv' /\ [Next]_vars => [Api!ApiNext]_statusBar
  <2>1. SUFFICES ASSUME IInv, IInv', [Next]_vars PROVE Api!ApiNext \/ statusBar' = statusBar
    OBVIOUS
  <2>2. ASSUME NEW h \in Handlers, HandlerStep(h)
        PROVE  Api!ApiNext \/ statusBar' = statusBar
    <3>1. CASE Harvest(h)
      <4>1. PICK k \in Keys : Api!Ask(k, TRUE)
        BY <2>1, <3>1, HarvestApi
      <4>2. QED
        BY <4>1 DEF Api!ApiNext
    <3>2. CASE Clear(h)
      BY <2>1, <3>2, ClearApi DEF Api!ApiNext
    <3>3. CASE ServeFresh(h)
      BY <2>1, <3>3, ServeFreshApi DEF Api!ApiNext
    <3>4. CASE ServeCollecting(h)
      <4>1. PICK refresh \in BOOLEAN : refresh = handler[h].refresh
        BY <2>1 DEF IInv, TypeOK, Handler
      <4>2. statusBar' = statusBar \/ \E k \in Keys : Api!Ask(k, refresh)
        BY <2>1, <3>4, <4>1, ServeCollectingApi DEF Api!Ask
      <4>3. QED
        BY <4>2 DEF Api!ApiNext
    <3>5. QED
      BY <2>1, <2>2, <3>1, <3>2, <3>3, <3>4, WriteFileApi, NotDoneApi, RespondApi DEF HandlerStep
  <2>3. CASE Finish
    BY <2>1, <2>3, WorkerFinishApi DEF Finish, Api!ApiNext
  <2>4. CASE Tick
    BY <2>1, <2>4, TickApi DEF Api!ApiNext
  <2>5. CASE Crash
    BY <2>1, <2>5, CrashApi DEF Api!ApiNext
  <2>6. CASE UNCHANGED vars
    <3>1. \A k \in Keys : Unseen(k)' <=> Unseen(k)
      BY <2>6 DEF vars, Unseen, InRegion, At, Region
    <3>2. UNCHANGED <<cellBar, outcomeBar, jobs>>
      BY <2>6, SameBars DEF vars
    <3>3. QED
      BY <2>1, <3>1, <3>2, SameStatuses DEF IInv
  <2>7. QED
    BY <2>1, <2>2, <2>3, <2>4, <2>5, <2>6, EnterApi, WorkerTakeApi DEF Next
<1>2. IInv /\ [Next]_vars => [AnswersTrue]_vars
  BY AnswersStep
<1>3. Spec => Api!ApiSpec
  BY InitApi, <1>1, Invariance, PTL DEF Spec, Api!ApiSpec, statusBar
<1>4. Spec => [][AnswersTrue]_vars
  BY <1>2, Invariance, PTL DEF Spec
<1>5. QED
  BY <1>3, <1>4 DEF ImplementsApi
=============================================================================

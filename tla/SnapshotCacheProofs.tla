------------------------ MODULE SnapshotCacheProofs ------------------------
(***************************************************************************)
(* Proofs about SnapshotCache, for every set of keys, requests, handlers   *)
(* and futures, every number of workers and every TTL.                     *)
(***************************************************************************)
EXTENDS SnapshotCache, FiniteSetTheorems, TLAPS

-----------------------------------------------------------------------------
(* The inductive invariant.                                                *)

(* Only the holder of _dashboard_lock is inside the walk over the regions. *)
LockHeld == \A h \in Handlers : ~At(h, "idle") => lock = h

(* _dashboard_jobs names futures that are in use, each for its own key.    *)
JobsNameFutures ==
    \A k \in Keys : jobs[k] # NoJob =>
        future[jobs[k]].stage # "unused" /\ future[jobs[k]].key = k

(* The work queue holds queued futures, each once.                         *)
QueueHoldsQueued ==
    /\ \A i \in 1 .. Len(queue) : future[queue[i]].stage = "queued"
    /\ \A i, n \in 1 .. Len(queue) : queue[i] = queue[n] => i = n

(* Between the two calls of done() nobody else touches the entry of the    *)
(* region in _dashboard_jobs.                                              *)
JobStillNamed ==
    \A h \in Handlers : At(h, "decide") =>
        handler[h].todo # <<>> /\ handler[h].job = jobs[Region(h)]

(* While the file is being filled it is torn, and the snapshot to fill it  *)
(* with is in memory.                                                      *)
WriteHasSnapshot ==
    \A h \in Handlers : At(h, "write") =>
        handler[h].todo # <<>> /\ memory[Region(h)] # NoSnap /\ disk[Region(h)] = NoSnap

IInv ==
    /\ TypeOK
    /\ LockHeld
    /\ NoOrphanJob
    /\ JobsNameFutures
    /\ QueueHoldsQueued
    /\ JobStillNamed
    /\ WriteHasSnapshot
    /\ ~DiskFaults => DiskBacksMemory

-----------------------------------------------------------------------------
LEMMA InitIInv == Init => IInv
<1> SUFFICES ASSUME Init PROVE IInv
  OBVIOUS
<1> USE DEF Init
<1>1. TypeOK
  <2>1. Idle \in Handler
    BY DEF Idle, Handler
  <2>2. Unused \in Future
    BY DEF Unused, Future
  <2>3. TTL + 1 \in Ages
    BY TTLAssumption DEF Ages
  <2>4. queue \in Seq(JobIds) /\ crashes \in 0 .. MaxCrashes
    BY BoundsAssumption
  <2>5. QED
    BY <2>1, <2>2, <2>3, <2>4 DEF TypeOK
<1>2. LockHeld /\ JobStillNamed /\ WriteHasSnapshot
  BY DEF LockHeld, JobStillNamed, WriteHasSnapshot, At, Idle
<1>3. NoOrphanJob /\ JobsNameFutures
  BY DEF NoOrphanJob, JobsNameFutures, InFlight, Unused
<1>4. QueueHoldsQueued
  BY DEF QueueHoldsQueued
<1>5. DiskBacksMemory
  BY DEF DiskBacksMemory
<1>6. QED
  BY <1>1, <1>2, <1>3, <1>4, <1>5 DEF IInv

-----------------------------------------------------------------------------
(* What the handlers' bookkeeping preserves.                               *)

LEMMA RegionType ==
    ASSUME TypeOK, NEW h \in Handlers, handler[h].todo # <<>>
    PROVE  Region(h) \in Keys /\ Tail(handler[h].todo) \in Seq(Keys)
<1>1. handler[h].todo \in Seq(Keys)
  BY DEF TypeOK, Handler
<1>2. QED
  BY <1>1 DEF Region

LEMMA FinalRowType ==
    ASSUME NEW k \in Keys, NEW snap \in Snapshot
    PROVE  FinalRow(k, snap) \in Rows /\ FinalRow(k, snap).snap = snap
                                     /\ FinalRow(k, snap).key = k
BY DEF FinalRow, Rows, Snapshot

LEMMA CollectingRowType ==
    ASSUME NEW k \in Keys, NEW snap \in Snapshot \cup {NoSnap}
    PROVE  CollectingRow(k, snap) \in Rows /\ CollectingRow(k, snap).snap = snap
                                          /\ CollectingRow(k, snap).key = k
BY DEF CollectingRow, Rows

LEMMA EmitType ==
    ASSUME TypeOK, NEW h \in Handlers, handler[h].todo # <<>>,
           NEW row \in Rows, Emit(h, row)
    PROVE  /\ handler' \in [Handlers -> Handler]
           /\ horizon' \in [Keys -> Ages]
           /\ handler'[h].pc = "look"
           /\ \A g \in Handlers \ {h} : handler'[g] = handler[g]
<1>1. handler[h] \in Handler /\ handler \in [Handlers -> Handler]
  BY DEF TypeOK
<1>2. Tail(handler[h].todo) \in Seq(Keys)
  BY RegionType
<1> DEFINE next == [handler[h] EXCEPT !.pc = "look", !.todo = Tail(@),
                                      !.job = NoJob, !.rows = @ \cup {row}]
<1>3. next \in Handler /\ next.pc = "look"
  BY <1>1, <1>2 DEF Handler
<1>4. handler' = [handler EXCEPT ![h] = next]
  BY <1>1 DEF Emit, Handler
<1>5. horizon' \in [Keys -> Ages]
  BY DEF TypeOK, Emit, Rows, Snapshot
<1>6. QED
  BY <1>1, <1>3, <1>4, <1>5

-----------------------------------------------------------------------------
(* Each action preserves the invariant.                                    *)

LEMMA EnterIInv ==
    ASSUME IInv, NEW h \in Handlers, NEW rs \in Requests,
           NEW refresh \in BOOLEAN, NEW clear \in BOOLEAN,
           Enter(h, rs, refresh, clear)
    PROVE  IInv'
<1> USE DEF IInv, Enter
<1> DEFINE fresh == [Idle EXCEPT !.pc = "look", !.todo = rs,
                                 !.refresh = refresh, !.clear = clear]
<1>1. fresh \in Handler /\ fresh.pc = "look"
  BY RequestsAssumption DEF Idle, Handler
<1>2. /\ handler' = [handler EXCEPT ![h] = fresh]
      /\ handler \in [Handlers -> Handler]
  BY DEF TypeOK
<1>3. TypeOK'
  BY <1>1, <1>2 DEF TypeOK
<1>4. LockHeld'
  BY <1>2, NoHandlerAssumption DEF LockHeld, At
<1>5. JobStillNamed' /\ WriteHasSnapshot'
  BY <1>1, <1>2 DEF JobStillNamed, WriteHasSnapshot, At, Region
<1>6. NoOrphanJob' /\ JobsNameFutures' /\ QueueHoldsQueued'
  BY DEF NoOrphanJob, JobsNameFutures, QueueHoldsQueued, InFlight
<1>7. (~DiskFaults => DiskBacksMemory)'
  BY <1>1, <1>2 DEF DiskBacksMemory, InRegion, At, Region
<1>8. QED
  BY <1>3, <1>4, <1>5, <1>6, <1>7

LEMMA NotDoneIInv ==
    ASSUME IInv, NEW h \in Handlers, NotDone(h)
    PROVE  IInv'
<1> USE DEF IInv, NotDone
<1>1. handler \in [Handlers -> Handler] /\ Region(h) \in Keys
  BY RegionType DEF TypeOK, InRegion
<1> DEFINE next == [handler[h] EXCEPT !.pc = "decide", !.job = jobs[Region(h)]]
<1>2. next \in Handler /\ next.pc = "decide" /\ next.job = jobs[Region(h)]
      /\ next.todo = handler[h].todo
  BY <1>1 DEF Handler, TypeOK
<1>3. handler' = [handler EXCEPT ![h] = next]
  BY <1>1
<1>4. TypeOK'
  BY <1>1, <1>2, <1>3 DEF TypeOK
<1>5. LockHeld'
  BY <1>1, <1>3 DEF LockHeld, At, InRegion
<1>6. JobStillNamed' /\ WriteHasSnapshot'
  BY <1>1, <1>2, <1>3 DEF JobStillNamed, WriteHasSnapshot, At, Region, InRegion
<1>7. NoOrphanJob' /\ JobsNameFutures' /\ QueueHoldsQueued'
  BY DEF NoOrphanJob, JobsNameFutures, QueueHoldsQueued, InFlight
<1>8. (~DiskFaults => DiskBacksMemory)'
  BY <1>1, <1>2, <1>3 DEF DiskBacksMemory, InRegion, At, Region
<1>9. QED
  BY <1>4, <1>5, <1>6, <1>7, <1>8

LEMMA RespondIInv ==
    ASSUME IInv, NEW h \in Handlers, Respond(h)
    PROVE  IInv'
<1> USE DEF IInv, Respond
<1>1. handler \in [Handlers -> Handler] /\ handler' = [handler EXCEPT ![h] = Idle]
  BY DEF TypeOK
<1>2. Idle \in Handler /\ Idle.pc = "idle"
  BY DEF Idle, Handler
<1>3. TypeOK'
  BY <1>1, <1>2 DEF TypeOK
<1>4. LockHeld'
  BY <1>1, <1>2, NoHandlerAssumption DEF LockHeld, At
<1>5. JobStillNamed' /\ WriteHasSnapshot'
  BY <1>1, <1>2 DEF JobStillNamed, WriteHasSnapshot, At, Region
<1>6. NoOrphanJob' /\ JobsNameFutures' /\ QueueHoldsQueued'
  BY DEF NoOrphanJob, JobsNameFutures, QueueHoldsQueued, InFlight
<1>7. (~DiskFaults => DiskBacksMemory)'
  BY <1>1, <1>2 DEF DiskBacksMemory, InRegion, At, Region
<1>8. QED
  BY <1>3, <1>4, <1>5, <1>6, <1>7

LEMMA WorkerTakeIInv ==
    ASSUME IInv, WorkerTake
    PROVE  IInv'
<1> USE DEF IInv, WorkerTake
<1> DEFINE j == Head(queue)
<1>1. queue \in Seq(JobIds) /\ queue # <<>> /\ j = queue[1] /\ j \in JobIds
      /\ 1 \in 1 .. Len(queue)
  BY DEF TypeOK
<1>2. future \in [JobIds -> Future] /\ future[j].stage = "queued"
  BY <1>1 DEF TypeOK, QueueHoldsQueued
<1>3. future[j] \in [stage : {"queued", "running"}, key : Keys]
  BY <1>1, <1>2 DEF Future
<1> DEFINE next == [future[j] EXCEPT !.stage = "running"]
<1>4. /\ next \in Future /\ next.stage = "running" /\ next.key = future[j].key
      /\ future' = [future EXCEPT ![j] = next]
  BY <1>2, <1>3 DEF Future
<1>5. TypeOK'
  BY <1>1, <1>2, <1>4 DEF TypeOK
<1>6. NoOrphanJob' /\ JobsNameFutures'
  BY <1>1, <1>2, <1>4 DEF NoOrphanJob, JobsNameFutures, InFlight, TypeOK
<1>7. QueueHoldsQueued'
  <2>1. queue' = Tail(queue) /\ Len(queue') = Len(queue) - 1
    BY <1>1
  <2>2. \A i \in 1 .. Len(queue') : i + 1 \in 1 .. Len(queue) /\ queue'[i] = queue[i + 1]
    BY <1>1, <2>1
  <2>3. \A i \in 1 .. Len(queue') : queue'[i] \in JobIds /\ queue'[i] # j
    BY <1>1, <2>2 DEF QueueHoldsQueued
  <2>4. QED
    BY <1>2, <1>4, <2>2, <2>3 DEF QueueHoldsQueued
<1>8. LockHeld' /\ JobStillNamed' /\ WriteHasSnapshot'
  BY DEF LockHeld, JobStillNamed, WriteHasSnapshot, At, Region
<1>9. (~DiskFaults => DiskBacksMemory)'
  BY DEF DiskBacksMemory, InRegion, At, Region
<1>10. QED
  BY <1>5, <1>6, <1>7, <1>8, <1>9

LEMMA WorkerFinishIInv ==
    ASSUME IInv, NEW j \in JobIds, NEW ok \in BOOLEAN, WorkerFinish(j, ok)
    PROVE  IInv'
<1> USE DEF IInv, WorkerFinish
<1> DEFINE next == [stage |-> "done", key |-> future[j].key,
                    result |-> [age |-> 0, ok |-> ok]]
<1>1. future \in [JobIds -> Future] /\ future[j].stage = "running"
  BY DEF TypeOK
<1>2. future[j].key \in Keys
  BY <1>1 DEF Future
<1>3. next \in Future /\ next.stage = "done" /\ next.key = future[j].key
  BY <1>2, TTLAssumption DEF Future, Snapshot, Ages
<1>4. future' = [future EXCEPT ![j] = next]
  OBVIOUS
<1>5. TypeOK'
  BY <1>1, <1>3, <1>4 DEF TypeOK
<1>6. NoOrphanJob' /\ JobsNameFutures'
  BY <1>1, <1>3, <1>4 DEF NoOrphanJob, JobsNameFutures, InFlight, TypeOK
<1>7. QueueHoldsQueued'
  <2>1. \A i \in 1 .. Len(queue) : queue[i] \in JobIds /\ queue[i] # j
    BY <1>1 DEF QueueHoldsQueued, TypeOK
  <2>2. QED
    BY <1>1, <1>4, <2>1 DEF QueueHoldsQueued
<1>8. LockHeld' /\ JobStillNamed' /\ WriteHasSnapshot'
  BY DEF LockHeld, JobStillNamed, WriteHasSnapshot, At, Region
<1>9. (~DiskFaults => DiskBacksMemory)'
  BY DEF DiskBacksMemory, InRegion, At, Region
<1>10. QED
  BY <1>5, <1>6, <1>7, <1>8, <1>9

(* Releasing a future that is done takes it out of no queue.               *)
LEMMA ReleaseDone ==
    ASSUME IInv, NEW j \in JobIds, future[j].stage = "done", UNCHANGED queue,
           future' = [future EXCEPT ![j] = Unused]
    PROVE  QueueHoldsQueued' /\ future' \in [JobIds -> Future] /\ InFlight' = InFlight
<1> USE DEF IInv
<1>1. future \in [JobIds -> Future] /\ queue \in Seq(JobIds)
  BY DEF TypeOK
<1>2. \A i \in 1 .. Len(queue) : queue[i] \in JobIds /\ queue[i] # j
  BY <1>1 DEF QueueHoldsQueued
<1>3. QueueHoldsQueued'
  BY <1>1, <1>2 DEF QueueHoldsQueued
<1>4. Unused \in Future /\ Unused.stage = "unused"
  BY DEF Unused, Future
<1>5. QED
  BY <1>1, <1>3, <1>4 DEF InFlight

LEMMA DoneFuture ==
    ASSUME TypeOK, NEW j \in JobIds \cup {NoJob}, Done(j)
    PROVE  j \in JobIds /\ future[j].stage = "done" /\ future[j].result \in Snapshot
BY DEF Done, TypeOK, Future

LEMMA HarvestIInv ==
    ASSUME IInv, NEW h \in Handlers, Harvest(h)
    PROVE  IInv'
<1> USE DEF IInv
<1> DEFINE k == Region(h)
           j == jobs[k]
<1>1. /\ k \in Keys /\ At(h, "look") /\ handler[h].todo # <<>>
      /\ Done(j) /\ j \in JobIds \cup {NoJob}
      /\ memory' = [memory EXCEPT ![k] = future[j].result]
      /\ jobs' = [jobs EXCEPT ![k] = NoJob]
      /\ future' = [future EXCEPT ![j] = Unused]
      /\ UNCHANGED <<queue, lock, crashes>>
  BY RegionType DEF Harvest, InRegion, TypeOK
<1>2. j \in JobIds /\ future[j].stage = "done" /\ future[j].result \in Snapshot
  BY <1>1, DoneFuture
<1>3. future' \in [JobIds -> Future] /\ QueueHoldsQueued' /\ InFlight' = InFlight
  BY <1>1, <1>2, ReleaseDone
<1>4. memory' \in [Keys -> Snapshot \cup {NoSnap}] /\ jobs' \in [Keys -> JobIds \cup {NoJob}]
  BY <1>1, <1>2 DEF TypeOK
<1>5. NoOrphanJob'
  BY <1>1, <1>2, <1>3 DEF NoOrphanJob, InFlight, TypeOK
<1>6. JobsNameFutures'
  BY <1>1, <1>2, NoJobAssumption DEF JobsNameFutures, TypeOK
<1>7. \A g \in Handlers \ {h} : At(g, "idle")
  BY <1>1 DEF LockHeld, At
<1>8. CASE handler' = [handler EXCEPT ![h].pc = "write"] /\ UNCHANGED horizon
           /\ disk' = [disk EXCEPT ![k] = NoSnap]
  <2> DEFINE next == [handler[h] EXCEPT !.pc = "write"]
  <2>1. /\ handler' = [handler EXCEPT ![h] = next] /\ handler \in [Handlers -> Handler]
        /\ next \in Handler /\ next.pc = "write" /\ next.todo = handler[h].todo
    BY <1>8 DEF TypeOK, Handler
  <2>2. TypeOK'
    BY <1>1, <1>3, <1>4, <1>8, <2>1 DEF TypeOK
  <2>3. LockHeld' /\ JobStillNamed' /\ WriteHasSnapshot'
    BY <1>1, <1>2, <1>7, <1>8, <2>1, NoSnapAssumption
       DEF LockHeld, JobStillNamed, WriteHasSnapshot, At, Region, TypeOK
  <2>4. ASSUME ~DiskFaults PROVE DiskBacksMemory'
    <3>1. InRegion(h, "write")' /\ Region(h)' = k
      BY <1>1, <2>1 DEF InRegion, At, Region
    <3>2. \A g \in Keys \ {k} : memory[g] # NoSnap => disk[g] = memory[g]
      BY <1>1, <1>7, <2>4 DEF DiskBacksMemory, InRegion, At
    <3>3. QED
      BY <1>1, <1>8, <3>1, <3>2 DEF DiskBacksMemory, TypeOK
  <2>5. QED
    BY <1>3, <1>5, <1>6, <2>2, <2>3, <2>4
<1>9. CASE DiskFaults /\ Emit(h, FinalRow(k, future[j].result)) /\ UNCHANGED disk
  <2>1. /\ handler' \in [Handlers -> Handler] /\ horizon' \in [Keys -> Ages]
        /\ handler'[h].pc = "look"
        /\ \A g \in Handlers \ {h} : handler'[g] = handler[g]
    BY <1>1, <1>2, <1>9, EmitType, FinalRowType
  <2>2. TypeOK'
    BY <1>1, <1>3, <1>4, <1>9, <2>1 DEF TypeOK
  <2>3. LockHeld' /\ JobStillNamed' /\ WriteHasSnapshot'
    BY <1>1, <1>7, <2>1 DEF LockHeld, JobStillNamed, WriteHasSnapshot, At, Region
  <2>4. QED
    BY <1>3, <1>5, <1>6, <1>9, <2>2, <2>3
<1>10. QED
  BY <1>8, <1>9 DEF Harvest

LEMMA WriteFileIInv ==
    ASSUME IInv, NEW h \in Handlers, WriteFile(h)
    PROVE  IInv'
<1> USE DEF IInv
<1> DEFINE k == Region(h)
<1>0. /\ At(h, "write") /\ handler[h].todo # <<>>
      /\ disk' = [disk EXCEPT ![k] = memory[k]] \/ (DiskFaults /\ UNCHANGED disk)
      /\ Emit(h, FinalRow(k, memory[k]))
      /\ UNCHANGED <<memory, jobs, future, queue, lock, crashes>>
  BY DEF WriteFile, InRegion
<1>1. k \in Keys
  BY <1>0, RegionType
<1>2. memory[k] \in Snapshot
  BY <1>0, <1>1 DEF WriteHasSnapshot, TypeOK
<1>3. /\ handler' \in [Handlers -> Handler] /\ horizon' \in [Keys -> Ages]
      /\ handler'[h].pc = "look"
      /\ \A g \in Handlers \ {h} : handler'[g] = handler[g]
  BY <1>0, <1>1, <1>2, EmitType, FinalRowType
<1>4. TypeOK'
  BY <1>0, <1>1, <1>2, <1>3 DEF TypeOK
<1>5. \A g \in Handlers \ {h} : At(g, "idle")
  BY <1>0, <1>1 DEF LockHeld, At
<1>6. LockHeld' /\ JobStillNamed' /\ WriteHasSnapshot'
  BY <1>0, <1>1, <1>3, <1>5 DEF LockHeld, JobStillNamed, WriteHasSnapshot, At, Region
<1>7. NoOrphanJob' /\ JobsNameFutures' /\ QueueHoldsQueued'
  BY <1>0, <1>1 DEF NoOrphanJob, JobsNameFutures, QueueHoldsQueued, InFlight
<1>8. ASSUME ~DiskFaults PROVE DiskBacksMemory'
  <2>1. \A g \in Keys \ {k} : memory[g] # NoSnap => disk[g] = memory[g]
    BY <1>0, <1>1, <1>5, <1>8 DEF DiskBacksMemory, InRegion, At
  <2>2. QED
    BY <1>0, <1>1, <1>8, <2>1 DEF DiskBacksMemory, TypeOK
<1>9. QED
  BY <1>4, <1>6, <1>7, <1>8

LEMMA ClearIInv ==
    ASSUME IInv, NEW h \in Handlers, Clear(h)
    PROVE  IInv'
<1> USE DEF IInv
<1> DEFINE k == Region(h)
           j == jobs[k]
           job == IF Done(j) THEN NoJob ELSE j
           next == [handler[h] EXCEPT !.pc = "decide", !.job = job]
<1>1. /\ At(h, "look") /\ handler[h].todo # <<>>
      /\ memory' = [memory EXCEPT ![k] = NoSnap]
      /\ disk' = [disk EXCEPT ![k] = NoSnap] \/ disk' = disk
      /\ ~DiskFaults => disk' = [disk EXCEPT ![k] = NoSnap]
      /\ horizon' = [horizon EXCEPT ![k] = 0]
      /\ jobs' = [jobs EXCEPT ![k] = job]
      /\ handler' = [handler EXCEPT ![h].pc = "decide", ![h].job = job]
      /\ future' = IF Done(j) THEN [future EXCEPT ![j] = Unused] ELSE future
      /\ UNCHANGED <<queue, lock, crashes>>
  BY DEF Clear, InRegion
<1>2. k \in Keys /\ j \in JobIds \cup {NoJob} /\ job \in JobIds \cup {NoJob}
  BY <1>1, RegionType DEF TypeOK
<1>3. memory' \in [Keys -> Snapshot \cup {NoSnap}] /\ jobs' \in [Keys -> JobIds \cup {NoJob}]
  BY <1>1, <1>2 DEF TypeOK
<1>4. disk' \in [Keys -> Snapshot \cup {NoSnap}]
  BY <1>1, <1>2 DEF TypeOK
<1>5. horizon' \in [Keys -> Ages]
  <2>1. 0 \in Ages
    BY TTLAssumption DEF Ages
  <2>2. QED
    BY <1>1, <2>1 DEF TypeOK
<1>6. /\ next \in Handler /\ next.pc = "decide" /\ next.job = job
      /\ next.todo = handler[h].todo
  BY <1>2 DEF Handler, TypeOK
<1>7. /\ handler' \in [Handlers -> Handler] /\ handler'[h] = next
      /\ \A g \in Handlers \ {h} : handler'[g] = handler[g] /\ At(g, "idle")
  <2>1. handler \in [Handlers -> Handler] /\ handler' = [handler EXCEPT ![h] = next]
    BY <1>1 DEF TypeOK
  <2>2. \A g \in Handlers \ {h} : At(g, "idle")
    BY <1>1 DEF LockHeld, At
  <2>3. QED
    BY <1>6, <2>1, <2>2
<1>8. /\ future' \in [JobIds -> Future] /\ QueueHoldsQueued' /\ InFlight' = InFlight
      /\ NoOrphanJob' /\ JobsNameFutures'
  <2>1. CASE Done(j)
    <3>1. j \in JobIds /\ future[j].stage = "done"
      BY <1>2, <2>1, DoneFuture
    <3>2. future' \in [JobIds -> Future] /\ QueueHoldsQueued' /\ InFlight' = InFlight
      BY <1>1, <2>1, <3>1, ReleaseDone
    <3>3. NoOrphanJob'
      BY <1>1, <1>2, <2>1, <3>1, <3>2 DEF NoOrphanJob, InFlight, TypeOK
    <3>4. JobsNameFutures'
      BY <1>1, <1>2, <2>1, <3>1, NoJobAssumption DEF JobsNameFutures, TypeOK
    <3>5. QED
      BY <3>2, <3>3, <3>4
  <2>2. CASE ~Done(j)
    <3>1. UNCHANGED <<jobs, future, queue>>
      BY <1>1, <1>2, <2>2 DEF TypeOK
    <3>2. QED
      BY <3>1 DEF NoOrphanJob, JobsNameFutures, QueueHoldsQueued, InFlight, TypeOK
  <2>3. QED
    BY <2>1, <2>2
<1>9. LockHeld' /\ JobStillNamed' /\ WriteHasSnapshot'
  <2>1. LockHeld'
    BY <1>1, <1>7 DEF LockHeld, At
  <2>2. WriteHasSnapshot'
    BY <1>6, <1>7 DEF WriteHasSnapshot, At
  <2>3. jobs'[k] = job /\ Region(h)' = k
    BY <1>1, <1>2, <1>6, <1>7 DEF Region, TypeOK
  <2>4. JobStillNamed'
    BY <1>1, <1>6, <1>7, <2>3 DEF JobStillNamed, At
  <2>5. QED
    BY <2>1, <2>2, <2>4
<1>10. (~DiskFaults => DiskBacksMemory)'
  BY <1>1, <1>2, <1>7 DEF DiskBacksMemory, InRegion, At, TypeOK
<1>11. TypeOK'
  BY <1>1, <1>3, <1>4, <1>5, <1>7, <1>8 DEF TypeOK
<1>12. QED
  BY <1>8, <1>9, <1>10, <1>11

(* What ServeFresh and ServeCollecting have in common: memory takes the    *)
(* snapshot found and the handler emits a row for it.                      *)
LEMMA ServeKeeps ==
    ASSUME IInv, NEW h \in Handlers, InRegion(h, "decide"),
           NEW snap \in Lookup(Region(h)), NEW row \in Rows,
           memory' = [memory EXCEPT ![Region(h)] = snap],
           Emit(h, row), UNCHANGED <<disk, lock, crashes>>
    PROVE  /\ memory' \in [Keys -> Snapshot \cup {NoSnap}]
           /\ handler' \in [Handlers -> Handler] /\ horizon' \in [Keys -> Ages]
           /\ LockHeld' /\ JobStillNamed' /\ WriteHasSnapshot'
           /\ (~DiskFaults => DiskBacksMemory)'
<1> USE DEF IInv
<1> DEFINE k == Region(h)
<1>1. k \in Keys /\ At(h, "decide") /\ handler[h].todo # <<>>
  BY RegionType DEF InRegion
<1>2. snap \in Snapshot \cup {NoSnap} /\ (memory[k] # NoSnap => snap = memory[k])
      /\ (memory[k] = NoSnap => snap = disk[k] \/ snap = NoSnap)
  BY <1>1 DEF Lookup, TypeOK
<1>3. memory' \in [Keys -> Snapshot \cup {NoSnap}]
  BY <1>1, <1>2 DEF TypeOK
<1>4. /\ handler' \in [Handlers -> Handler] /\ horizon' \in [Keys -> Ages]
      /\ handler'[h].pc = "look"
      /\ \A g \in Handlers \ {h} : handler'[g] = handler[g]
  BY <1>1, EmitType
<1>5. \A g \in Handlers \ {h} : At(g, "idle")
  BY <1>1 DEF LockHeld, At
<1>6. LockHeld' /\ JobStillNamed' /\ WriteHasSnapshot'
  BY <1>1, <1>4, <1>5 DEF LockHeld, JobStillNamed, WriteHasSnapshot, At, Region
<1>7. ASSUME ~DiskFaults PROVE DiskBacksMemory'
  <2>1. \A g \in Keys : memory[g] # NoSnap => disk[g] = memory[g]
    BY <1>1, <1>5, <1>7 DEF DiskBacksMemory, InRegion, At
  <2>2. QED
    BY <1>1, <1>2, <2>1 DEF DiskBacksMemory, TypeOK
<1>8. QED
  BY <1>3, <1>4, <1>6, <1>7

LEMMA ServeFreshIInv ==
    ASSUME IInv, NEW h \in Handlers, ServeFresh(h)
    PROVE  IInv'
<1> USE DEF IInv
<1>1. PICK snap \in Lookup(Region(h)) \ {NoSnap} :
         /\ memory' = [memory EXCEPT ![Region(h)] = snap]
         /\ Emit(h, FinalRow(Region(h), snap))
  BY DEF ServeFresh
<1>2. InRegion(h, "decide") /\ UNCHANGED <<disk, jobs, future, queue, lock, crashes>>
  BY DEF ServeFresh
<1>3. Region(h) \in Keys /\ snap \in Snapshot
  BY <1>1, <1>2, RegionType DEF InRegion, Lookup, TypeOK
<1>4. /\ memory' \in [Keys -> Snapshot \cup {NoSnap}]
      /\ handler' \in [Handlers -> Handler] /\ horizon' \in [Keys -> Ages]
      /\ LockHeld' /\ JobStillNamed' /\ WriteHasSnapshot'
      /\ (~DiskFaults => DiskBacksMemory)'
  BY <1>1, <1>2, <1>3, FinalRowType, ServeKeeps
<1>5. NoOrphanJob' /\ JobsNameFutures' /\ QueueHoldsQueued'
  BY <1>2 DEF NoOrphanJob, JobsNameFutures, QueueHoldsQueued, InFlight
<1>6. TypeOK'
  BY <1>2, <1>4 DEF TypeOK
<1>7. QED
  BY <1>4, <1>5, <1>6

(* A collection is started only for a key without a live one.              *)
LEMMA StartJobKeeps ==
    ASSUME IInv, NEW h \in Handlers, InRegion(h, "decide"),
           ~StillCollecting(h), StartJob(Region(h))
    PROVE  /\ future' \in [JobIds -> Future] /\ queue' \in Seq(JobIds)
           /\ jobs' \in [Keys -> JobIds \cup {NoJob}]
           /\ NoOrphanJob' /\ JobsNameFutures' /\ QueueHoldsQueued'
<1> USE DEF IInv
<1> DEFINE k == Region(h)
<1>1. k \in Keys /\ handler[h].job = jobs[k] /\ (jobs[k] = NoJob \/ Done(jobs[k]))
  BY RegionType DEF InRegion, JobStillNamed, StillCollecting
<1>2. PICK j \in JobIds :
         /\ future[j].stage = "unused"
         /\ future' = [i \in JobIds |-> IF i = j THEN [stage |-> "queued", key |-> k]
                                        ELSE IF i = jobs[k] /\ Done(i) THEN Unused
                                        ELSE future[i]]
         /\ jobs' = [jobs EXCEPT ![k] = j]
         /\ queue' = Append(queue, j)
  BY DEF StartJob
<1>3. /\ future \in [JobIds -> Future] /\ jobs \in [Keys -> JobIds \cup {NoJob}]
      /\ queue \in Seq(JobIds)
  BY DEF TypeOK
<1>4. [stage |-> "queued", key |-> k] \in Future /\ Unused \in Future
      /\ Unused.stage = "unused"
  BY <1>1 DEF Future, Unused
<1>5. future' \in [JobIds -> Future] /\ jobs' \in [Keys -> JobIds \cup {NoJob}]
      /\ queue' \in Seq(JobIds)
  BY <1>1, <1>2, <1>3, <1>4
<1>6. /\ future'[j].stage = "queued" /\ future'[j].key = k
      /\ \A i \in JobIds : i # j /\ i # jobs[k] => future'[i] = future[i]
      /\ jobs[k] # NoJob => jobs[k] # j /\ future'[jobs[k]].stage = "unused"
  <2>1. future'[j] = [stage |-> "queued", key |-> k]
    BY <1>2
  <2>2. ASSUME jobs[k] # NoJob PROVE jobs[k] # j /\ future'[jobs[k]].stage = "unused"
    <3>1. Done(jobs[k]) /\ jobs[k] \in JobIds /\ jobs[k] # j
      BY <1>1, <1>2, <1>3, <2>2 DEF Done
    <3>2. future'[jobs[k]] = Unused
      BY <1>2, <3>1
    <3>3. QED
      BY <1>4, <3>1, <3>2
  <2>3. QED
    BY <1>2, <2>1, <2>2
<1>7. \A i \in InFlight : future[i].key # k
  BY <1>1, <1>3, NoJobAssumption DEF NoOrphanJob, InFlight, Done
<1>8. NoOrphanJob'
  <2>1. SUFFICES ASSUME NEW i \in JobIds, future'[i].stage \in {"queued", "running"}
                 PROVE  jobs'[future'[i].key] = i
    BY DEF NoOrphanJob, InFlight
  <2>2. CASE i = j
    BY <1>1, <1>2, <1>3, <1>6, <2>2
  <2>3. CASE i # j
    <3>1. i # jobs[k]
      BY <1>6, <2>1, NoJobAssumption
    <3>2. future'[i] = future[i] /\ i \in InFlight
      BY <1>6, <2>1, <2>3, <3>1 DEF InFlight
    <3>3. future[i].key \in Keys
      BY <1>3, <3>2 DEF Future, InFlight
    <3>4. QED
      BY <1>2, <1>3, <1>7, <3>2, <3>3 DEF NoOrphanJob
  <2>4. QED
    BY <2>2, <2>3
<1>9. JobsNameFutures'
  <2>1. SUFFICES ASSUME NEW g \in Keys, jobs'[g] # NoJob
                 PROVE  future'[jobs'[g]].stage # "unused" /\ future'[jobs'[g]].key = g
    BY DEF JobsNameFutures
  <2>2. CASE g = k
    BY <1>1, <1>2, <1>3, <1>6, <2>2
  <2>3. CASE g # k
    <3>1. jobs'[g] = jobs[g] /\ jobs[g] \in JobIds /\ future[jobs[g]].stage # "unused"
          /\ future[jobs[g]].key = g
      BY <1>2, <1>3, <2>1, <2>3 DEF JobsNameFutures
    <3>2. jobs[g] # j
      BY <1>2, <3>1
    <3>3. jobs[g] # jobs[k]
      BY <1>1, <1>3, <2>1, <2>3, <3>1, NoJobAssumption DEF JobsNameFutures
    <3>4. QED
      BY <1>6, <3>1, <3>2, <3>3
  <2>4. QED
    BY <2>2, <2>3
<1>10. QueueHoldsQueued'
  <2>1. \A i \in 1 .. Len(queue) : /\ queue[i] \in JobIds
                                   /\ queue[i] # j
                                   /\ queue[i] # jobs[k]
                                   /\ future[queue[i]].stage = "queued"
    BY <1>1, <1>2, <1>3, NoJobAssumption DEF QueueHoldsQueued, Done
  <2>2. /\ Len(queue') = Len(queue) + 1 /\ queue'[Len(queue) + 1] = j
        /\ \A i \in 1 .. Len(queue) : queue'[i] = queue[i]
    BY <1>2, <1>3
  <2>3. \A i \in 1 .. Len(queue') : i \in 1 .. Len(queue) \/ i = Len(queue) + 1
    BY <1>3, <2>2
  <2>4. \A i \in 1 .. Len(queue') : future'[queue'[i]].stage = "queued"
    BY <1>6, <2>1, <2>2, <2>3
  <2>5. \A i, n \in 1 .. Len(queue') : queue'[i] = queue'[n] => i = n
    BY <2>1, <2>2, <2>3 DEF QueueHoldsQueued
  <2>6. QED
    BY <2>4, <2>5 DEF QueueHoldsQueued
<1>11. QED
  BY <1>5, <1>8, <1>9, <1>10

LEMMA ServeCollectingIInv ==
    ASSUME IInv, NEW h \in Handlers, ServeCollecting(h)
    PROVE  IInv'
<1> USE DEF IInv
<1>1. PICK snap \in Lookup(Region(h)) :
         /\ memory' = [memory EXCEPT ![Region(h)] = snap]
         /\ Emit(h, CollectingRow(Region(h), snap))
         /\ IF StillCollecting(h) THEN UNCHANGED <<future, jobs, queue>>
            ELSE StartJob(Region(h))
  BY DEF ServeCollecting
<1>2. InRegion(h, "decide") /\ UNCHANGED <<disk, lock, crashes>>
  BY DEF ServeCollecting
<1>3. Region(h) \in Keys
  BY <1>2, RegionType DEF InRegion
<1>4. snap \in Snapshot \cup {NoSnap}
  BY <1>3 DEF Lookup, TypeOK
<1>5. /\ memory' \in [Keys -> Snapshot \cup {NoSnap}]
      /\ handler' \in [Handlers -> Handler] /\ horizon' \in [Keys -> Ages]
      /\ LockHeld' /\ JobStillNamed' /\ WriteHasSnapshot'
      /\ (~DiskFaults => DiskBacksMemory)'
  BY <1>1, <1>2, <1>3, <1>4, CollectingRowType, ServeKeeps
<1>6. /\ future' \in [JobIds -> Future] /\ queue' \in Seq(JobIds)
      /\ jobs' \in [Keys -> JobIds \cup {NoJob}]
      /\ NoOrphanJob' /\ JobsNameFutures' /\ QueueHoldsQueued'
  <2>1. CASE StillCollecting(h)
    BY <1>1, <2>1 DEF NoOrphanJob, JobsNameFutures, QueueHoldsQueued, InFlight, TypeOK
  <2>2. CASE ~StillCollecting(h)
    BY <1>1, <1>2, <2>2, StartJobKeeps
  <2>3. QED
    BY <2>1, <2>2
<1>7. TypeOK'
  BY <1>2, <1>5, <1>6 DEF TypeOK
<1>8. QED
  BY <1>5, <1>6, <1>7

LEMMA OlderType ==
    ASSUME NEW age \in Ages
    PROVE  Older(age) \in Ages
BY TTLAssumption DEF Older, Ages

LEMMA AgedType ==
    ASSUME NEW snap \in Snapshot \cup {NoSnap}
    PROVE  /\ Aged(snap) \in Snapshot \cup {NoSnap}
           /\ Aged(snap) = NoSnap <=> snap = NoSnap
<1>1. CASE snap = NoSnap
  BY <1>1 DEF Aged
<1>2. CASE snap # NoSnap
  <2>1. snap \in Snapshot /\ snap.age \in Ages
    BY <1>2 DEF Snapshot
  <2>2. Aged(snap) = [snap EXCEPT !.age = Older(snap.age)]
    BY <1>2, <2>1 DEF Aged
  <2>3. Aged(snap) \in Snapshot
    BY <2>1, <2>2, OlderType DEF Snapshot
  <2>4. QED
    BY <1>2, <2>3, NoSnapAssumption
<1>3. QED
  BY <1>1, <1>2

LEMMA TickIInv ==
    ASSUME IInv, Tick
    PROVE  IInv'
<1> USE DEF IInv
<1>1. /\ memory' = [k \in Keys |-> Aged(memory[k])]
      /\ disk' = [k \in Keys |-> Aged(disk[k])]
      /\ horizon' = [k \in Keys |-> Older(horizon[k])]
      /\ UNCHANGED <<jobs, queue, lock, handler, crashes>>
  BY DEF Tick
<1>2. \A k \in Keys : /\ memory[k] \in Snapshot \cup {NoSnap}
                      /\ disk[k] \in Snapshot \cup {NoSnap}
                      /\ horizon[k] \in Ages
  BY DEF TypeOK
<1>3. /\ memory' \in [Keys -> Snapshot \cup {NoSnap}]
      /\ disk' \in [Keys -> Snapshot \cup {NoSnap}]
      /\ horizon' \in [Keys -> Ages]
  BY <1>1, <1>2, AgedType, OlderType
<1>4. ASSUME NEW j \in JobIds
      PROVE  future'[j] \in Future /\ future'[j].stage = future[j].stage
             /\ (future[j].stage # "unused" => future'[j].key = future[j].key)
  <2>1. future[j] \in Future
    BY DEF TypeOK
  <2>2. CASE future[j].stage = "done"
    <3>1. future[j] \in [stage : {"done"}, key : Keys, result : Snapshot]
      BY <2>1, <2>2 DEF Future
    <3>2. future'[j] = [future[j] EXCEPT !.result = Aged(future[j].result)]
      BY <2>2, <3>1 DEF Tick
    <3>3. Aged(future[j].result) \in Snapshot
      BY <3>1, AgedType, NoSnapAssumption
    <3>4. QED
      BY <3>1, <3>2, <3>3 DEF Future
  <2>3. CASE future[j].stage # "done"
    BY <2>1, <2>3 DEF Tick
  <2>4. QED
    BY <2>2, <2>3
<1>5. future' \in [JobIds -> Future]
  <2>1. future' = [j \in JobIds |-> future'[j]]
    BY DEF Tick
  <2>2. QED
    BY <1>4, <2>1
<1>6. TypeOK'
  BY <1>1, <1>3, <1>5 DEF TypeOK
<1>7. NoOrphanJob'
  BY <1>1, <1>4 DEF NoOrphanJob, InFlight
<1>8. JobsNameFutures'
  BY <1>1, <1>4 DEF JobsNameFutures, TypeOK
<1>9. QueueHoldsQueued'
  <2>1. \A i \in 1 .. Len(queue) : queue[i] \in JobIds
    BY DEF TypeOK
  <2>2. QED
    BY <1>1, <1>4, <2>1 DEF QueueHoldsQueued
<1>10. LockHeld' /\ JobStillNamed'
  BY <1>1 DEF LockHeld, JobStillNamed, At, Region
<1>11. WriteHasSnapshot'
  <2>1. SUFFICES ASSUME NEW h \in Handlers, At(h, "write")
                 PROVE  /\ handler[h].todo # <<>>
                        /\ memory'[Region(h)] # NoSnap /\ disk'[Region(h)] = NoSnap
    BY <1>1 DEF WriteHasSnapshot, At, Region
  <2>2. handler[h].todo # <<>> /\ memory[Region(h)] # NoSnap /\ disk[Region(h)] = NoSnap
    BY <2>1 DEF WriteHasSnapshot
  <2>3. Region(h) \in Keys
    BY <2>2, RegionType
  <2>4. QED
    BY <1>1, <1>2, <2>2, <2>3, AgedType
<1>12. ASSUME ~DiskFaults PROVE DiskBacksMemory'
  <2>1. SUFFICES ASSUME NEW k \in Keys, memory'[k] # NoSnap,
                        ~ \E h \in Handlers : InRegion(h, "write") /\ Region(h) = k
                 PROVE  disk'[k] = memory'[k]
    BY <1>1 DEF DiskBacksMemory, InRegion, At, Region
  <2>2. memory[k] # NoSnap
    BY <1>1, <1>2, <2>1, AgedType
  <2>3. disk[k] = memory[k]
    BY <1>12, <2>1, <2>2 DEF DiskBacksMemory
  <2>4. QED
    BY <1>1, <2>3
<1>13. QED
  BY <1>6, <1>7, <1>8, <1>9, <1>10, <1>11, <1>12

LEMMA CrashIInv ==
    ASSUME IInv, Crash
    PROVE  IInv'
<1> USE DEF IInv, Crash
<1>1. Idle \in Handler /\ Idle.pc = "idle"
  BY DEF Idle, Handler
<1>2. Unused \in Future /\ Unused.stage = "unused"
  BY DEF Unused, Future
<1>3. queue' \in Seq(JobIds) /\ crashes' \in 0 .. MaxCrashes
  BY BoundsAssumption DEF TypeOK
<1>4. TypeOK'
  BY <1>1, <1>2, <1>3 DEF TypeOK
<1>5. LockHeld' /\ JobStillNamed' /\ WriteHasSnapshot'
  BY <1>1 DEF LockHeld, JobStillNamed, WriteHasSnapshot, At
<1>6. NoOrphanJob' /\ JobsNameFutures'
  BY <1>2 DEF NoOrphanJob, JobsNameFutures, InFlight
<1>7. QueueHoldsQueued'
  BY DEF QueueHoldsQueued
<1>8. DiskBacksMemory'
  BY DEF DiskBacksMemory
<1>9. QED
  BY <1>4, <1>5, <1>6, <1>7, <1>8

-----------------------------------------------------------------------------
LEMMA StutterIInv == IInv /\ UNCHANGED vars => IInv'
<1> SUFFICES ASSUME IInv, UNCHANGED vars PROVE IInv'
  OBVIOUS
<1> USE DEF vars, IInv
<1>1. TypeOK'
  BY DEF TypeOK
<1>2. LockHeld' /\ JobStillNamed' /\ WriteHasSnapshot'
  BY DEF LockHeld, JobStillNamed, WriteHasSnapshot, At, Region
<1>3. NoOrphanJob' /\ JobsNameFutures' /\ QueueHoldsQueued'
  BY DEF NoOrphanJob, JobsNameFutures, QueueHoldsQueued, InFlight
<1>4. (~DiskFaults => DiskBacksMemory)'
  BY DEF DiskBacksMemory, InRegion, At, Region
<1>5. QED
  BY <1>1, <1>2, <1>3, <1>4

(* The invariant holds in every reachable state.                           *)
THEOREM Invariance == Spec => []IInv
<1>1. IInv /\ [Next]_vars => IInv'
  <2>1. SUFFICES ASSUME IInv, [Next]_vars PROVE IInv'
    OBVIOUS
  <2>2. ASSUME NEW h \in Handlers, HandlerStep(h) PROVE IInv'
    BY <2>1, <2>2, HarvestIInv, WriteFileIInv, ClearIInv, NotDoneIInv,
       ServeFreshIInv, ServeCollectingIInv, RespondIInv DEF HandlerStep
  <2>3. ASSUME NEW h \in Handlers, Arrive(h) PROVE IInv'
    BY <2>1, <2>3, EnterIInv DEF Arrive
  <2>4. ASSUME Finish PROVE IInv'
    BY <2>1, <2>4, WorkerFinishIInv DEF Finish
  <2>5. CASE UNCHANGED vars
    BY <2>1, <2>5, StutterIInv
  <2>6. QED
    BY <2>1, <2>2, <2>3, <2>4, <2>5, WorkerTakeIInv, TickIInv, CrashIInv DEF Next
<1>2. QED
  BY InitIInv, <1>1, PTL DEF Spec

(* Every variable keeps its type, whatever the interleaving.               *)
THEOREM TypeCorrectness == Spec => []TypeOK
<1>1. IInv => TypeOK
  BY DEF IInv
<1>2. QED
  BY <1>1, Invariance, PTL

(* No live collection is ever dropped from _dashboard_jobs, even when the  *)
(* snapshot files fail.                                                    *)
THEOREM NoOrphans == Spec => []NoOrphanJob
<1>1. IInv => NoOrphanJob
  BY DEF IInv
<1>2. QED
  BY <1>1, Invariance, PTL

(* A key is never collected twice at once, for any number of handlers,     *)
(* futures and workers.                                                    *)
THEOREM SingleFlight == Spec => []OneCollectionPerKey
<1>1. IInv => OneCollectionPerKey
  BY DEF IInv, OneCollectionPerKey, NoOrphanJob
<1>2. QED
  BY <1>1, Invariance, PTL

(* If no file operation fails, a restart finds on disk what memory held,   *)
(* unless the process dies while it fills that very file.                  *)
THEOREM Durability == ASSUME ~DiskFaults PROVE Spec => []DiskBacksMemory
<1>1. IInv => DiskBacksMemory
  BY DEF IInv
<1>2. QED
  BY <1>1, Invariance, PTL

(* A result that had ended when a handler looked at its job is installed,  *)
(* or its key cleared, unless the process dies: only a collection that     *)
(* ends between the two calls of done() is lost, and also when snapshot    *)
(* files fail.                                                             *)
THEOREM LostUnseen == Spec => LostOnlyIfUnseen
<1>1. ASSUME IInv, Next, NEW k \in Keys, Done(jobs[k]), jobs'[k] # jobs[k],
             memory'[k] # future[jobs[k]].result
      PROVE  \/ \E h \in Handlers : InRegion(h, "look") /\ Region(h) = k /\ handler[h].clear
             \/ \E h \in Handlers : /\ InRegion(h, "decide") /\ Region(h) = k
                                     /\ handler[h].job = jobs[k]
             \/ crashes' # crashes
  <2>1. ASSUME NEW h \in Handlers, Harvest(h) PROVE FALSE
    <3>1. PICK i \in Keys : i = Region(h)
      BY <1>1, <2>1, RegionType DEF Harvest, InRegion, IInv
    <3>2. memory' = [memory EXCEPT ![i] = future[jobs[i]].result] /\ jobs' = [jobs EXCEPT ![i] = NoJob]
      BY <2>1, <3>1 DEF Harvest
    <3>3. QED
      BY <1>1, <3>2 DEF IInv, TypeOK
  <2>2. ASSUME NEW h \in Handlers, Clear(h)
        PROVE  InRegion(h, "look") /\ Region(h) = k /\ handler[h].clear
    <3>1. PICK job : jobs' = [jobs EXCEPT ![Region(h)] = job]
      BY <2>2 DEF Clear
    <3>2. QED
      BY <1>1, <2>2, <3>1 DEF Clear, IInv, TypeOK
  <2>3. ASSUME NEW h \in Handlers, ServeCollecting(h)
        PROVE  InRegion(h, "decide") /\ Region(h) = k /\ handler[h].job = jobs[k]
    <3>1. StartJob(Region(h)) /\ InRegion(h, "decide")
      BY <1>1, <2>3 DEF ServeCollecting
    <3>2. PICK j \in JobIds : jobs' = [jobs EXCEPT ![Region(h)] = j]
      BY <3>1 DEF StartJob
    <3>3. Region(h) = k
      BY <1>1, <3>2 DEF IInv, TypeOK
    <3>4. QED
      BY <1>1, <3>1, <3>3 DEF InRegion, IInv, JobStillNamed
  <2>4. CASE Crash
    BY <1>1, <2>4, BoundsAssumption DEF Crash, IInv, TypeOK
  <2>5. CASE UNCHANGED jobs
    BY <1>1, <2>5
  <2>6. QED
    BY <1>1, <2>1, <2>2, <2>3, <2>4, <2>5
       DEF Next, HandlerStep, Arrive, Enter, WriteFile, NotDone, ServeFresh, Respond,
           WorkerTake, Finish, WorkerFinish, Tick
<1>2. IInv /\ [Next]_vars =>
        [\A k \in Keys :
            (Done(jobs[k]) /\ jobs'[k] # jobs[k] /\ memory'[k] # future[jobs[k]].result)
            => \/ \E h \in Handlers : InRegion(h, "look") /\ Region(h) = k /\ handler[h].clear
               \/ \E h \in Handlers : /\ InRegion(h, "decide") /\ Region(h) = k
                                       /\ handler[h].job = jobs[k]
               \/ crashes' # crashes]_vars
  BY <1>1
<1>3. QED
  BY <1>2, Invariance, PTL DEF Spec, LostOnlyIfUnseen

(* The executor's queue has no bound of its own, and every poll may submit *)
(* to it: still there is never more work in it, or under way, than there   *)
(* are keys.                                                               *)
THEOREM WorkIsBounded ==
    ASSUME IsFiniteSet(Keys)
    PROVE  Spec => [](/\ IsFiniteSet(InFlight) /\ Cardinality(InFlight) <= Cardinality(Keys)
                      /\ Len(queue) <= Cardinality(Keys))
<1>1. ASSUME IInv
      PROVE  /\ IsFiniteSet(InFlight) /\ Cardinality(InFlight) <= Cardinality(Keys)
             /\ Len(queue) <= Cardinality(Keys)
  <2> USE <1>1 DEF IInv
  <2> DEFINE keyOf == [j \in InFlight |-> future[j].key]
             keyAt == [i \in 1 .. Len(queue) |-> future[queue[i]].key]
  <2>1. \A j \in InFlight : future[j].key \in Keys
    BY DEF InFlight, TypeOK, Future
  <2>2. keyOf \in Injection(InFlight, Keys)
    BY <2>1 DEF NoOrphanJob, Injection, IsInjective
  <2>3. \A i \in 1 .. Len(queue) : queue[i] \in InFlight
    BY DEF QueueHoldsQueued, InFlight, TypeOK
  <2>4. keyAt \in Injection(1 .. Len(queue), Keys)
    BY <2>1, <2>3 DEF NoOrphanJob, QueueHoldsQueued, Injection, IsInjective
  <2>5. Len(queue) \in Nat
    BY DEF TypeOK
  <2> HIDE DEF keyOf, keyAt
  <2>6. IsFiniteSet(InFlight) /\ Cardinality(InFlight) <= Cardinality(Keys)
    BY <2>2, FS_Injection
  <2>7. Cardinality(1 .. Len(queue)) <= Cardinality(Keys)
    BY <2>4, FS_Injection
  <2>8. Cardinality(1 .. Len(queue)) = Len(queue)
    <3>1. PICK n \in Nat : n = Len(queue)
      BY <2>5
    <3>2. 1 \in Int /\ n \in Int
      BY <3>1
    <3>3. Cardinality(1 .. n) = IF 1 > n THEN 0 ELSE n - 1 + 1
      BY <3>2, FS_Interval, Zenon
    <3>4. QED
      BY <3>1, <3>3, SMT
  <2>9. QED
    BY <2>6, <2>7, <2>8
<1>2. QED
  BY <1>1, Invariance, PTL
=============================================================================

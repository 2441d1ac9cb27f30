--------------------------- MODULE SnapshotCache ---------------------------
(***************************************************************************)
(* The asynchronous dashboard collection cache of                          *)
(* backend/app/routers/network.py: GET /api/dashboard?async_collect=true   *)
(* and GET /api/dashboard/completeness.                                    *)
(*                                                                         *)
(* Request handlers run on a pool of server threads and serialise on       *)
(* _dashboard_lock while they walk the requested regions.  Collections run *)
(* on _dashboard_executor and take no lock, so a collection may finish     *)
(* between any two steps of a handler, in particular between the two calls *)
(* of job.done() on lines 319 and 333.  A crash of the API process loses   *)
(* memory, jobs and handlers; the snapshot files survive.                  *)
(*                                                                         *)
(* A snapshot is abstracted to its age (the wall clock minus collected_at, *)
(* saturated just above the TTL) and to whether the collection failed.     *)
(***************************************************************************)
EXTENDS Naturals, Sequences, FiniteSets

CONSTANTS
    Keys,        \* cache keys: (region, compartment filter, VCN filter)
    Requests,    \* the sequences of keys that a request may name
    Handlers,    \* threads of the server that run request handlers
    JobIds,      \* identities of the executor's futures
    Workers,     \* max_workers of _dashboard_executor
    TTL,         \* inventory_snapshot_ttl_seconds, in ticks of the clock
    DiskFaults,  \* may reading, writing or unlinking a snapshot file fail?
    TornWrites,  \* may the process die between truncating a file and filling it?
    MaxCrashes,  \* bound: how often the process dies
    NoSnap, NoJob, NoHandler

ASSUME RequestsAssumption == Requests \subseteq Seq(Keys) \ {<<>>}
ASSUME TTLAssumption == TTL \in Nat
ASSUME BoundsAssumption == Workers \in Nat \ {0} /\ MaxCrashes \in Nat
ASSUME FaultsAssumption == DiskFaults \in BOOLEAN /\ TornWrites \in BOOLEAN
ASSUME NoJobAssumption == NoJob \notin JobIds
ASSUME NoHandlerAssumption == NoHandler \notin Handlers

VARIABLES
    memory,   \* _dashboard_snapshots
    disk,     \* what _read_persistent_snapshot would return for each key
    jobs,     \* _dashboard_jobs
    future,   \* the executor's futures
    queue,    \* the executor's work queue, first in first out
    lock,     \* the handler that holds _dashboard_lock
    handler,  \* the local variables of each request handler
    crashes,  \* how often the process died
    horizon   \* history: the age of what a response last showed for the key, or
              \* the time since the key was cleared, whichever came last

vars == <<memory, disk, jobs, future, queue, lock, handler, crashes, horizon>>

-----------------------------------------------------------------------------
Ages == 0 .. TTL + 1

Snapshot == [age : Ages, ok : BOOLEAN]

ASSUME NoSnapAssumption == NoSnap \notin Snapshot

(* Mutant of IsFresh: a snapshot never becomes stale.                      *)
AlwaysFresh(snap) == TRUE

IsFresh(snap) == snap.age <= TTL

(* One entry of region_states, with the snapshot that is put into          *)
(* ready_snapshots for it (NoSnap if there is none).                       *)
Rows == [key : Keys, status : {"ready", "failed", "collecting"},
         snap : Snapshot \cup {NoSnap}]

FinalRow(k, snap) ==
    [key |-> k, status |-> IF snap.ok THEN "ready" ELSE "failed", snap |-> snap]

CollectingRow(k, snap) == [key |-> k, status |-> "collecting", snap |-> snap]

Idle == [pc |-> "idle", todo |-> <<>>, job |-> NoJob,
         refresh |-> FALSE, clear |-> FALSE, rows |-> {}]

Handler == [pc : {"idle", "look", "write", "decide"}, todo : Seq(Keys),
            job : JobIds \cup {NoJob},
            refresh : BOOLEAN, clear : BOOLEAN, rows : SUBSET Rows]

Unused == [stage |-> "unused"]

Future == [stage : {"unused"}]
          \cup [stage : {"queued", "running"}, key : Keys]
          \cup [stage : {"done"}, key : Keys, result : Snapshot]

Done(j) == j # NoJob /\ future[j].stage = "done"

(* The futures whose collection has been submitted and has not finished.   *)
InFlight == {j \in JobIds : future[j].stage \in {"queued", "running"}}

Running == {j \in JobIds : future[j].stage = "running"}

-----------------------------------------------------------------------------
Init ==
    /\ memory = [k \in Keys |-> NoSnap]
    /\ disk = [k \in Keys |-> NoSnap]
    /\ jobs = [k \in Keys |-> NoJob]
    /\ future = [j \in JobIds |-> Unused]
    /\ queue = <<>>
    /\ lock = NoHandler
    /\ handler = [h \in Handlers |-> Idle]
    /\ crashes = 0
    /\ horizon = [k \in Keys |-> TTL + 1]

Region(h) == Head(handler[h].todo)

At(h, pc) == handler[h].pc = pc

InRegion(h, pc) == At(h, pc) /\ handler[h].todo # <<>>

(* The handler appends a row and goes to its next region.                  *)
Emit(h, row) ==
    /\ handler' = [handler EXCEPT ![h].pc = "look",
                                  ![h].todo = Tail(@),
                                  ![h].job = NoJob,
                                  ![h].rows = @ \cup {row}]
    /\ horizon' = IF row.snap = NoSnap THEN horizon
                 ELSE [horizon EXCEPT ![row.key] = row.snap.age]

(* Mutant of Enter: the regions are walked without _dashboard_lock.        *)
EnterUnlocked(h, rs, refresh, clear) ==
    /\ At(h, "idle")
    /\ lock' = h
    /\ handler' = [handler EXCEPT ![h] = [Idle EXCEPT !.pc = "look", !.todo = rs,
                                                      !.refresh = refresh, !.clear = clear]]
    /\ UNCHANGED <<memory, disk, jobs, future, queue, crashes, horizon>>

(* A request arrives and takes _dashboard_lock.                            *)
Enter(h, rs, refresh, clear) ==
    /\ At(h, "idle")
    /\ lock = NoHandler
    /\ lock' = h
    /\ handler' = [handler EXCEPT ![h] = [Idle EXCEPT !.pc = "look", !.todo = rs,
                                                      !.refresh = refresh, !.clear = clear]]
    /\ UNCHANGED <<memory, disk, jobs, future, queue, crashes, horizon>>

(* Mutant of Harvest: a failed result does not replace a good snapshot.    *)
HarvestIfBetter(h) ==
    /\ InRegion(h, "look")
    /\ ~handler[h].clear
    /\ LET k == Region(h)
           j == jobs[k]
       IN  /\ Done(j)
           /\ memory' = IF memory[k] # NoSnap /\ ~future[j].result.ok THEN memory
                        ELSE [memory EXCEPT ![k] = future[j].result]
           /\ jobs' = [jobs EXCEPT ![k] = NoJob]
           /\ future' = [future EXCEPT ![j] = Unused]
           /\ disk' = [disk EXCEPT ![k] = NoSnap]
           /\ handler' = [handler EXCEPT ![h].pc = "write"]
    /\ UNCHANGED <<queue, lock, crashes, horizon>>

(* Lines 318-330: the job of the region is done and the cache is not being *)
(* cleared; the result is installed in memory and served.  The file is     *)
(* opened (and truncated) here and filled by WriteFile.                    *)
Harvest(h) ==
    /\ InRegion(h, "look")
    /\ ~handler[h].clear
    /\ LET k == Region(h)
           j == jobs[k]
       IN  /\ Done(j)
           /\ memory' = [memory EXCEPT ![k] = future[j].result]
           /\ jobs' = [jobs EXCEPT ![k] = NoJob]
           /\ future' = [future EXCEPT ![j] = Unused]
           /\ \/ /\ disk' = [disk EXCEPT ![k] = NoSnap]
                 /\ handler' = [handler EXCEPT ![h].pc = "write"]
                 /\ UNCHANGED horizon
              \/ /\ DiskFaults     \* the file cannot be opened
                 /\ Emit(h, FinalRow(k, future[j].result))
                 /\ UNCHANGED disk
    /\ UNCHANGED <<queue, lock, crashes>>

(* Mutant of WriteFile: the file is not filled for a failed collection.    *)
WriteFileIfReady(h) ==
    /\ InRegion(h, "write")
    /\ LET k == Region(h)
       IN  /\ disk' = IF memory[k].ok THEN [disk EXCEPT ![k] = memory[k]] ELSE disk
           /\ Emit(h, FinalRow(k, memory[k]))
    /\ UNCHANGED <<memory, jobs, future, queue, lock, crashes>>

(* Line 82, the rest of _write_persistent_snapshot, and lines 328-330.     *)
WriteFile(h) ==
    /\ InRegion(h, "write")
    /\ LET k == Region(h)
       IN  /\ \/ disk' = [disk EXCEPT ![k] = memory[k]]
              \/ DiskFaults /\ UNCHANGED disk
           /\ Emit(h, FinalRow(k, memory[k]))
    /\ UNCHANGED <<memory, jobs, future, queue, lock, crashes>>

(* Mutant of Clear: only the snapshot in memory is dropped.                *)
ClearMemoryOnly(h) ==
    /\ InRegion(h, "look")
    /\ handler[h].clear
    /\ memory' = [memory EXCEPT ![Region(h)] = NoSnap]
    /\ horizon' = [horizon EXCEPT ![Region(h)] = 0]
    /\ handler' = [handler EXCEPT ![h].pc = "decide", ![h].job = jobs[Region(h)]]
    /\ UNCHANGED <<disk, jobs, future, queue, lock, crashes>>

(* Lines 315-321, 331: clear_cache drops the snapshot of the region, and   *)
(* with it the result of a job that is done.                               *)
Clear(h) ==
    /\ InRegion(h, "look")
    /\ handler[h].clear
    /\ LET k == Region(h)
           j == jobs[k]
       IN  /\ memory' = [memory EXCEPT ![k] = NoSnap]
           /\ \/ disk' = [disk EXCEPT ![k] = NoSnap]
              \/ DiskFaults /\ UNCHANGED disk     \* the file cannot be unlinked
           /\ horizon' = [horizon EXCEPT ![k] = 0]
           /\ LET job == IF Done(j) THEN NoJob ELSE j
              IN  /\ jobs' = [jobs EXCEPT ![k] = job]
                  /\ handler' = [handler EXCEPT ![h].pc = "decide", ![h].job = job]
           /\ future' = IF Done(j) THEN [future EXCEPT ![j] = Unused] ELSE future
    /\ UNCHANGED <<queue, lock, crashes>>

(* Mutant of NotDone: the job that is not done is taken out of the table.  *)
NotDoneForgets(h) ==
    /\ InRegion(h, "look")
    /\ ~handler[h].clear
    /\ ~Done(jobs[Region(h)])
    /\ jobs' = [jobs EXCEPT ![Region(h)] = NoJob]
    /\ handler' = [handler EXCEPT ![h].pc = "decide", ![h].job = NoJob]
    /\ UNCHANGED <<memory, disk, future, queue, lock, crashes, horizon>>

(* Lines 318-319: there is no job, or it is not done yet.                  *)
NotDone(h) ==
    /\ InRegion(h, "look")
    /\ ~handler[h].clear
    /\ ~Done(jobs[Region(h)])
    /\ handler' = [handler EXCEPT ![h].pc = "decide", ![h].job = jobs[Region(h)]]
    /\ UNCHANGED <<memory, disk, jobs, future, queue, lock, crashes, horizon>>

(* _start_region_collection_job and the assignment to _dashboard_jobs.  A  *)
(* future that the entry held before is released: nothing refers to it.    *)
StartJob(k) ==
    \E j \in {i \in JobIds : future[i].stage = "unused"} :
        /\ future' = [i \in JobIds |-> IF i = j THEN [stage |-> "queued", key |-> k]
                                       ELSE IF i = jobs[k] /\ Done(i) THEN Unused
                                       ELSE future[i]]
        /\ jobs' = [jobs EXCEPT ![k] = j]
        /\ queue' = Append(queue, j)

(* Mutant of StillCollecting: a running collection does not keep a handler *)
(* from starting the next one.                                             *)
NeverCollecting(h) == FALSE

(* Line 333: job.done() is asked a second time.                            *)
StillCollecting(h) == handler[h].job # NoJob /\ ~Done(handler[h].job)

(* Lines 335-340: the snapshot in memory, or else the one on disk.         *)
Lookup(k) ==
    IF memory[k] # NoSnap THEN {memory[k]}
    ELSE {disk[k]} \cup (IF DiskFaults THEN {NoSnap} ELSE {})

(* Lines 342-347: a fresh snapshot is served, unless refresh was asked.    *)
ServeFresh(h) ==
    /\ InRegion(h, "decide")
    /\ ~handler[h].refresh
    /\ LET k == Region(h)
       IN  \E snap \in Lookup(k) \ {NoSnap} :
              /\ IsFresh(snap)
              /\ memory' = [memory EXCEPT ![k] = snap]
              /\ Emit(h, FinalRow(k, snap))
    /\ UNCHANGED <<disk, jobs, future, queue, lock, crashes>>

(* Lines 348-384: no snapshot, a stale one, or one to be refreshed; a      *)
(* collection is started unless one is known to run.                       *)
ServeCollecting(h) ==
    /\ InRegion(h, "decide")
    /\ LET k == Region(h)
       IN  \E snap \in Lookup(k) :
              /\ snap # NoSnap => ~IsFresh(snap) \/ handler[h].refresh
              /\ memory' = [memory EXCEPT ![k] = snap]
              /\ Emit(h, CollectingRow(k, snap))
              /\ IF StillCollecting(h) THEN UNCHANGED <<future, jobs, queue>>
                 ELSE StartJob(k)
    /\ UNCHANGED <<disk, lock, crashes>>

(* Every region has its row: the lock is released and the response built.  *)
Respond(h) ==
    /\ At(h, "look")
    /\ handler[h].todo = <<>>
    /\ lock' = NoHandler
    /\ handler' = [handler EXCEPT ![h] = Idle]
    /\ UNCHANGED <<memory, disk, jobs, future, queue, crashes, horizon>>

-----------------------------------------------------------------------------
(* A thread of the executor takes the oldest submitted collection.         *)
WorkerTake ==
    /\ queue # <<>>
    /\ Cardinality(Running) < Workers
    /\ future' = [future EXCEPT ![Head(queue)].stage = "running"]
    /\ queue' = Tail(queue)
    /\ UNCHANGED <<memory, disk, jobs, lock, handler, crashes, horizon>>

(* Mutant of WorkerFinish: a collection that fails returns None.           *)
WorkerFinishNone(j, ok) ==
    /\ future[j].stage = "running"
    /\ future' = [future EXCEPT ![j] = [stage |-> "done", key |-> future[j].key,
                      result |-> IF ok THEN [age |-> 0, ok |-> TRUE] ELSE NoSnap]]
    /\ UNCHANGED <<memory, disk, jobs, queue, lock, handler, crashes, horizon>>

(* _collect returns: a snapshot, or _failed_dashboard_snapshot.            *)
WorkerFinish(j, ok) ==
    /\ future[j].stage = "running"
    /\ future' = [future EXCEPT ![j] = [stage |-> "done", key |-> future[j].key,
                      result |-> [age |-> 0, ok |-> ok]]]
    /\ UNCHANGED <<memory, disk, jobs, queue, lock, handler, crashes, horizon>>

Older(age) == IF age > TTL THEN age ELSE age + 1

Aged(snap) == IF snap = NoSnap THEN NoSnap ELSE [snap EXCEPT !.age = Older(@)]

(* The wall clock advances.                                                *)
Tick ==
    /\ memory' = [k \in Keys |-> Aged(memory[k])]
    /\ disk' = [k \in Keys |-> Aged(disk[k])]
    /\ future' = [j \in JobIds |-> IF future[j].stage = "done"
                                   THEN [future[j] EXCEPT !.result = Aged(@)]
                                   ELSE future[j]]
    /\ horizon' = [k \in Keys |-> Older(horizon[k])]
    /\ UNCHANGED <<jobs, queue, lock, handler, crashes>>

(* The API process dies and systemd restarts it.                           *)
Crash ==
    /\ crashes < MaxCrashes
    /\ TornWrites \/ \A h \in Handlers : ~At(h, "write")
    /\ memory' = [k \in Keys |-> NoSnap]
    /\ jobs' = [k \in Keys |-> NoJob]
    /\ future' = [j \in JobIds |-> Unused]
    /\ queue' = <<>>
    /\ lock' = NoHandler
    /\ handler' = [h \in Handlers |-> Idle]
    /\ crashes' = crashes + 1
    /\ UNCHANGED <<disk, horizon>>

HandlerStep(h) == \/ Harvest(h) \/ WriteFile(h) \/ Clear(h) \/ NotDone(h)
                  \/ ServeFresh(h) \/ ServeCollecting(h) \/ Respond(h)

Arrive(h) == \E rs \in Requests, refresh \in BOOLEAN, clear \in BOOLEAN :
                Enter(h, rs, refresh, clear)

Finish == \E j \in JobIds, ok \in BOOLEAN : WorkerFinish(j, ok)

Next == \/ \E h \in Handlers : HandlerStep(h) \/ Arrive(h)
        \/ WorkerTake
        \/ Finish
        \/ Tick
        \/ Crash

Spec == Init /\ [][Next]_vars

-----------------------------------------------------------------------------
TypeOK ==
    /\ memory \in [Keys -> Snapshot \cup {NoSnap}]
    /\ disk \in [Keys -> Snapshot \cup {NoSnap}]
    /\ jobs \in [Keys -> JobIds \cup {NoJob}]
    /\ future \in [JobIds -> Future]
    /\ queue \in Seq(JobIds)
    /\ lock \in Handlers \cup {NoHandler}
    /\ handler \in [Handlers -> Handler]
    /\ crashes \in 0 .. MaxCrashes
    /\ horizon \in [Keys -> Ages]

(* At most one collection of a key is queued or running, whatever handlers *)
(* poll it and whenever the collection finishes: _start_region_collection_ *)
(* job is called only under the lock and when no live job is known.        *)
OneCollectionPerKey ==
    \A i, j \in InFlight : future[i].key = future[j].key => i = j

(* A collection that has not finished can be found again: _dashboard_jobs  *)
(* names it, so that a later poll will harvest it.                         *)
NoOrphanJob == \A j \in InFlight : jobs[future[j].key] = j

(* What a restart would find is what the process has in memory, except     *)
(* while the handler that holds the lock is filling the file.              *)
DiskBacksMemory ==
    \A k \in Keys : memory[k] # NoSnap =>
        \/ disk[k] = memory[k]
        \/ \E h \in Handlers : InRegion(h, "write") /\ Region(h) = k

NewRows(h) == handler'[h].rows \ handler[h].rows

(* For one key no response ever goes back in time: it shows no snapshot    *)
(* older than one shown before, nor one completed before the last request  *)
(* to clear the key, across polls, refreshes and restarts.                 *)
NeverShowsOlder ==
    [][\A h \in Handlers : \A row \in NewRows(h) :
          row.snap # NoSnap => row.snap.age <= horizon[row.key]]_vars

-----------------------------------------------------------------------------
(* The cache implements SnapshotFeed: memory and file together are the     *)
(* cell, and the future that _dashboard_jobs names is the collection.      *)
Feed == INSTANCE SnapshotFeed WITH
    cell <- [k \in Keys |-> IF memory[k] # NoSnap THEN memory[k] ELSE disk[k]],
    outcome <- [k \in Keys |-> IF Done(jobs[k]) THEN future[jobs[k]].result ELSE NoSnap],
    collecting <- {future[j].key : j \in InFlight}

(* Every behaviour of the cache is one of the feed, if no operation on a   *)
(* file fails: installing is atomic although it takes two steps, a restart *)
(* loses no snapshot that was installed, but the one whose file was being  *)
(* written if writes can tear, and no key is collected twice.              *)
ImplementsFeed == Feed!FeedSpec

-----------------------------------------------------------------------------
(* The cache implements DashboardApi, on which the page rests.  A handler  *)
(* that has found the collection of its region under way does not see it   *)
(* end any more.                                                           *)
Unseen(k) == \E h \in Handlers : InRegion(h, "decide") /\ Region(h) = k

Kept(k) == IF memory[k] # NoSnap THEN memory[k] ELSE disk[k]

Ended(k) == Done(jobs[k]) /\ ~Unseen(k)

Status(k) ==
    [fresh |-> ~Ended(k) /\ Kept(k) # NoSnap /\ IsFresh(Kept(k)),
     job |-> IF Ended(k) THEN IF IsFresh(future[jobs[k]].result) THEN "fresh" ELSE "stale"
             ELSE IF jobs[k] = NoJob THEN "none" ELSE "running"]

Api == INSTANCE DashboardApi WITH api <- [k \in Keys |-> Status(k)]

(* What a step of a handler answers for its region.                        *)
AnswersFinal(h) ==
    \/ InRegion(h, "look") /\ handler'[h].pc = "write"
    \/ InRegion(h, "decide") /\ \E row \in NewRows(h) : row.status # "collecting"

AnswersCollecting(h) ==
    InRegion(h, "decide") /\ \E row \in NewRows(h) : row.status = "collecting"

AnswersTrue ==
    \A h \in Handlers :
        LET ready == Api!Finished(Status(Region(h)), handler[h].refresh)
        IN  (AnswersFinal(h) => ready) /\ (AnswersCollecting(h) => ~ready)

(* Every behaviour of the cache is one of the API, if no operation on a    *)
(* file fails, and every region is answered with a finished snapshot or as *)
(* collecting just as the API says, whatever finishes between the steps of *)
(* the handler.                                                            *)
ImplementsApi == Api!ApiSpec /\ [][AnswersTrue]_vars

-----------------------------------------------------------------------------
(* Fairness.  A server thread that runs keeps running; the executor takes  *)
(* submitted work and every collection returns (the OCI SDK's timeouts).   *)
(* The dashboard polls a key until it is no longer "collecting", and its   *)
(* polls cannot be shut out of the lock for ever.  A handler holds the     *)
(* lock for moments between polls that are seconds apart: the executor is  *)
(* not for ever confined to those moments (it could lose the result of     *)
(* every collection if it were: see CompletedIsInstalled).  Time passes.   *)
Poll(k) == \E h \in Handlers : Enter(h, <<k>>, FALSE, FALSE)

BetweenPolls(executorStep) == lock = NoHandler /\ executorStep

Fairness ==
    /\ \A h \in Handlers : WF_vars(HandlerStep(h))
    /\ SF_vars(BetweenPolls(WorkerTake))
    /\ SF_vars(BetweenPolls(Finish))
    /\ \A k \in Keys : SF_vars(Poll(k))
    /\ WF_vars(Tick)

LiveSpec == Spec /\ Fairness

Shown(k) == \E h \in Handlers : \E row \in handler[h].rows :
                row.key = k /\ row.status # "collecting"

(* A key that is polled, and not cleared for ever, is again and again      *)
(* answered with the outcome of a collection or a fresh snapshot: no       *)
(* collection stays "collecting" for ever, whatever refreshes and other    *)
(* polls do.                                                               *)
CollectionCompletes ==
    <>[](\A h \in Handlers : ~handler[h].clear) => \A k \in Keys : []<>Shown(k)

ShownReady(k) == \E h \in Handlers : \E row \in handler[h].rows :
                     row.key = k /\ row.status = "ready"

(* A failed collection replaces the last good snapshot, in memory and in   *)
(* the file, and is itself fresh for the whole TTL (lines 324-347).  Still *)
(* it does not last: once collections stop failing, a key that is polled   *)
(* is again and again shown as ready, without anybody asking for a refresh.*)
FailuresHeal ==
    /\ <>[](\A h \in Handlers : ~handler[h].clear)
    /\ <>[][~\E j \in JobIds : WorkerFinish(j, FALSE)]_vars
    => \A k \in Keys : []<>ShownReady(k)

-----------------------------------------------------------------------------
(* The result of a finished collection leaves the table of jobs without    *)
(* being installed only if its key is cleared, the process dies, or a      *)
(* handler that had looked at the job before it finished replaces it: no   *)
(* result is lost that was there when a handler looked.                    *)
LostOnlyIfUnseen ==
    [][\A k \in Keys :
          (Done(jobs[k]) /\ jobs'[k] # jobs[k] /\ memory'[k] # future[jobs[k]].result)
          => \/ \E h \in Handlers : InRegion(h, "look") /\ Region(h) = k /\ handler[h].clear
             \/ \E h \in Handlers : /\ InRegion(h, "decide") /\ Region(h) = k
                                     /\ handler[h].job = jobs[k]
             \/ crashes' # crashes]_vars

(* docs/api-reference.md:102, "Completed snapshots are written": the       *)
(* result of a finished collection leaves the table of jobs only to be     *)
(* installed, unless the cache of its key is being cleared.                *)
CompletedIsInstalled ==
    [][\A k \in Keys :
          (/\ Done(jobs[k])
           /\ jobs'[k] # jobs[k]
           /\ \A h \in Handlers : ~handler[h].clear)
          => memory'[k] = future[jobs[k]].result]_vars
=============================================================================

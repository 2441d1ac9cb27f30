----------------------- MODULE TelemetryLeasesProofs -----------------------
(***************************************************************************)
(* The invariants of TelemetryLeases hold for every number of VCNs, logs   *)
(* and threads, with every fault.                                          *)
(*                                                                         *)
(* UniqueLeases is not inductive: a writing replaces the file by what was  *)
(* computed from an earlier reading, so the leases that each thread has    *)
(* loaded must be unique too, and a thread that is about to record a lease *)
(* must know its VCN and its log.                                          *)
(*                                                                         *)
(* EnabledLogsAreLeased and LeasesAreHonoured are about operations in      *)
(* order: at most one thread works, and what it knows of the file and of   *)
(* its log is up to date, or the reading failed (Ordered).  Settling       *)
(* leases then stop ingestion, but for the logs that are on record as      *)
(* unrecorded.                                                             *)
(***************************************************************************)
EXTENDS TelemetryLeases, TLAPS

Unique(leases) == \A l, m \in leases : l.vcn = m.vcn \/ l.log = m.log => l = m

(* What holds of the local variables of one thread.                        *)
Sound(th) ==
    /\ th \in Thread
    /\ Unique(th.loaded)
    /\ th.pc \in {"create", "disable", "load", "save"} => th.vcn \in Vcns
    /\ th.pc \in {"delete", "disable", "load", "save"} => th.log \in LogIds

IInv ==
    /\ TypeOK
    /\ Unique(file)
    /\ \A t \in Threads : Sound(thread[t])

(* A step that changes one thread keeps the invariant if its new local     *)
(* variables are sound.                                                    *)
LEMMA OneThread ==
    ASSUME IInv, NEW t \in Threads, NEW th, Sound(th),
           thread' = [thread EXCEPT ![t] = th]
    PROVE  /\ thread' \in [Threads -> Thread]
           /\ \A u \in Threads : Sound(thread'[u])
BY DEF IInv, TypeOK, Sound

(* An idle thread is sound.                                                *)
LEMMA IdleSound ==
    ASSUME TRUE
    PROVE  /\ Sound(Idle) /\ Sound([Idle EXCEPT !.pc = "dead"])
           /\ Sound([Idle EXCEPT !.pc = "down"])
BY MaxLeaseAssumption DEF Sound, Idle, Thread, Unique

(* What a reading of the file may return is a set of distinct leases.      *)
LEMMA LoadsUnique ==
    ASSUME IInv, NEW loaded \in Loads
    PROVE  loaded \in SUBSET Leases /\ Unique(loaded)
BY DEF IInv, TypeOK, Loads, Unique

(* Going on with the next VCN leaves a sound thread.                       *)
LEMMA NextVcnSound ==
    ASSUME IInv, NEW t \in Threads, NEW v, NextVcn(t, v)
    PROVE  /\ thread' \in [Threads -> Thread]
           /\ \A u \in Threads : Sound(thread'[u])
<1> DEFINE th == [Idle EXCEPT !.pc = "vcns", !.op = thread[t].op,
                              !.vcns = thread[t].vcns \ {v}, !.left = thread[t].left]
<1>1. thread[t] \in Thread
  BY DEF IInv, TypeOK
<1>2. Sound(th)
  BY <1>1 DEF Sound, Idle, Thread, Unique
<1>3. thread' = [thread EXCEPT ![t] = th]
  BY DEF NextVcn
<1>4. QED
  BY <1>2, <1>3, OneThread

(* Init establishes the invariant.                                         *)
LEMMA InitIInv == Init => IInv
<1>1. SUFFICES ASSUME Init PROVE IInv
  OBVIOUS
<1>2. log \in [LogIds -> Logs] /\ file \subseteq Leases /\ Unique(file)
  BY <1>1 DEF Init, Absent, Logs, Unique
<1>3. \A t \in Threads : Sound(thread[t])
  BY <1>1, IdleSound DEF Init
<1>4. thread \in [Threads -> Thread] /\ orderly \in BOOLEAN /\ unrecorded \subseteq LogIds
  BY <1>1, <1>3 DEF Init, Sound
<1>5. QED
  BY <1>2, <1>3, <1>4 DEF IInv, TypeOK

(* A sweep begins with what it has loaded.                                 *)
LEMMA BeginSweepIInv ==
    ASSUME IInv, NEW t \in Threads, NEW op \in {"sweep", "enable", "disable"},
           NEW vcns \in SUBSET Vcns, BeginSweep(t, op, vcns)
    PROVE  IInv'
<1>1. PICK loaded \in Loads :
          thread' = [thread EXCEPT ![t] =
              [Idle EXCEPT !.pc = "sweep", !.op = op, !.vcns = vcns, !.loaded = loaded,
                           !.todo = {lease \in loaded : lease.left = 0}]]
  BY DEF BeginSweep
<1> DEFINE th == [Idle EXCEPT !.pc = "sweep", !.op = op, !.vcns = vcns, !.loaded = loaded,
                              !.todo = {lease \in loaded : lease.left = 0}]
<1>2. loaded \in SUBSET Leases /\ Unique(loaded)
  BY LoadsUnique
<1>3. Sound(th)
  <2>1. {lease \in loaded : lease.left = 0} \in SUBSET Leases /\ 0 \in 0 .. MaxLease
    BY <1>2, MaxLeaseAssumption
  <2>2. /\ th.pc = "sweep" /\ th.loaded = loaded
        /\ th \in Thread
    BY <1>2, <2>1 DEF Idle, Thread
  <2>3. QED
    BY <1>2, <2>2 DEF Sound
<1>4. /\ thread' \in [Threads -> Thread]
      /\ \A u \in Threads : Sound(thread'[u])
  BY <1>1, <1>3, OneThread
<1>5. UNCHANGED <<log, file>> /\ orderly' \in BOOLEAN /\ unrecorded' \subseteq LogIds
  BY DEF BeginSweep, IInv, TypeOK
<1>6. QED
  BY <1>4, <1>5 DEF IInv, TypeOK

(* A log that is switched off is still one.                                *)
LEMMA SwitchOffType ==
    ASSUME IInv, NEW i \in LogIds, SwitchOff(i)
    PROVE  log' \in [LogIds -> Logs]
BY DEF SwitchOff, IInv, TypeOK, Logs, Exists

(* Switching a log off, or failing to, in a sweep.                         *)
LEMMA SweepDisableIInv ==
    ASSUME IInv, NEW t \in Threads, NEW lease \in thread[t].todo, NEW ok \in BOOLEAN,
           SweepDisable(t, lease, ok)
    PROVE  IInv'
<1>1. Sound(thread[t]) /\ thread[t] \in Thread /\ lease \in Leases
  BY DEF IInv, TypeOK, Thread
<1>2. UNCHANGED <<file, orderly, unrecorded>>
  BY DEF SweepDisable
<1>3. log' \in [LogIds -> Logs]
  BY <1>1, SwitchOffType DEF SweepDisable, IInv, TypeOK, Leases
<1>4. CASE ok
  <2> DEFINE th == [thread[t] EXCEPT !.pc = "delete", !.log = lease.log]
  <2>1. Sound(th)
    BY <1>1 DEF Sound, Thread, Leases
  <2>2. thread' = [thread EXCEPT ![t] = th]
    BY <1>4 DEF SweepDisable, IInv, TypeOK
  <2>3. QED
    BY <1>2, <1>3, <2>1, <2>2, OneThread DEF IInv, TypeOK
<1>5. CASE ~ok
  <2> DEFINE th == [thread[t] EXCEPT !.todo = @ \ {lease}]
  <2>1. Sound(th)
    BY <1>1 DEF Sound, Thread
  <2>2. thread' = [thread EXCEPT ![t] = th]
    BY <1>5 DEF SweepDisable, IInv, TypeOK
  <2>3. QED
    BY <1>2, <1>3, <2>1, <2>2, OneThread DEF IInv, TypeOK
<1>6. QED
  BY <1>4, <1>5

(* Deleting a log, or failing to, in a sweep.                              *)
LEMMA SweepDeleteIInv ==
    ASSUME IInv, NEW t \in Threads, NEW ok \in BOOLEAN, SweepDelete(t, ok)
    PROVE  IInv'
<1> DEFINE mine == {lease \in thread[t].todo : lease.log = thread[t].log}
<1> DEFINE th == [thread[t] EXCEPT !.pc = "sweep", !.log = NoLog, !.todo = @ \ mine,
                                   !.cleaned = IF ok THEN @ \cup mine ELSE @]
<1>1. Sound(thread[t]) /\ thread[t] \in Thread
  BY DEF IInv, TypeOK
<1>2. Sound(th)
  BY <1>1 DEF Sound, Thread
<1>3. thread' = [thread EXCEPT ![t] = th]
  BY DEF SweepDelete, IInv, TypeOK
<1>4. log' \in [LogIds -> Logs]
  <2>1. log' = [log EXCEPT ![thread[t].log] = Absent] \/ log' = log
    BY DEF SweepDelete, DeleteLog
  <2>2. Absent \in Logs /\ log \in [LogIds -> Logs]
    BY DEF Absent, Logs, IInv, TypeOK
  <2>3. QED
    BY <2>1, <2>2
<1>5. UNCHANGED <<file, orderly>> /\ unrecorded' \subseteq LogIds
  BY DEF SweepDelete, DeleteLog, IInv, TypeOK
<1>6. QED
  BY <1>2, <1>3, <1>4, <1>5, OneThread DEF IInv, TypeOK

(* A sweep writes back a part of what it has loaded.                       *)
LEMMA SweepEndIInv ==
    ASSUME IInv, NEW t \in Threads, SweepEnd(t)
    PROVE  IInv'
<1>1. Sound(thread[t]) /\ thread[t] \in Thread
  BY DEF IInv, TypeOK
<1>2. file' \subseteq Leases /\ Unique(file')
  BY <1>1 DEF SweepEnd, Pending, IInv, TypeOK, Sound, Thread, Unique
<1>3. PICK th : Sound(th) /\ thread' = [thread EXCEPT ![t] = th]
  <2>1. CASE DiskFaults /\ thread' = [thread EXCEPT ![t] =
                 IF t = Sweeper THEN [Idle EXCEPT !.pc = "dead"] ELSE Idle]
    BY <2>1, IdleSound
  <2>2. CASE \E left \in Expirations :
                thread' = [thread EXCEPT ![t] =
                    IF @.op = "sweep" THEN Idle
                    ELSE [Idle EXCEPT !.pc = "vcns", !.op = thread[t].op,
                                      !.vcns = thread[t].vcns,
                                      !.left = IF thread[t].op = "enable" THEN left ELSE 0]]
    <3>1. PICK left \in Expirations :
                thread' = [thread EXCEPT ![t] =
                    IF @.op = "sweep" THEN Idle
                    ELSE [Idle EXCEPT !.pc = "vcns", !.op = thread[t].op,
                                      !.vcns = thread[t].vcns,
                                      !.left = IF thread[t].op = "enable" THEN left ELSE 0]]
      BY <2>2
    <3> DEFINE next == [Idle EXCEPT !.pc = "vcns", !.op = thread[t].op, !.vcns = thread[t].vcns,
                                    !.left = IF thread[t].op = "enable" THEN left ELSE 0]
    <3>2. Sound(next)
      <4>1. /\ (IF thread[t].op = "enable" THEN left ELSE 0) \in 0 .. MaxLease
            /\ thread[t].op \in {"sweep", "enable", "disable"} /\ thread[t].vcns \in SUBSET Vcns
        BY <1>1, MaxLeaseAssumption DEF Expirations, Thread
      <4>2. next.pc = "vcns" /\ next.loaded = {} /\ next \in Thread
        BY <4>1 DEF Idle, Thread
      <4>3. QED
        BY <4>2 DEF Sound, Unique
    <3>3. thread' = [thread EXCEPT ![t] = IF thread[t].op = "sweep" THEN Idle ELSE next]
      BY <3>1
    <3>4. QED
      BY <3>2, <3>3, IdleSound
  <2>3. QED
    BY <2>1, <2>2 DEF SweepEnd
<1>4. UNCHANGED <<log, orderly>> /\ unrecorded' \subseteq LogIds
  BY DEF SweepEnd, Unrecorded, LogsOf, IInv, TypeOK
<1>5. QED
  BY <1>2, <1>3, <1>4, OneThread DEF IInv, TypeOK

(* Asking OCI for the log of a VCN.                                        *)
LEMMA LookupIInv ==
    ASSUME IInv, NEW t \in Threads, NEW v \in Vcns, Lookup(t, v)
    PROVE  IInv'
<1>1. Sound(thread[t]) /\ thread[t] \in Thread
  BY DEF IInv, TypeOK
<1>2. UNCHANGED <<log, file, orderly, unrecorded>>
  BY DEF Lookup
<1>3. CASE NextVcn(t, v)
  BY <1>2, <1>3, NextVcnSound DEF IInv, TypeOK
<1>4. CASE \E i \in FlowLogs(v) :
             thread' = [thread EXCEPT ![t].vcn = v, ![t].log = i,
                            ![t].pc = IF thread[t].op = "enable" THEN "load" ELSE "disable"]
  <2>1. PICK i \in FlowLogs(v) :
             thread' = [thread EXCEPT ![t].vcn = v, ![t].log = i,
                            ![t].pc = IF thread[t].op = "enable" THEN "load" ELSE "disable"]
    BY <1>4
  <2> DEFINE th == [thread[t] EXCEPT !.vcn = v, !.log = i,
                        !.pc = IF thread[t].op = "enable" THEN "load" ELSE "disable"]
  <2>2. i \in LogIds
    BY DEF FlowLogs
  <2>3. Sound(th)
    BY <1>1, <2>2 DEF Sound, Thread
  <2>4. thread' = [thread EXCEPT ![t] = th]
    BY <2>1 DEF IInv, TypeOK
  <2>5. QED
    BY <1>2, <2>3, <2>4, OneThread DEF IInv, TypeOK
<1>5. CASE thread' = [thread EXCEPT ![t].vcn = v, ![t].pc = "create"]
  <2> DEFINE th == [thread[t] EXCEPT !.vcn = v, !.pc = "create"]
  <2>1. Sound(th)
    BY <1>1 DEF Sound, Thread
  <2>2. thread' = [thread EXCEPT ![t] = th]
    BY <1>5 DEF IInv, TypeOK
  <2>3. QED
    BY <1>2, <2>1, <2>2, OneThread DEF IInv, TypeOK
<1>6. QED
  BY <1>3, <1>4, <1>5 DEF Lookup

(* Creating a log, or failing to.                                          *)
LEMMA CreateIInv ==
    ASSUME IInv, NEW t \in Threads, Create(t)
    PROVE  IInv'
<1>1. Sound(thread[t]) /\ thread[t] \in Thread /\ thread[t].vcn \in Vcns
  BY DEF IInv, TypeOK, Sound, Create, At
<1>2. UNCHANGED <<file, orderly>> /\ unrecorded' \subseteq LogIds
  BY DEF Create, Missed, Unrecorded, IInv, TypeOK
<1>3. log' \in [LogIds -> Logs]
  BY <1>1 DEF Create, IInv, TypeOK, Logs
<1>4. CASE NextVcn(t, thread[t].vcn)
  BY <1>2, <1>3, <1>4, NextVcnSound DEF IInv, TypeOK
<1>5. ASSUME NEW i \in LogIds, thread' = [thread EXCEPT ![t].pc = "load", ![t].log = i]
      PROVE  IInv'
  <2> DEFINE th == [thread[t] EXCEPT !.pc = "load", !.log = i]
  <2>1. Sound(th)
    BY <1>1 DEF Sound, Thread
  <2>2. thread' = [thread EXCEPT ![t] = th]
    BY <1>5 DEF IInv, TypeOK
  <2>3. QED
    BY <1>2, <1>3, <2>1, <2>2, OneThread DEF IInv, TypeOK
<1>6. QED
  BY <1>4, <1>5 DEF Create, Missed

(* Switching a log off on request, or failing to.                          *)
LEMMA DisableIInv ==
    ASSUME IInv, NEW t \in Threads, Disable(t)
    PROVE  IInv'
<1>1. Sound(thread[t]) /\ thread[t] \in Thread /\ thread[t].vcn \in Vcns /\ thread[t].log \in LogIds
  BY DEF IInv, TypeOK, Sound, Disable, At
<1>2. UNCHANGED <<file, orderly>> /\ unrecorded' \subseteq LogIds
  BY <1>1 DEF Disable, Missed, Unrecorded, IInv, TypeOK
<1>3. log' \in [LogIds -> Logs]
  BY <1>1, SwitchOffType DEF Disable, IInv, TypeOK
<1>4. CASE NextVcn(t, thread[t].vcn)
  BY <1>2, <1>3, <1>4, NextVcnSound DEF IInv, TypeOK
<1>5. CASE thread' = [thread EXCEPT ![t].pc = "load"]
  <2> DEFINE th == [thread[t] EXCEPT !.pc = "load"]
  <2>1. Sound(th)
    BY <1>1 DEF Sound, Thread
  <2>2. thread' = [thread EXCEPT ![t] = th]
    BY <1>5 DEF IInv, TypeOK
  <2>3. QED
    BY <1>2, <1>3, <2>1, <2>2, OneThread DEF IInv, TypeOK
<1>6. QED
  BY <1>4, <1>5 DEF Disable, Missed

(* Reading the file in order to change it.                                 *)
LEMMA LoadLeasesIInv ==
    ASSUME IInv, NEW t \in Threads, LoadLeases(t)
    PROVE  IInv'
<1>1. Sound(thread[t]) /\ thread[t] \in Thread /\ thread[t].vcn \in Vcns /\ thread[t].log \in LogIds
  BY DEF IInv, TypeOK, Sound, LoadLeases, At
<1>2. UNCHANGED <<log, file, orderly>> /\ unrecorded' \subseteq LogIds
  BY <1>1 DEF LoadLeases, Missed, Unrecorded, IInv, TypeOK
<1>3. CASE NextVcn(t, thread[t].vcn)
  BY <1>2, <1>3, NextVcnSound DEF IInv, TypeOK
<1>4. ASSUME NEW loaded \in Loads,
             thread' = [thread EXCEPT ![t].pc = "save", ![t].loaded = loaded]
      PROVE  IInv'
  <2> DEFINE th == [thread[t] EXCEPT !.pc = "save", !.loaded = loaded]
  <2>1. Sound(th)
    BY <1>1, LoadsUnique DEF Sound, Thread
  <2>2. thread' = [thread EXCEPT ![t] = th]
    BY <1>4 DEF IInv, TypeOK
  <2>3. QED
    BY <1>2, <2>1, <2>2, OneThread DEF IInv, TypeOK
<1>5. QED
  BY <1>3, <1>4 DEF LoadLeases, Missed

(* Recording or removing a lease: the leases that are kept share neither   *)
(* VCN nor log with the new one.                                           *)
LEMMA SaveLeasesIInv ==
    ASSUME IInv, NEW t \in Threads, SaveLeases(t)
    PROVE  IInv'
<1>1. Sound(thread[t]) /\ thread[t] \in Thread /\ thread[t].vcn \in Vcns /\ thread[t].log \in LogIds
  BY DEF IInv, TypeOK, Sound, SaveLeases, At
<1>2. /\ Others(t) \subseteq Leases /\ Unique(Others(t))
      /\ \A l \in Others(t) : l.vcn # thread[t].vcn /\ l.log # thread[t].log
  BY <1>1 DEF Others, Sound, Thread, Unique
<1>3. NewLease(t) \in Leases /\ NewLease(t).vcn = thread[t].vcn /\ NewLease(t).log = thread[t].log
  BY <1>1 DEF NewLease, Leases, Thread
<1>4. Others(t) \cup {NewLease(t)} \subseteq Leases /\ Unique(Others(t) \cup {NewLease(t)})
  BY <1>2, <1>3 DEF Unique
<1>5. file' \subseteq Leases /\ Unique(file')
  BY <1>2, <1>4 DEF SaveLeases, IInv, TypeOK, Unique
<1>6. UNCHANGED <<log, orderly>> /\ NextVcn(t, thread[t].vcn)
  BY DEF SaveLeases
<1>7. unrecorded' \subseteq LogIds
  BY <1>1 DEF SaveLeases, Unrecorded, LogsOf, IInv, TypeOK
<1>8. QED
  BY <1>5, <1>6, <1>7, NextVcnSound DEF IInv, TypeOK

(* Time keeps leases apart: it changes neither their VCN nor their log.    *)
LEMMA AgedUnique ==
    ASSUME NEW leases \in SUBSET Leases, Unique(leases)
    PROVE  Aged(leases) \in SUBSET Leases /\ Unique(Aged(leases))
<1>1. \A left \in 0 .. MaxLease : Sooner(left) \in 0 .. MaxLease
  BY MaxLeaseAssumption DEF Sooner
<1>2. ASSUME NEW l \in Leases
      PROVE  /\ [l EXCEPT !.left = Sooner(@)] \in Leases
             /\ [l EXCEPT !.left = Sooner(@)].vcn = l.vcn
             /\ [l EXCEPT !.left = Sooner(@)].log = l.log
  BY <1>1, <1>2 DEF Leases
<1>3. Aged(leases) \in SUBSET Leases
  BY <1>2 DEF Aged
<1>4. ASSUME NEW x \in Aged(leases), NEW y \in Aged(leases), x.vcn = y.vcn \/ x.log = y.log
      PROVE  x = y
  <2>1. PICK l \in leases : x = [l EXCEPT !.left = Sooner(@)]
    BY DEF Aged
  <2>2. PICK m \in leases : y = [m EXCEPT !.left = Sooner(@)]
    BY DEF Aged
  <2>3. l.vcn = m.vcn \/ l.log = m.log
    BY <1>2, <1>4, <2>1, <2>2
  <2>4. l = m
    BY <2>3 DEF Unique
  <2>5. QED
    BY <2>1, <2>2, <2>4
<1>5. QED
  BY <1>3, <1>4 DEF Unique

(* The wall clock advances.                                                *)
LEMMA TickIInv ==
    ASSUME IInv, Tick
    PROVE  IInv'
<1>1. file' \subseteq Leases /\ Unique(file')
  BY AgedUnique DEF Tick, IInv, TypeOK
<1>2. ASSUME NEW t \in Threads
      PROVE  Sound(thread'[t])
  <2> DEFINE th == [thread[t] EXCEPT !.left = Sooner(@), !.loaded = Aged(@)]
  <2>1. Sound(thread[t]) /\ thread[t] \in Thread
    BY DEF IInv, TypeOK
  <2>2. thread[t].loaded \in SUBSET Leases /\ Unique(thread[t].loaded)
    BY <2>1 DEF Sound, Thread
  <2>3. Aged(thread[t].loaded) \in SUBSET Leases /\ Unique(Aged(thread[t].loaded))
    BY <2>2, AgedUnique
  <2>4. Sooner(thread[t].left) \in 0 .. MaxLease
    BY <2>1, MaxLeaseAssumption DEF Sooner, Thread
  <2>5. Sound(th)
    BY <2>1, <2>3, <2>4 DEF Sound, Thread
  <2>6. thread'[t] = th
    BY DEF Tick
  <2>7. QED
    BY <2>5, <2>6
<1>3. thread' \in [Threads -> Thread]
  BY <1>2 DEF Tick, Sound
<1>4. UNCHANGED <<log, orderly, unrecorded>>
  BY DEF Tick
<1>5. QED
  BY <1>1, <1>2, <1>3, <1>4 DEF IInv, TypeOK

(* The process dies, perhaps while it writes the file.                     *)
LEMMA CrashIInv ==
    ASSUME IInv, Crash
    PROVE  IInv'
<1>1. file' \subseteq Leases /\ Unique(file') /\ log' \in [LogIds -> Logs]
  BY DEF Crash, IInv, TypeOK, Unique
<1>2. \A t \in Threads : Sound(thread'[t])
  BY IdleSound DEF Crash
<1>3. thread' \in [Threads -> Thread]
  BY <1>2 DEF Crash, Sound
<1>4. \A t \in Threads : Recording(t) => thread[t].log \in LogIds
  BY DEF IInv, Sound, Recording, At
<1>5. orderly' \in BOOLEAN /\ unrecorded' \subseteq LogIds
  BY <1>4 DEF Crash, Unrecorded, LogsOf, IInv, TypeOK
<1>6. QED
  BY <1>1, <1>2, <1>3, <1>5 DEF IInv, TypeOK

(* The invariant is inductive: it holds in every reachable state.          *)
THEOREM LeaseInvariance == Spec => []IInv
<1>1. IInv /\ [Next]_vars => IInv'
  <2>1. SUFFICES ASSUME IInv, [Next]_vars PROVE IInv'
    OBVIOUS
  <2>2. ASSUME NEW t \in Threads, Sweep(t) PROVE IInv'
    BY <2>1, <2>2, SweepDisableIInv, SweepDeleteIInv, SweepEndIInv DEF Sweep
  <2>3. ASSUME NEW t \in Requests, Request(t) PROVE IInv'
    BY <2>1, <2>3, BeginSweepIInv DEF Request, Threads
  <2>4. ASSUME NEW t \in Requests, Handle(t) PROVE IInv'
    <3>1. t \in Threads
      BY DEF Threads
    <3>2. CASE Return(t)
      <4>1. thread' = [thread EXCEPT ![t] = Idle] /\ UNCHANGED <<log, file, orderly, unrecorded>>
        BY <3>2 DEF Return
      <4>2. QED
        BY <2>1, <3>1, <4>1, IdleSound, OneThread DEF IInv, TypeOK
    <3>3. QED
      BY <2>1, <2>4, <3>1, <3>2, LookupIInv, CreateIInv, DisableIInv, LoadLeasesIInv,
         SaveLeasesIInv DEF Handle
  <2>5. CASE BeginSweep(Sweeper, "sweep", {})
    BY <2>1, <2>5, BeginSweepIInv DEF Threads
  <2>6. CASE Restart
    <3>1. \A t \in Threads : Sound(thread'[t])
      BY <2>6, IdleSound DEF Restart
    <3>2. thread' \in [Threads -> Thread] /\ UNCHANGED <<log, file, orderly, unrecorded>>
      BY <2>6, <3>1 DEF Restart, Sound
    <3>3. QED
      BY <2>1, <3>1, <3>2 DEF IInv, TypeOK
  <2>7. CASE UNCHANGED vars
    BY <2>1, <2>7 DEF vars, IInv, TypeOK
  <2>8. QED
    BY <2>1, <2>2, <2>3, <2>4, <2>5, <2>6, <2>7, TickIInv, CrashIInv DEF Next
<1>2. QED
  BY <1>1, InitIInv, PTL DEF Spec

(* The variables have their types in every reachable state.                *)
THEOREM LeaseTypes == Spec => []TypeOK
BY LeaseInvariance, PTL DEF IInv

(* The file of leases names no VCN and no Flow Log twice, whatever the     *)
(* interleaving, the faults, and where the process dies.                   *)
THEOREM LeasesAreUnique == Spec => []UniqueLeases
<1>1. IInv => UniqueLeases
  BY DEF IInv, Unique, UniqueLeases
<1>2. QED
  BY <1>1, LeaseInvariance, PTL
-----------------------------------------------------------------------------
(* EnabledLogsAreLeased and LeasesAreHonoured.  As long as no operation    *)
(* overlapped another one, at most one thread works, and what it remembers *)
(* of the file and of OCI is still true: what it loaded is the file, or    *)
(* nothing, what it swept has expired, and the log it is about to record a *)
(* lease for ingests.                                                      *)

On(lg, i) == lg[i].state = "enabled"

NoneOn(lg, v) == \A i \in LogIds : On(lg, i) => lg[i].vcn # v

Rests(th) == th.pc \in {"idle", "dead", "down"}

(* What a thread in a sweep remembers.                                     *)
SweepsRight(th, lg, fl) ==
    /\ th.loaded = fl \/ (th.todo = {} /\ th.cleaned = {})
    /\ \A l \in th.todo \cup th.cleaned : l \in th.loaded /\ l.left = 0
    /\ \A l \in th.cleaned : lg[l.log].state = "absent"
    /\ th.pc = "delete" => ~On(lg, th.log) /\ \E l \in th.todo : l.log = th.log

(* What a thread that records or removes a lease remembers.                *)
RecordsRight(th, lg) ==
    /\ lg[th.log].vcn = th.vcn /\ lg[th.log].state # "absent"
    /\ \/ th.op = "enable" /\ On(lg, th.log)
       \/ th.op = "disable" /\ ~On(lg, th.log) /\ NoneOn(lg, th.vcn)

WorksRight(th, lg, fl) ==
    /\ th.pc \in {"idle", "dead", "down", "sweep", "vcns", "create"} => th.log = NoLog
    /\ th.pc \in {"sweep", "delete"} => SweepsRight(th, lg, fl)
    /\ th.pc = "vcns" => th.op \in {"enable", "disable"}
    /\ th.pc = "create" => th.op = "enable" /\ NoneOn(lg, th.vcn)
    /\ th.pc = "disable" => th.op = "disable" /\ On(lg, th.log) /\ lg[th.log].vcn = th.vcn
    /\ th.pc \in {"load", "save"} => RecordsRight(th, lg)
    /\ th.pc = "save" => th.loaded = fl \/ th.loaded = {}

(* How the logs and the file relate.                                       *)
OneLogPerVcn(lg) ==
    \A i, j \in LogIds : On(lg, i) /\ On(lg, j) /\ lg[i].vcn = lg[j].vcn => i = j

LeasesNameVcns(lg, fl) ==
    \A l \in fl : lg[l.log].state # "absent" => lg[l.log].vcn = l.vcn

(* A log that is unrecorded is there.                                      *)
Known(lg, un) == \A i \in un : lg[i].state # "absent"

(* The two properties, for a log and for a lease.                          *)
Leased(i, lg, fl, un, ths) ==
    On(lg, i) => \/ \E l \in fl : l.log = i
                 \/ \E t \in Threads : ths[t].log = i /\ ths[t].op = "enable"
                 \/ i \in un

Honoured(l, lg, un, ths) ==
    l.left > 0 => \/ On(lg, l.log)
                  \/ \E t \in Requests : ths[t].log = l.log /\ ths[t].op = "disable"
                  \/ l.log \in un

Ordered(lg, fl, un, ths) ==
    /\ \A t, u \in Threads : ~Rests(ths[t]) /\ ~Rests(ths[u]) => t = u
    /\ \A t \in Threads : WorksRight(ths[t], lg, fl)
    /\ OneLogPerVcn(lg)
    /\ LeasesNameVcns(lg, fl)
    /\ Known(lg, un)
    /\ \A i \in LogIds : Leased(i, lg, fl, un, ths)
    /\ \A l \in fl : Honoured(l, lg, un, ths)

OInv == orderly => Ordered(log, file, unrecorded, thread)

(* The two properties, when t is the only thread that may hold a log.      *)
LeasedOr(th, lg, fl, un) ==
    \A i \in LogIds : On(lg, i) => \/ \E l \in fl : l.log = i
                                   \/ th.log = i /\ th.op = "enable"
                                   \/ i \in un

HonouredOr(t, th, lg, fl, un) ==
    \A l \in fl : l.left > 0 => \/ On(lg, l.log)
                                \/ t \in Requests /\ th.log = l.log /\ th.op = "disable"
                                \/ l.log \in un

OthersRest(t) == \A u \in Threads \ {t} : Rests(thread[u])

(* A thread that works is alone, and the only one that holds a log.        *)
LEMMA OthersHoldNoLog ==
    ASSUME Ordered(log, file, unrecorded, thread), NEW t \in Threads, OthersRest(t)
    PROVE  \A u \in Threads \ {t} : thread[u].log = NoLog
BY DEF Ordered, WorksRight, OthersRest, Rests

LEMMA WorkerAlone ==
    ASSUME Ordered(log, file, unrecorded, thread), NEW t \in Threads, ~Rests(thread[t])
    PROVE  OthersRest(t)
BY DEF Ordered, OthersRest

LEMMA Before ==
    ASSUME IInv, Ordered(log, file, unrecorded, thread), NEW t \in Threads, OthersRest(t)
    PROVE  /\ WorksRight(thread[t], log, file)
           /\ OneLogPerVcn(log)
           /\ LeasesNameVcns(log, file)
           /\ Known(log, unrecorded)
           /\ LeasedOr(thread[t], log, file, unrecorded)
           /\ HonouredOr(t, thread[t], log, file, unrecorded)
<1>1. \A u \in Threads \ {t} : thread[u].log = NoLog
  BY OthersHoldNoLog
<1>2. LeasedOr(thread[t], log, file, unrecorded)
  BY <1>1, NoLogAssumption DEF Ordered, Leased, LeasedOr
<1>3. \A l \in file : l.log \in LogIds
  BY DEF IInv, TypeOK, Leases
<1>4. HonouredOr(t, thread[t], log, file, unrecorded)
  BY <1>1, <1>3, NoLogAssumption DEF Ordered, Honoured, HonouredOr, Threads
<1>5. QED
  BY <1>2, <1>4 DEF Ordered

(* What a step of t must establish if no other thread works.               *)
LEMMA After ==
    ASSUME IInv, Ordered(log, file, unrecorded, thread), NEW t \in Threads, OthersRest(t),
           NEW th, thread' = [thread EXCEPT ![t] = th],
           WorksRight(th, log', file'), OneLogPerVcn(log'), LeasesNameVcns(log', file'),
           Known(log', unrecorded'),
           LeasedOr(th, log', file', unrecorded'), HonouredOr(t, th, log', file', unrecorded')
    PROVE  Ordered(log', file', unrecorded', thread')
<1>1. /\ thread'[t] = th
      /\ \A u \in Threads \ {t} : thread'[u] = thread[u]
  BY DEF IInv, TypeOK
<1>2. \A u \in Threads \ {t} : Rests(thread'[u]) /\ thread'[u].log = NoLog
  BY <1>1, OthersHoldNoLog DEF OthersRest
<1>3. \A u \in Threads : WorksRight(thread'[u], log', file')
  BY <1>1, <1>2 DEF WorksRight, Rests
<1>4. \A u, w \in Threads : ~Rests(thread'[u]) /\ ~Rests(thread'[w]) => u = w
  BY <1>2
<1>5. \A i \in LogIds : Leased(i, log', file', unrecorded', thread')
  BY <1>1 DEF LeasedOr, Leased
<1>6. \A l \in file' : Honoured(l, log', unrecorded', thread')
  BY <1>1 DEF HonouredOr, Honoured
<1>7. QED
  BY <1>3, <1>4, <1>5, <1>6 DEF Ordered

(* A step of t that only changes what t remembers.                         *)
LEMMA Remembers ==
    ASSUME IInv, Ordered(log, file, unrecorded, thread), NEW t \in Threads, OthersRest(t),
           NEW th, thread' = [thread EXCEPT ![t] = th],
           UNCHANGED <<log, file, unrecorded>>,
           WorksRight(th, log, file),
           LeasedOr(th, log, file, unrecorded), HonouredOr(t, th, log, file, unrecorded)
    PROVE  Ordered(log', file', unrecorded', thread')
<1>1. /\ WorksRight(th, log', file')
      /\ LeasedOr(th, log', file', unrecorded') /\ HonouredOr(t, th, log', file', unrecorded')
  OBVIOUS
<1>2. OneLogPerVcn(log') /\ LeasesNameVcns(log', file') /\ Known(log', unrecorded')
  BY Before
<1>3. QED
  BY <1>1, <1>2, After

(* A thread that holds no log is not what the two properties rest on.      *)
LEMMA NothingHeld ==
    ASSUME IInv, Ordered(log, file, unrecorded, thread), NEW t \in Threads, OthersRest(t),
           thread[t].log = NoLog, NEW th
    PROVE  LeasedOr(th, log, file, unrecorded) /\ HonouredOr(t, th, log, file, unrecorded)
<1>1. LeasedOr(thread[t], log, file, unrecorded) /\ HonouredOr(t, thread[t], log, file, unrecorded)
  BY Before
<1>2. LeasedOr(th, log, file, unrecorded)
  BY <1>1, NoLogAssumption DEF LeasedOr
<1>3. \A l \in file : l.log \in LogIds
  BY DEF IInv, TypeOK, Leases
<1>4. HonouredOr(t, th, log, file, unrecorded)
  BY <1>1, <1>3, NoLogAssumption DEF HonouredOr
<1>5. QED
  BY <1>2, <1>4

(* A sweep begins in order when no other thread works.                     *)
LEMMA BeginSweepOrdered ==
    ASSUME IInv, Ordered(log, file, unrecorded, thread), NEW t \in Threads,
           NEW op \in {"sweep", "enable", "disable"}, NEW vcns \in SUBSET Vcns,
           BeginSweep(t, op, vcns), orderly'
    PROVE  Ordered(log', file', unrecorded', thread')
<1>1. PICK loaded \in Loads :
          thread' = [thread EXCEPT ![t] =
              [Idle EXCEPT !.pc = "sweep", !.op = op, !.vcns = vcns, !.loaded = loaded,
                           !.todo = {lease \in loaded : lease.left = 0}]]
  BY DEF BeginSweep
<1> DEFINE th == [Idle EXCEPT !.pc = "sweep", !.op = op, !.vcns = vcns, !.loaded = loaded,
                              !.todo = {lease \in loaded : lease.left = 0}]
<1>2. OthersRest(t) /\ thread[t].pc = "idle" /\ UNCHANGED <<log, file, unrecorded>>
  BY DEF BeginSweep, At, Resting, OthersRest, Rests
<1>3. /\ th.pc = "sweep" /\ th.log = NoLog /\ th.loaded = loaded /\ th.cleaned = {}
      /\ th.todo = {lease \in loaded : lease.left = 0}
  BY DEF Idle
<1>4. WorksRight(th, log, file)
  BY <1>3 DEF WorksRight, SweepsRight, Loads
<1>5. thread[t].log = NoLog
  BY <1>2, Before DEF WorksRight
<1>6. QED
  BY <1>1, <1>2, <1>4, <1>5, NothingHeld, Remembers

(* What a thread may be after it tried to switch off an expired log.       *)
LEMMA SweepDisables ==
    ASSUME IInv, NEW t \in Threads, NEW lease \in thread[t].todo, NEW ok \in BOOLEAN,
           SweepDisable(t, lease, ok), thread[t].log = NoLog
    PROVE  \E th : /\ thread' = [thread EXCEPT ![t] = th]
                   /\ th.loaded = thread[t].loaded /\ th.cleaned = thread[t].cleaned
                   /\ \/ /\ ok /\ th.pc = "delete" /\ th.log = lease.log
                         /\ th.todo = thread[t].todo
                      \/ /\ ~ok /\ th.pc = "sweep" /\ th.log = NoLog
                         /\ th.todo = thread[t].todo \ {lease}
<1> DEFINE off == [thread[t] EXCEPT !.pc = "delete", !.log = lease.log]
<1> DEFINE kept == [thread[t] EXCEPT !.todo = @ \ {lease}]
<1>1. thread[t] \in Thread /\ thread[t].pc = "sweep"
  BY DEF IInv, TypeOK, SweepDisable, At
<1>2. /\ off.pc = "delete" /\ off.log = lease.log /\ off.todo = thread[t].todo
      /\ off.loaded = thread[t].loaded /\ off.cleaned = thread[t].cleaned
  BY <1>1 DEF Thread
<1>3. /\ kept.pc = "sweep" /\ kept.log = NoLog /\ kept.todo = thread[t].todo \ {lease}
      /\ kept.loaded = thread[t].loaded /\ kept.cleaned = thread[t].cleaned
  BY <1>1 DEF Thread
<1>4. IF ok THEN thread' = [thread EXCEPT ![t] = off] ELSE thread' = [thread EXCEPT ![t] = kept]
  BY DEF SweepDisable, IInv, TypeOK
<1> HIDE DEF off, kept
<1>5. QED
  BY <1>2, <1>3, <1>4

(* Switching off the log of an expired lease, with or without an answer.   *)
LEMMA SweepDisableOrdered ==
    ASSUME IInv, Ordered(log, file, unrecorded, thread), NEW t \in Threads,
           NEW lease \in thread[t].todo, NEW ok \in BOOLEAN, SweepDisable(t, lease, ok)
    PROVE  Ordered(log', file', unrecorded', thread')
<1>1. /\ thread[t] \in Thread /\ lease \in Leases /\ lease.log \in LogIds
      /\ log \in [LogIds -> Logs] /\ file \subseteq Leases /\ Unique(file)
      /\ unrecorded \subseteq LogIds
  BY DEF IInv, TypeOK, Thread, Leases
<1>2. thread[t].pc = "sweep" /\ OthersRest(t) /\ UNCHANGED <<file, unrecorded>>
  BY WorkerAlone DEF SweepDisable, At, Rests
<1>3. /\ thread[t].log = NoLog /\ SweepsRight(thread[t], log, file)
      /\ OneLogPerVcn(log) /\ LeasesNameVcns(log, file) /\ Known(log, unrecorded)
  BY <1>2, Before DEF WorksRight
<1>4. thread[t].loaded = file /\ lease \in file /\ lease.left = 0
  BY <1>3 DEF SweepsRight
<1>5. PICK th : /\ thread' = [thread EXCEPT ![t] = th]
                /\ th.loaded = thread[t].loaded /\ th.cleaned = thread[t].cleaned
                /\ \/ /\ ok /\ th.pc = "delete" /\ th.log = lease.log
                      /\ th.todo = thread[t].todo
                   \/ /\ ~ok /\ th.pc = "sweep" /\ th.log = NoLog
                      /\ th.todo = thread[t].todo \ {lease}
  BY <1>3, SweepDisables
<1>6. CASE SwitchOff(lease.log)
  <2>1. \A i \in LogIds : /\ log'[i].state = IF i = lease.log THEN "disabled" ELSE log[i].state
                          /\ Exists(i) => log'[i].vcn = log[i].vcn
    BY <1>1, <1>6 DEF SwitchOff, Exists, Logs
  <2>2. Exists(lease.log)
    BY <1>6 DEF SwitchOff
  <2>3. SweepsRight(th, log', file')
    <3>1. \A l \in th.cleaned : l.log \in LogIds /\ log[l.log].state = "absent"
      BY <1>1, <1>3, <1>5 DEF SweepsRight, Thread, Leases
    <3>2. \A l \in th.cleaned : log'[l.log].state = "absent"
      BY <2>1, <2>2, <3>1 DEF Exists
    <3>3. th.pc = "delete" => ~On(log', th.log) /\ lease \in th.todo /\ lease.log = th.log
      BY <1>1, <1>5, <2>1 DEF On
    <3>4. QED
      BY <1>2, <1>3, <1>4, <1>5, <3>2, <3>3 DEF SweepsRight
  <2>4. WorksRight(th, log', file')
    BY <1>5, <2>3 DEF WorksRight
  <2>5. OneLogPerVcn(log') /\ Known(log', unrecorded')
    BY <1>1, <1>2, <1>3, <2>1 DEF OneLogPerVcn, On, Exists, Known
  <2>6. LeasesNameVcns(log', file')
    BY <1>1, <1>2, <1>3, <2>1, <2>2 DEF LeasesNameVcns, Exists, Leases
  <2>7. LeasedOr(th, log', file', unrecorded')
    <3>1. LeasedOr(th, log, file, unrecorded)
      BY <1>2, <1>3, NothingHeld
    <3>2. QED
      BY <1>2, <2>1, <3>1 DEF LeasedOr, On
  <2>8. HonouredOr(t, th, log', file', unrecorded')
    <3>1. \A l \in file : l.left > 0 => l.log # lease.log /\ l.log \in LogIds
      BY <1>1, <1>4 DEF Unique, Leases
    <3>2. HonouredOr(t, Idle, log, file, unrecorded)
      BY <1>2, <1>3, NothingHeld
    <3>3. \A l \in file : l.left > 0 => On(log, l.log) \/ l.log \in unrecorded
      BY <3>1, <3>2, NoLogAssumption DEF HonouredOr, Idle
    <3>4. QED
      BY <1>2, <2>1, <3>1, <3>3 DEF HonouredOr, On
  <2>9. QED
    BY <1>2, <1>5, <2>4, <2>5, <2>6, <2>7, <2>8, After
<1>7. CASE ~ok /\ UNCHANGED log
  <2>1. WorksRight(th, log, file)
    BY <1>3, <1>4, <1>5, <1>7 DEF WorksRight, SweepsRight
  <2>2. QED
    BY <1>2, <1>3, <1>5, <1>7, <2>1, NothingHeld, Remembers
<1>8. QED
  BY <1>6, <1>7 DEF SweepDisable

(* Deleting the log of an expired lease, with or without an answer.        *)
LEMMA SweepDeleteOrdered ==
    ASSUME IInv, Ordered(log, file, unrecorded, thread), NEW t \in Threads, NEW ok \in BOOLEAN,
           SweepDelete(t, ok)
    PROVE  Ordered(log', file', unrecorded', thread')
<1> DEFINE gone == thread[t].log
<1> DEFINE mine == {lease \in thread[t].todo : lease.log = gone}
<1> DEFINE th == [thread[t] EXCEPT !.pc = "sweep", !.log = NoLog, !.todo = @ \ mine,
                                   !.cleaned = IF ok THEN @ \cup mine ELSE @]
<1>1. /\ thread[t].pc = "delete" /\ OthersRest(t) /\ file' = file
      /\ thread' = [thread EXCEPT ![t] = th]
  BY WorkerAlone DEF SweepDelete, At, Rests, IInv, TypeOK
<1>2. /\ Sound(thread[t]) /\ thread[t] \in Thread /\ gone \in LogIds
      /\ log \in [LogIds -> Logs] /\ file \subseteq Leases /\ Unique(file)
      /\ unrecorded \subseteq LogIds
  BY <1>1 DEF IInv, TypeOK, Sound
<1>3. /\ SweepsRight(thread[t], log, file) /\ OneLogPerVcn(log) /\ LeasesNameVcns(log, file)
      /\ LeasedOr(thread[t], log, file, unrecorded)
      /\ HonouredOr(t, thread[t], log, file, unrecorded) /\ Known(log, unrecorded)
  BY <1>1, Before DEF WorksRight
<1>4. PICK lease \in thread[t].todo : lease.log = gone
  BY <1>1, <1>3 DEF SweepsRight
<1>5. thread[t].loaded = file /\ lease \in file /\ lease.left = 0 /\ ~On(log, gone)
  BY <1>1, <1>3, <1>4 DEF SweepsRight
<1>6. /\ th.pc = "sweep" /\ th.log = NoLog /\ th.loaded = file /\ th.todo = thread[t].todo \ mine
      /\ th.cleaned = IF ok THEN thread[t].cleaned \cup mine ELSE thread[t].cleaned
  BY <1>2, <1>5 DEF Thread
<1>7. /\ \/ log' = log /\ unrecorded' = unrecorded
         \/ log' = [log EXCEPT ![gone] = Absent] /\ unrecorded' = unrecorded \ {gone}
      /\ ok => log' = [log EXCEPT ![gone] = Absent]
  BY DEF SweepDelete, DeleteLog
<1>8. /\ \A i \in LogIds : log'[i] = log[i] \/ (i = gone /\ log'[i] = Absent)
      /\ ok => log'[gone] = Absent
  BY <1>2, <1>7
<1> HIDE DEF th
<1>9. SweepsRight(th, log', file')
  <2>1. \A l \in thread[t].cleaned : l.log \in LogIds /\ log[l.log].state = "absent"
    BY <1>2, <1>3 DEF SweepsRight, Thread, Leases
  <2>2. \A l \in th.cleaned : log'[l.log].state = "absent"
    BY <1>2, <1>6, <1>8, <2>1 DEF Absent
  <2>3. QED
    BY <1>1, <1>3, <1>6, <2>2 DEF SweepsRight
<1>10. WorksRight(th, log', file')
  BY <1>6, <1>9 DEF WorksRight
<1>11. OneLogPerVcn(log') /\ Known(log', unrecorded')
  BY <1>2, <1>3, <1>7 DEF OneLogPerVcn, On, Absent, Known
<1>12. LeasesNameVcns(log', file')
  BY <1>1, <1>2, <1>3, <1>8 DEF LeasesNameVcns, Absent, Leases
<1>13. LeasedOr(th, log', file', unrecorded')
  BY <1>1, <1>3, <1>5, <1>7, <1>8 DEF LeasedOr, On, Absent
<1>14. HonouredOr(t, th, log', file', unrecorded')
  <2>1. \A l \in file : l.left > 0 => l.log # gone /\ l.log \in LogIds
    BY <1>2, <1>4, <1>5 DEF Unique, Leases
  <2>2. QED
    BY <1>1, <1>3, <1>7, <1>8, <2>1 DEF HonouredOr, On
<1>15. QED
  BY <1>1, <1>10, <1>11, <1>12, <1>13, <1>14, After

(* A writing that is cut short drops leases of logs that are gone, or that *)
(* are now on record as unrecorded.                                        *)
LEMMA LossesAreKnown ==
    ASSUME IInv, NEW lost \in Losses
    PROVE  /\ lost \subseteq file
           /\ \A l \in lost : l.log \in LogsOf(lost) \/ log[l.log].state = "absent"
           /\ Known(log, LogsOf(lost))
BY DEF Losses, LogsOf, Exists, Known, IInv, TypeOK, Leases

(* The end of a sweep: what it drops are leases of logs that are gone, or  *)
(* that are unrecorded from now on.                                        *)
LEMMA SweepEndOrdered ==
    ASSUME IInv, Ordered(log, file, unrecorded, thread), NEW t \in Threads, SweepEnd(t), orderly
    PROVE  Ordered(log', file', unrecorded', thread')
<1>1. thread[t].pc = "sweep" /\ OthersRest(t) /\ log' = log
  BY WorkerAlone DEF SweepEnd, At, Rests
<1>2. /\ thread[t] \in Thread /\ file \subseteq Leases
  BY DEF IInv, TypeOK
<1>3. /\ thread[t].log = NoLog /\ SweepsRight(thread[t], log, file)
      /\ OneLogPerVcn(log) /\ LeasesNameVcns(log, file) /\ Known(log, unrecorded)
  BY <1>1, Before DEF WorksRight
<1>4. /\ file' \subseteq file /\ unrecorded \subseteq unrecorded' /\ Known(log, unrecorded')
      /\ \A l \in file \ file' : log[l.log].state = "absent" \/ l.log \in unrecorded'
  <2>1. CASE file' = (IF thread[t].cleaned = {} THEN file ELSE Pending(t)) /\ UNCHANGED unrecorded
    BY <1>3, <2>1 DEF Pending, SweepsRight
  <2>2. ASSUME NEW lost \in Losses, file' = file \ lost, Unrecorded(unrecorded \cup LogsOf(lost))
        PROVE  /\ file' \subseteq file /\ unrecorded \subseteq unrecorded' /\ Known(log, unrecorded')
               /\ \A l \in file \ file' : log[l.log].state = "absent" \/ l.log \in unrecorded'
    BY <1>3, <2>2, LossesAreKnown DEF Unrecorded, Known
  <2>3. QED
    BY <2>1, <2>2 DEF SweepEnd
<1>5. PICK th : /\ thread' = [thread EXCEPT ![t] = th]
                /\ th.log = NoLog
                /\ \/ th.pc \in {"idle", "dead"}
                   \/ th.pc = "vcns" /\ th.op \in {"enable", "disable"}
  <2>1. CASE DiskFaults /\ thread' = [thread EXCEPT ![t] =
                 IF t = Sweeper THEN [Idle EXCEPT !.pc = "dead"] ELSE Idle]
    <3>1. /\ Idle.log = NoLog /\ Idle.pc = "idle"
          /\ [Idle EXCEPT !.pc = "dead"].log = NoLog /\ [Idle EXCEPT !.pc = "dead"].pc = "dead"
      BY DEF Idle
    <3>2. CASE t = Sweeper
      BY <2>1, <3>1, <3>2
    <3>3. CASE t # Sweeper
      BY <2>1, <3>1, <3>3
    <3>4. QED
      BY <3>2, <3>3
  <2>2. ASSUME NEW left \in Expirations,
               thread' = [thread EXCEPT ![t] =
                   IF @.op = "sweep" THEN Idle
                   ELSE [Idle EXCEPT !.pc = "vcns", !.op = thread[t].op,
                                     !.vcns = thread[t].vcns,
                                     !.left = IF thread[t].op = "enable" THEN left ELSE 0]]
        PROVE  \E th : /\ thread' = [thread EXCEPT ![t] = th]
                       /\ th.log = NoLog
                       /\ \/ th.pc \in {"idle", "dead"}
                          \/ th.pc = "vcns" /\ th.op \in {"enable", "disable"}
    <3> DEFINE next == [Idle EXCEPT !.pc = "vcns", !.op = thread[t].op, !.vcns = thread[t].vcns,
                                    !.left = IF thread[t].op = "enable" THEN left ELSE 0]
    <3>1. thread' = [thread EXCEPT ![t] = IF thread[t].op = "sweep" THEN Idle ELSE next]
      BY <2>2
    <3>2. next.log = NoLog /\ next.pc = "vcns" /\ next.op = thread[t].op
      BY DEF Idle
    <3>3. thread[t].op \in {"sweep", "enable", "disable"}
      BY <1>2 DEF Thread
    <3>4. Idle.log = NoLog /\ Idle.pc = "idle"
      BY DEF Idle
    <3>5. CASE thread[t].op = "sweep"
      BY <3>1, <3>4, <3>5
    <3>6. CASE thread[t].op # "sweep"
      BY <3>1, <3>2, <3>3, <3>6
    <3>7. QED
      BY <3>5, <3>6
  <2>3. QED
    BY <2>1, <2>2 DEF SweepEnd
<1>6. WorksRight(th, log', file')
  BY <1>5 DEF WorksRight
<1>7. LeasedOr(th, log', file', unrecorded')
  <2>1. LeasedOr(th, log, file, unrecorded)
    BY <1>1, <1>3, NothingHeld
  <2>2. QED
    BY <1>1, <1>4, <2>1 DEF LeasedOr, On
<1>8. HonouredOr(t, th, log', file', unrecorded')
  <2>1. HonouredOr(t, th, log, file, unrecorded)
    BY <1>1, <1>3, NothingHeld
  <2>2. QED
    BY <1>1, <1>4, <2>1 DEF HonouredOr
<1>9. LeasesNameVcns(log', file') /\ OneLogPerVcn(log') /\ Known(log', unrecorded')
  BY <1>1, <1>3, <1>4 DEF LeasesNameVcns
<1>10. QED
  BY <1>1, <1>5, <1>6, <1>7, <1>8, <1>9, After

(* Going on with the next VCN is in order if the file and the logs are.    *)
LEMMA NextVcnOrdered ==
    ASSUME IInv, Ordered(log, file, unrecorded, thread), NEW t \in Threads, OthersRest(t),
           NEW v, NextVcn(t, v), thread[t].op \in {"enable", "disable"},
           OneLogPerVcn(log'), LeasesNameVcns(log', file'), Known(log', unrecorded'),
           \A i \in LogIds : On(log', i) => i \in unrecorded' \/ \E l \in file' : l.log = i,
           \A l \in file' : l.left > 0 => On(log', l.log) \/ l.log \in unrecorded'
    PROVE  Ordered(log', file', unrecorded', thread')
<1> DEFINE th == [Idle EXCEPT !.pc = "vcns", !.op = thread[t].op,
                              !.vcns = thread[t].vcns \ {v}, !.left = thread[t].left]
<1>1. th.pc = "vcns" /\ th.op = thread[t].op /\ th.log = NoLog
  BY DEF Idle
<1>2. thread' = [thread EXCEPT ![t] = th]
  BY DEF NextVcn
<1>3. WorksRight(th, log', file')
  BY <1>1 DEF WorksRight
<1>4. LeasedOr(th, log', file', unrecorded') /\ HonouredOr(t, th, log', file', unrecorded')
  BY DEF LeasedOr, HonouredOr
<1>5. QED
  BY <1>2, <1>3, <1>4, After

(* A request that gives up a VCN leaves everything in order, unless it has *)
(* a log without a lease in hand.                                          *)
LEMMA GivesUpOrdered ==
    ASSUME IInv, Ordered(log, file, unrecorded, thread), NEW t \in Threads,
           thread[t].pc \in {"vcns", "create", "disable"},
           NEW v, NextVcn(t, v), UNCHANGED <<log, file, unrecorded>>
    PROVE  Ordered(log', file', unrecorded', thread')
<1>1. OthersRest(t)
  BY WorkerAlone DEF Rests
<1>2. /\ WorksRight(thread[t], log, file) /\ OneLogPerVcn(log) /\ LeasesNameVcns(log, file)
      /\ Known(log, unrecorded)
      /\ LeasedOr(thread[t], log, file, unrecorded) /\ HonouredOr(t, thread[t], log, file, unrecorded)
  BY <1>1, Before
<1>3. /\ thread[t].op \in {"enable", "disable"}
      /\ \/ thread[t].log = NoLog
         \/ thread[t].op = "disable" /\ On(log, thread[t].log)
  BY <1>2 DEF WorksRight
<1>4. \A i \in LogIds : On(log, i) => i \in unrecorded \/ \E l \in file : l.log = i
  BY <1>2, <1>3, NoLogAssumption DEF LeasedOr
<1>5. \A l \in file : l.log \in LogIds
  BY DEF IInv, TypeOK, Leases
<1>6. \A l \in file : l.left > 0 => On(log, l.log) \/ l.log \in unrecorded
  BY <1>2, <1>3, <1>5, NoLogAssumption DEF HonouredOr
<1>7. QED
  BY <1>1, <1>2, <1>3, <1>4, <1>6, NextVcnOrdered

(* Asking OCI for the log of a VCN.                                        *)
LEMMA LookupOrdered ==
    ASSUME IInv, Ordered(log, file, unrecorded, thread), NEW t \in Threads, NEW v \in Vcns, Lookup(t, v)
    PROVE  Ordered(log', file', unrecorded', thread')
<1>1. thread[t].pc = "vcns" /\ OthersRest(t) /\ UNCHANGED <<log, file, unrecorded>>
  BY WorkerAlone DEF Lookup, At, Rests
<1>2. thread[t].log = NoLog /\ thread[t].op \in {"enable", "disable"}
  BY <1>1, Before DEF WorksRight
<1>3. thread[t] \in Thread /\ thread \in [Threads -> Thread]
  BY DEF IInv, TypeOK
<1>4. CASE NextVcn(t, v)
  BY <1>1, <1>4, GivesUpOrdered
<1>5. ASSUME NEW i \in FlowLogs(v),
             thread' = [thread EXCEPT ![t].vcn = v, ![t].log = i,
                            ![t].pc = IF thread[t].op = "enable" THEN "load" ELSE "disable"]
      PROVE  Ordered(log', file', unrecorded', thread')
  <2> DEFINE th == [thread[t] EXCEPT !.vcn = v, !.log = i,
                        !.pc = IF thread[t].op = "enable" THEN "load" ELSE "disable"]
  <2>1. thread' = [thread EXCEPT ![t] = th]
    BY <1>3, <1>5
  <2>2. On(log, i) /\ log[i].vcn = v
    BY DEF FlowLogs, IsEnabled, On
  <2>3. /\ th.vcn = v /\ th.log = i /\ th.op = thread[t].op
        /\ th.pc = IF thread[t].op = "enable" THEN "load" ELSE "disable"
    BY <1>3 DEF Thread
  <2>4. WorksRight(th, log, file)
    <3>1. log[i].vcn = v /\ log[i].state # "absent"
      BY <2>2 DEF On
    <3>2. CASE thread[t].op = "enable"
      BY <2>2, <2>3, <3>1, <3>2 DEF WorksRight, RecordsRight
    <3>3. CASE thread[t].op = "disable"
      BY <2>2, <2>3, <3>1, <3>3 DEF WorksRight
    <3>4. QED
      BY <1>2, <3>2, <3>3
  <2>5. QED
    BY <1>1, <1>2, <2>1, <2>4, NothingHeld, Remembers
<1>6. CASE /\ FlowLogs(v) = {} /\ thread[t].op = "enable"
           /\ thread' = [thread EXCEPT ![t].vcn = v, ![t].pc = "create"]
  <2> DEFINE th == [thread[t] EXCEPT !.vcn = v, !.pc = "create"]
  <2>1. thread' = [thread EXCEPT ![t] = th]
    BY <1>3, <1>6
  <2>2. /\ th.vcn = v /\ th.log = NoLog /\ th.op = "enable" /\ th.pc = "create"
    BY <1>2, <1>3, <1>6 DEF Thread
  <2>3. NoneOn(log, v)
    BY <1>6 DEF FlowLogs, IsEnabled, NoneOn, On
  <2>4. WorksRight(th, log, file)
    BY <2>2, <2>3 DEF WorksRight
  <2>5. QED
    BY <1>1, <1>2, <2>1, <2>4, NothingHeld, Remembers
<1>7. QED
  BY <1>4, <1>5, <1>6 DEF Lookup

(* Creating the log of a VCN that has none, with or without an answer.     *)
LEMMA CreateOrdered ==
    ASSUME IInv, Ordered(log, file, unrecorded, thread), NEW t \in Threads, Create(t), orderly
    PROVE  Ordered(log', file', unrecorded', thread')
<1>1. thread[t].pc = "create" /\ OthersRest(t) /\ file' = file
  BY WorkerAlone DEF Create, At, Rests
<1>2. /\ thread[t].log = NoLog /\ thread[t].op = "enable" /\ NoneOn(log, thread[t].vcn)
      /\ OneLogPerVcn(log) /\ LeasesNameVcns(log, file) /\ Known(log, unrecorded)
  BY <1>1, Before DEF WorksRight
<1>3. /\ thread[t] \in Thread /\ thread \in [Threads -> Thread] /\ thread[t].vcn \in Vcns
      /\ log \in [LogIds -> Logs] /\ file \subseteq Leases /\ unrecorded \subseteq LogIds
  BY <1>1 DEF IInv, TypeOK, Sound
<1>4. CASE NextVcn(t, thread[t].vcn) /\ UNCHANGED <<log, unrecorded>>
  BY <1>1, <1>4, GivesUpOrdered
<1>5. ASSUME NEW i \in LogIds, Free(i),
             log' = [log EXCEPT ![i] = [state |-> "enabled", vcn |-> thread[t].vcn]],
             \/ /\ thread' = [thread EXCEPT ![t].pc = "load", ![t].log = i]
                /\ UNCHANGED unrecorded
             \/ Missed(t, i)
      PROVE  Ordered(log', file', unrecorded', thread')
  <2>1. /\ log'[i].state = "enabled" /\ log'[i].vcn = thread[t].vcn
        /\ \A j \in LogIds \ {i} : log'[j] = log[j]
        /\ log[i].state = "absent" /\ \A l \in file : l.log # i /\ l.log \in LogIds
    BY <1>3, <1>5 DEF Free, Exists, Leases
  <2>2. OneLogPerVcn(log')
    BY <1>2, <2>1 DEF OneLogPerVcn, NoneOn, On
  <2>3. LeasesNameVcns(log', file')
    BY <1>1, <1>2, <2>1 DEF LeasesNameVcns
  <2>4. Known(log', unrecorded) /\ Known(log', unrecorded \cup {i})
    BY <1>2, <1>3, <2>1 DEF Known
  <2>5. HonouredOr(t, Idle, log, file, unrecorded) /\ LeasedOr(Idle, log, file, unrecorded)
    BY <1>1, <1>2, NothingHeld
  <2>6. \A j \in LogIds \ {i} : On(log', j) => j \in unrecorded \/ \E l \in file : l.log = j
    BY <2>1, <2>5, NoLogAssumption DEF LeasedOr, On, Idle
  <2>7. \A l \in file : l.left > 0 => On(log', l.log) \/ l.log \in unrecorded
    BY <2>1, <2>5, NoLogAssumption DEF HonouredOr, On, Idle
  <2>8. CASE thread' = [thread EXCEPT ![t].pc = "load", ![t].log = i] /\ UNCHANGED unrecorded
    <3> DEFINE th == [thread[t] EXCEPT !.pc = "load", !.log = i]
    <3>1. thread' = [thread EXCEPT ![t] = th]
      BY <1>3, <2>8
    <3>2. /\ th.pc = "load" /\ th.log = i /\ th.op = "enable" /\ th.vcn = thread[t].vcn
      BY <1>2, <1>3 DEF Thread
    <3>3. WorksRight(th, log', file')
      BY <2>1, <3>2 DEF WorksRight, RecordsRight, On
    <3>4. LeasedOr(th, log', file', unrecorded')
      BY <1>1, <2>6, <2>8, <3>2 DEF LeasedOr
    <3>5. HonouredOr(t, th, log', file', unrecorded')
      BY <1>1, <2>7, <2>8 DEF HonouredOr
    <3>6. QED
      BY <1>1, <2>2, <2>3, <2>4, <2>8, <3>1, <3>3, <3>4, <3>5, After
  <2>9. CASE Missed(t, i)
    <3>1. NextVcn(t, thread[t].vcn) /\ unrecorded' = unrecorded \cup {i}
      BY <2>9 DEF Missed, Unrecorded
    <3>2. QED
      BY <1>1, <1>2, <2>2, <2>3, <2>4, <2>6, <2>7, <3>1, NextVcnOrdered
  <2>10. QED
    BY <1>5, <2>8, <2>9
<1>6. QED
  BY <1>4, <1>5 DEF Create

(* Switching off the log of a VCN on request: no other log of the VCN is   *)
(* on, and only the lease that is about to be dropped loses its log.  If   *)
(* the answer is lost, the log is unrecorded.                              *)
LEMMA DisableOrdered ==
    ASSUME IInv, Ordered(log, file, unrecorded, thread), NEW t \in Requests, Disable(t), orderly
    PROVE  Ordered(log', file', unrecorded', thread')
<1> DEFINE off == thread[t].log
<1>1. /\ t \in Threads /\ thread[t].pc = "disable" /\ OthersRest(t) /\ file' = file
  BY WorkerAlone DEF Disable, At, Rests, Threads
<1>2. /\ thread[t].op = "disable" /\ On(log, off) /\ log[off].vcn = thread[t].vcn
      /\ OneLogPerVcn(log) /\ LeasesNameVcns(log, file) /\ Known(log, unrecorded)
      /\ LeasedOr(thread[t], log, file, unrecorded)
      /\ HonouredOr(t, thread[t], log, file, unrecorded)
  BY <1>1, Before DEF WorksRight
<1>3. /\ thread[t] \in Thread /\ thread \in [Threads -> Thread] /\ off \in LogIds
      /\ log \in [LogIds -> Logs] /\ file \subseteq Leases /\ unrecorded \subseteq LogIds
  BY <1>1 DEF IInv, TypeOK, Sound
<1>4. CASE NextVcn(t, thread[t].vcn) /\ UNCHANGED <<log, unrecorded>>
  BY <1>1, <1>4, GivesUpOrdered
<1>5. CASE /\ SwitchOff(off)
           /\ \/ thread' = [thread EXCEPT ![t].pc = "load"] /\ UNCHANGED unrecorded
              \/ Missed(t, off)
  <2>1. \A i \in LogIds : /\ log'[i].state = IF i = off THEN "disabled" ELSE log[i].state
                          /\ Exists(i) => log'[i].vcn = log[i].vcn
    BY <1>3, <1>5 DEF SwitchOff, Exists, Logs
  <2>2. NoneOn(log', thread[t].vcn) /\ ~On(log', off)
    BY <1>2, <1>3, <2>1 DEF NoneOn, On, OneLogPerVcn, Exists
  <2>3. OneLogPerVcn(log')
    BY <1>2, <2>1 DEF OneLogPerVcn, On, Exists
  <2>4. log'[off].vcn = thread[t].vcn /\ log'[off].state # "absent"
    BY <1>2, <1>3, <1>5, <2>1 DEF SwitchOff
  <2>5. Known(log', unrecorded) /\ Known(log', unrecorded \cup {off})
    BY <1>2, <1>3, <2>1, <2>4 DEF Known
  <2>6. LeasesNameVcns(log', file')
    BY <1>1, <1>2, <1>3, <1>5, <2>1 DEF LeasesNameVcns, Exists, Leases, SwitchOff
  <2>7. CASE thread' = [thread EXCEPT ![t].pc = "load"] /\ UNCHANGED unrecorded
    <3> DEFINE th == [thread[t] EXCEPT !.pc = "load"]
    <3>1. thread' = [thread EXCEPT ![t] = th]
      BY <1>1, <1>3, <2>7
    <3>2. /\ th.pc = "load" /\ th.log = off /\ th.op = "disable" /\ th.vcn = thread[t].vcn
      BY <1>2, <1>3 DEF Thread
    <3>3. WorksRight(th, log', file')
      BY <2>2, <2>4, <3>2 DEF WorksRight, RecordsRight
    <3>4. LeasedOr(th, log', file', unrecorded')
      BY <1>1, <1>2, <2>1, <2>7 DEF LeasedOr, On
    <3>5. HonouredOr(t, th, log', file', unrecorded')
      BY <1>1, <1>2, <1>3, <2>1, <2>7, <3>2 DEF HonouredOr, On, Leases
    <3>6. QED
      BY <1>1, <2>3, <2>5, <2>6, <2>7, <3>1, <3>3, <3>4, <3>5, After
  <2>8. CASE Missed(t, off)
    <3>1. NextVcn(t, thread[t].vcn) /\ unrecorded' = unrecorded \cup {off}
      BY <2>8 DEF Missed, Unrecorded
    <3>2. \A i \in LogIds : On(log', i) => i \in unrecorded \/ \E l \in file : l.log = i
      BY <1>2, <2>1 DEF LeasedOr, On
    <3>3. \A l \in file : l.left > 0 => On(log', l.log) \/ l.log \in unrecorded \cup {off}
      BY <1>2, <1>3, <2>1 DEF HonouredOr, On, Leases
    <3>4. QED
      BY <1>1, <1>2, <2>3, <2>5, <2>6, <3>1, <3>2, <3>3, NextVcnOrdered
  <2>9. QED
    BY <1>5, <2>7, <2>8
<1>6. QED
  BY <1>4, <1>5 DEF Disable

(* Reading the file to record or to remove a lease, or giving up because   *)
(* the answer named no log.                                                *)
LEMMA LoadLeasesOrdered ==
    ASSUME IInv, Ordered(log, file, unrecorded, thread), NEW t \in Threads, LoadLeases(t), orderly
    PROVE  Ordered(log', file', unrecorded', thread')
<1>1. thread[t].pc = "load" /\ OthersRest(t) /\ UNCHANGED <<log, file>>
  BY WorkerAlone DEF LoadLeases, At, Rests
<1>2. /\ RecordsRight(thread[t], log)
      /\ OneLogPerVcn(log) /\ LeasesNameVcns(log, file) /\ Known(log, unrecorded)
      /\ LeasedOr(thread[t], log, file, unrecorded)
      /\ HonouredOr(t, thread[t], log, file, unrecorded)
  BY <1>1, Before DEF WorksRight
<1>3. thread[t] \in Thread /\ thread \in [Threads -> Thread]
  BY DEF IInv, TypeOK
<1>4. ASSUME NEW loaded \in Loads, UNCHANGED unrecorded,
             thread' = [thread EXCEPT ![t].pc = "save", ![t].loaded = loaded]
      PROVE  Ordered(log', file', unrecorded', thread')
  <2> DEFINE th == [thread[t] EXCEPT !.pc = "save", !.loaded = loaded]
  <2>1. thread' = [thread EXCEPT ![t] = th]
    BY <1>3, <1>4
  <2>2. /\ th.pc = "save" /\ th.loaded = loaded /\ th.log = thread[t].log
        /\ th.op = thread[t].op /\ th.vcn = thread[t].vcn
    BY <1>3 DEF Thread
  <2>3. loaded = file \/ loaded = {}
    BY DEF Loads
  <2>4. WorksRight(th, log, file)
    BY <1>2, <2>2, <2>3 DEF WorksRight, RecordsRight
  <2>5. LeasedOr(th, log, file, unrecorded) /\ HonouredOr(t, th, log, file, unrecorded)
    BY <1>2, <2>2 DEF LeasedOr, HonouredOr
  <2>6. QED
    BY <1>1, <1>4, <2>1, <2>4, <2>5, Remembers
<1>5. CASE thread[t].op = "enable" /\ Missed(t, thread[t].log)
  <2>1. NextVcn(t, thread[t].vcn) /\ unrecorded' = unrecorded \cup {thread[t].log}
    BY <1>5 DEF Missed, Unrecorded
  <2>2. Known(log, unrecorded')
    BY <1>2, <2>1 DEF Known, RecordsRight
  <2>3. \A i \in LogIds : On(log, i) => i \in unrecorded' \/ \E l \in file : l.log = i
    BY <1>2, <2>1 DEF LeasedOr
  <2>4. \A l \in file : l.left > 0 => On(log, l.log) \/ l.log \in unrecorded'
    BY <1>2, <1>5, <2>1 DEF HonouredOr
  <2>5. QED
    BY <1>1, <1>2, <1>5, <2>1, <2>2, <2>3, <2>4, NextVcnOrdered
<1>6. QED
  BY <1>4, <1>5 DEF LoadLeases

(* Writing the file: the leases that are dropped are those of the VCN and  *)
(* of the log, which no log but the one in hand needs, or, if the reading  *)
(* or the writing fails, those of logs that are unrecorded from now on.    *)
LEMMA SaveLeasesOrdered ==
    ASSUME IInv, Ordered(log, file, unrecorded, thread), NEW t \in Requests, SaveLeases(t), orderly
    PROVE  Ordered(log', file', unrecorded', thread')
<1> DEFINE v == thread[t].vcn
<1> DEFINE mine == thread[t].log
<1>1. /\ t \in Threads /\ thread[t].pc = "save" /\ OthersRest(t) /\ log' = log
      /\ NextVcn(t, v)
  BY WorkerAlone DEF SaveLeases, At, Rests, Threads
<1>2. /\ RecordsRight(thread[t], log) /\ (thread[t].loaded = file \/ thread[t].loaded = {})
      /\ OneLogPerVcn(log) /\ LeasesNameVcns(log, file) /\ Known(log, unrecorded)
      /\ LeasedOr(thread[t], log, file, unrecorded)
      /\ HonouredOr(t, thread[t], log, file, unrecorded)
  BY <1>1, Before DEF WorksRight
<1>3. /\ mine \in LogIds /\ v \in Vcns /\ file \subseteq Leases
      /\ thread[t].op \in {"enable", "disable"} /\ log[mine].state # "absent"
  BY <1>1, <1>2 DEF IInv, TypeOK, Sound, RecordsRight
<1>4. CASE /\ file' = Others(t) \cup (IF thread[t].op = "enable" THEN {NewLease(t)} ELSE {})
           /\ unrecorded' = (unrecorded \cup LogsOf(file \ thread[t].loaded)) \ {mine}
  <2>1. NewLease(t).log = mine /\ NewLease(t).vcn = v
    BY DEF NewLease
  <2>2. \A l \in file' : l \in Others(t) \/ (thread[t].op = "enable" /\ l = NewLease(t))
    BY <1>4
  <2>3. \A l \in Others(t) : l \in file /\ l.log # mine /\ l.vcn # v
    BY <1>2 DEF Others
  <2>4. ASSUME NEW i \in LogIds, On(log, i), i # mine
        PROVE  i \in unrecorded' \/ \E l \in Others(t) : l.log = i
    <3>1. CASE i \in unrecorded
      BY <1>4, <2>4, <3>1
    <3>2. CASE i \notin unrecorded
      <4>1. PICK l \in file : l.log = i
        BY <1>2, <2>4, <3>2 DEF LeasedOr
      <4>2. CASE thread[t].loaded = {}
        BY <1>4, <2>4, <4>1, <4>2 DEF LogsOf, Exists, On
      <4>3. CASE thread[t].loaded = file
        <5>1. log[i].vcn = l.vcn
          BY <1>2, <2>4, <4>1 DEF LeasesNameVcns, On
        <5>2. l.vcn # v
          BY <1>2, <1>3, <2>4, <5>1 DEF RecordsRight, NoneOn, OneLogPerVcn
        <5>3. QED
          BY <2>4, <4>1, <4>3, <5>2 DEF Others
      <4>4. QED
        BY <1>2, <4>2, <4>3
    <3>3. QED
      BY <3>1, <3>2
  <2>5. \A i \in LogIds : On(log', i) => i \in unrecorded' \/ \E l \in file' : l.log = i
    <3>1. CASE thread[t].op = "enable"
      BY <1>1, <1>4, <2>1, <2>4, <3>1
    <3>2. CASE thread[t].op = "disable"
      BY <1>1, <1>2, <1>4, <2>4, <3>2 DEF RecordsRight
    <3>3. QED
      BY <1>3, <3>1, <3>2
  <2>6. \A l \in file' : l.left > 0 => On(log', l.log) \/ l.log \in unrecorded'
    <3>1. \A l \in Others(t) : l.left > 0 => On(log, l.log) \/ l.log \in unrecorded'
      BY <1>2, <1>4, <2>3 DEF HonouredOr
    <3>2. thread[t].op = "enable" => On(log, mine)
      BY <1>2 DEF RecordsRight
    <3>3. QED
      BY <1>1, <2>1, <2>2, <3>1, <3>2
  <2>7. LeasesNameVcns(log', file')
    <3>1. thread[t].op = "enable" => log[mine].vcn = v
      BY <1>2 DEF RecordsRight
    <3>2. QED
      BY <1>1, <1>2, <2>1, <2>2, <2>3, <3>1 DEF LeasesNameVcns
  <2>8. OneLogPerVcn(log') /\ Known(log', unrecorded')
    BY <1>1, <1>2, <1>4 DEF Known, LogsOf, Exists
  <2>9. QED
    BY <1>1, <1>3, <2>5, <2>6, <2>7, <2>8, NextVcnOrdered
<1>5. ASSUME NEW lost \in Losses, file' = file \ lost,
             unrecorded' = unrecorded \cup LogsOf(lost) \cup {mine}
      PROVE  Ordered(log', file', unrecorded', thread')
  <2>1. /\ \A l \in lost : l.log \in LogsOf(lost) \/ log[l.log].state = "absent"
        /\ Known(log, LogsOf(lost))
    BY LossesAreKnown
  <2>2. Known(log', unrecorded') /\ OneLogPerVcn(log') /\ LeasesNameVcns(log', file')
    BY <1>1, <1>2, <1>3, <1>5, <2>1 DEF Known, LeasesNameVcns
  <2>3. \A i \in LogIds : On(log', i) => i \in unrecorded' \/ \E l \in file' : l.log = i
    BY <1>1, <1>2, <1>5, <2>1 DEF LeasedOr, On
  <2>4. \A l \in file' : l.left > 0 => On(log', l.log) \/ l.log \in unrecorded'
    BY <1>1, <1>2, <1>5 DEF HonouredOr
  <2>5. QED
    BY <1>1, <1>3, <2>2, <2>3, <2>4, NextVcnOrdered
<1>6. QED
  BY <1>4, <1>5 DEF SaveLeases, Unrecorded

(* Time changes neither the VCN nor the log of a lease, and brings no      *)
(* expired lease back.                                                     *)
LEMMA AgedLeases ==
    ASSUME NEW leases \in SUBSET Leases
    PROVE  /\ \A l \in leases : \E m \in Aged(leases) : m.vcn = l.vcn /\ m.log = l.log
           /\ \A m \in Aged(leases) : \E l \in leases :
                 m.vcn = l.vcn /\ m.log = l.log /\ (m.left > 0 => l.left > 0)
           /\ \A l \in leases : l.left = 0 => l \in Aged(leases)
<1> DEFINE older(l) == [l EXCEPT !.left = Sooner(@)]
<1>1. ASSUME NEW l \in leases
      PROVE  /\ older(l) \in Aged(leases) /\ older(l).vcn = l.vcn /\ older(l).log = l.log
             /\ older(l).left > 0 => l.left > 0
             /\ l.left = 0 => older(l) = l
  <2>1. l \in Leases /\ l.left \in Nat
    BY MaxLeaseAssumption DEF Leases
  <2>2. older(l) \in Aged(leases)
    BY DEF Aged
  <2>3. older(l).vcn = l.vcn /\ older(l).log = l.log /\ older(l).left = Sooner(l.left)
    BY <2>1 DEF Leases
  <2>4. Sooner(l.left) > 0 => l.left > 0
    BY <2>1 DEF Sooner
  <2>5. l.left = 0 => older(l) = l
    BY <2>1 DEF Sooner, Leases
  <2>6. QED
    BY <2>2, <2>3, <2>4, <2>5
<1>2. \A l \in leases : \E m \in Aged(leases) : m.vcn = l.vcn /\ m.log = l.log
  BY <1>1
<1>3. \A l \in leases : l.left = 0 => l \in Aged(leases)
  BY <1>1
<1>4. ASSUME NEW m \in Aged(leases)
      PROVE  \E l \in leases : m.vcn = l.vcn /\ m.log = l.log /\ (m.left > 0 => l.left > 0)
  <2>1. PICK l \in leases : m = older(l)
    BY DEF Aged
  <2>2. QED
    BY <1>1, <2>1
<1>5. QED
  BY <1>2, <1>3, <1>4

(* The wall clock advances: what is loaded ages like the file.             *)
LEMMA TickOrdered ==
    ASSUME IInv, Ordered(log, file, unrecorded, thread), Tick
    PROVE  Ordered(log', file', unrecorded', thread')
<1>1. /\ log' = log /\ file' = Aged(file) /\ file \in SUBSET Leases
      /\ unrecorded' = unrecorded
  BY DEF Tick, IInv, TypeOK
<1>2. ASSUME NEW t \in Threads
      PROVE  /\ thread[t] \in Thread
             /\ thread'[t].pc = thread[t].pc /\ thread'[t].op = thread[t].op
             /\ thread'[t].vcn = thread[t].vcn /\ thread'[t].log = thread[t].log
             /\ thread'[t].todo = thread[t].todo /\ thread'[t].cleaned = thread[t].cleaned
             /\ thread'[t].loaded = Aged(thread[t].loaded)
  BY DEF Tick, IInv, TypeOK, Thread
<1>3. \A t \in Threads : WorksRight(thread'[t], log', file')
  <2>1. SUFFICES ASSUME NEW t \in Threads
                 PROVE  WorksRight(thread'[t], log', file')
    OBVIOUS
  <2>2. WorksRight(thread[t], log, file)
    BY DEF Ordered
  <2>3. thread[t].loaded \in SUBSET Leases
    BY <1>2 DEF Thread
  <2>4. ASSUME SweepsRight(thread[t], log, file)
        PROVE  SweepsRight(thread'[t], log', file')
    BY <1>1, <1>2, <2>3, <2>4, AgedLeases DEF SweepsRight
  <2>5. Aged({}) = {}
    BY DEF Aged
  <2>6. QED
    BY <1>1, <1>2, <2>2, <2>4, <2>5 DEF WorksRight, RecordsRight
<1>4. \A t, u \in Threads : ~Rests(thread'[t]) /\ ~Rests(thread'[u]) => t = u
  BY <1>2 DEF Ordered, Rests
<1>5. OneLogPerVcn(log') /\ Known(log', unrecorded')
  BY <1>1 DEF Ordered
<1>6. LeasesNameVcns(log', file')
  BY <1>1, AgedLeases DEF Ordered, LeasesNameVcns
<1>7. \A i \in LogIds : Leased(i, log', file', unrecorded', thread')
  BY <1>1, <1>2, AgedLeases DEF Ordered, Leased
<1>8. \A l \in file' : Honoured(l, log', unrecorded', thread')
  BY <1>1, <1>2, AgedLeases DEF Ordered, Honoured, Threads
<1>9. QED
  BY <1>3, <1>4, <1>5, <1>6, <1>7, <1>8 DEF Ordered

(* When no thread works, the two properties hold of the logs and the file  *)
(* alone.                                                                  *)
LEMMA AllRestOrdered ==
    ASSUME NEW lg, NEW fl, NEW un, NEW ths,
           \A t \in Threads : Rests(ths[t]) /\ ths[t].log = NoLog,
           OneLogPerVcn(lg), LeasesNameVcns(lg, fl), Known(lg, un),
           \A i \in LogIds : On(lg, i) => i \in un \/ \E l \in fl : l.log = i,
           \A l \in fl : l.left > 0 => On(lg, l.log) \/ l.log \in un
    PROVE  Ordered(lg, fl, un, ths)
<1>1. \A t \in Threads : WorksRight(ths[t], lg, fl)
  BY DEF WorksRight, Rests
<1>2. QED
  BY <1>1 DEF Ordered, Leased, Honoured

(* The process dies: what was being recorded is now unrecorded, and so are *)
(* the logs of leases that a torn file lost.                               *)
LEMMA CrashOrdered ==
    ASSUME IInv, Ordered(log, file, unrecorded, thread), Crash, orderly
    PROVE  Ordered(log', file', unrecorded', thread')
<1> DEFINE cut == {thread[t].log : t \in {u \in Threads : Recording(u)}}
<1>1. log' = log /\ \A t \in Threads : thread'[t] = [Idle EXCEPT !.pc = "down"]
  BY DEF Crash
<1>2. PICK lost \in Losses : file' = file \ lost /\ unrecorded' = unrecorded \cup LogsOf(lost) \cup cut
  BY DEF Crash, Losses, Unrecorded
<1>3. /\ \A l \in lost : l.log \in LogsOf(lost) \/ log[l.log].state = "absent"
      /\ Known(log, LogsOf(lost))
  BY LossesAreKnown
<1>4. \A t \in Threads : Rests(thread'[t]) /\ thread'[t].log = NoLog
  BY <1>1 DEF Rests, Idle
<1>5. /\ file \subseteq Leases /\ Unique(file) /\ \A t \in Threads : thread[t] \in Thread
  BY DEF IInv, TypeOK
<1>6. /\ \A t \in Threads : WorksRight(thread[t], log, file)
      /\ OneLogPerVcn(log) /\ LeasesNameVcns(log, file) /\ Known(log, unrecorded)
  BY DEF Ordered
<1>7. \A t \in Threads : thread[t].pc \in {"load", "save"} => thread[t].log \in cut
  BY DEF Recording, At
<1>8. ASSUME NEW i \in LogIds, On(log, i)
      PROVE  i \in unrecorded' \/ \E l \in file' : l.log = i
  <2>1. CASE \E l \in file : l.log = i
    BY <1>2, <1>3, <1>8, <2>1 DEF On
  <2>2. CASE \E t \in Threads : thread[t].log = i /\ thread[t].op = "enable"
    <3>1. PICK t \in Threads : thread[t].log = i /\ thread[t].op = "enable"
      BY <2>2
    <3>2. thread[t].pc # "delete"
      BY <1>6, <1>8, <3>1 DEF WorksRight, SweepsRight
    <3>3. thread[t].pc \in {"load", "save"}
      BY <1>5, <1>6, <3>1, <3>2, NoLogAssumption DEF WorksRight, Thread
    <3>4. QED
      BY <1>2, <1>7, <3>1, <3>3
  <2>3. QED
    BY <1>2, <1>8, <2>1, <2>2 DEF Ordered, Leased
<1>9. ASSUME NEW l \in file', l.left > 0
      PROVE  On(log, l.log) \/ l.log \in unrecorded'
  <2>1. l \in file /\ l.log \in LogIds
    BY <1>2, <1>5 DEF Leases
  <2>2. CASE \E t \in Requests : thread[t].log = l.log /\ thread[t].op = "disable"
    <3>1. PICK t \in Threads : thread[t].log = l.log /\ thread[t].op = "disable"
      BY <2>2 DEF Threads
    <3>2. thread[t].pc # "delete"
      <4>1. SUFFICES ASSUME thread[t].pc = "delete" PROVE FALSE
        OBVIOUS
      <4>2. SweepsRight(thread[t], log, file)
        BY <1>6, <4>1 DEF WorksRight
      <4>3. PICK m \in thread[t].todo : m.log = thread[t].log
        BY <4>1, <4>2 DEF SweepsRight
      <4>4. m \in file /\ m.left = 0
        BY <4>2, <4>3 DEF SweepsRight
      <4>5. QED
        BY <1>5, <1>9, <2>1, <3>1, <4>3, <4>4 DEF Unique
    <3>3. thread[t].pc \in {"disable", "load", "save"}
      BY <1>5, <1>6, <2>1, <3>1, <3>2, NoLogAssumption DEF WorksRight, Thread
    <3>4. CASE thread[t].pc = "disable"
      BY <1>6, <3>1, <3>4 DEF WorksRight
    <3>5. CASE thread[t].pc \in {"load", "save"}
      BY <1>2, <1>7, <3>1, <3>5
    <3>6. QED
      BY <3>3, <3>4, <3>5
  <2>3. QED
    BY <1>2, <1>9, <2>1, <2>2 DEF Ordered, Honoured
<1>10. OneLogPerVcn(log') /\ LeasesNameVcns(log', file')
  BY <1>1, <1>2, <1>6 DEF LeasesNameVcns
<1>11. Known(log', unrecorded')
  <2>1. Known(log, cut)
    BY <1>6 DEF Known, Recording, At, WorksRight, RecordsRight
  <2>2. QED
    BY <1>1, <1>2, <1>3, <1>6, <2>1 DEF Known
<1>12. QED
  BY <1>1, <1>4, <1>8, <1>9, <1>10, <1>11, AllRestOrdered

(* Order, once lost, is never found again.                                 *)
LEMMA OrderIsLost ==
    ASSUME [Next]_vars, orderly'
    PROVE  orderly
<1>1. ASSUME NEW t \in Threads, Sweep(t) PROVE orderly
  BY <1>1 DEF Sweep, SweepDisable, SweepDelete, SweepEnd
<1>2. ASSUME NEW t \in Requests, Handle(t) PROVE orderly
  <2>1. CASE \E v \in Vcns : Lookup(t, v)
    BY <2>1 DEF Lookup
  <2>2. CASE SaveLeases(t)
    BY <2>2 DEF SaveLeases
  <2>3. QED
    BY <1>2, <2>1, <2>2 DEF Handle, Create, Disable, LoadLeases, Return
<1>3. ASSUME NEW t \in Requests, Request(t) PROVE orderly
  BY <1>3 DEF Request, BeginSweep
<1>4. CASE BeginSweep(Sweeper, "sweep", {})
  BY <1>4 DEF BeginSweep
<1>5. CASE Tick \/ Crash \/ Restart \/ UNCHANGED vars
  BY <1>5 DEF Tick, Crash, Restart, vars
<1>6. QED
  BY <1>1, <1>2, <1>3, <1>4, <1>5 DEF Next

(* The invariants of ordered executions are inductive.                     *)
THEOREM OrderInvariance == Spec => []OInv
<1>1. Init => OInv
  <2>1. SUFFICES ASSUME Init PROVE Ordered(log, file, unrecorded, thread)
    BY DEF OInv
  <2>2. /\ \A t \in Threads : Rests(thread[t]) /\ thread[t].log = NoLog
        /\ \A i \in LogIds : ~On(log, i)
        /\ file = {} /\ unrecorded = {}
    BY <2>1 DEF Init, Idle, Rests, On, Absent
  <2>3. OneLogPerVcn(log) /\ LeasesNameVcns(log, file) /\ Known(log, unrecorded)
    BY <2>2 DEF OneLogPerVcn, LeasesNameVcns, Known
  <2>4. QED
    BY <2>2, <2>3, AllRestOrdered
<1>2. IInv /\ OInv /\ [Next]_vars => OInv'
  <2>1. SUFFICES ASSUME IInv, OInv, [Next]_vars, orderly'
                 PROVE  Ordered(log', file', unrecorded', thread')
    BY DEF OInv
  <2>2. orderly /\ Ordered(log, file, unrecorded, thread)
    BY <2>1, OrderIsLost DEF OInv
  <2>3. ASSUME NEW t \in Threads, Sweep(t) PROVE Ordered(log', file', unrecorded', thread')
    BY <2>1, <2>2, <2>3, SweepDisableOrdered, SweepDeleteOrdered, SweepEndOrdered DEF Sweep
  <2>4. ASSUME NEW t \in Requests, Request(t) PROVE Ordered(log', file', unrecorded', thread')
    BY <2>1, <2>2, <2>4, BeginSweepOrdered DEF Request, Threads
  <2>5. ASSUME NEW t \in Requests, Handle(t) PROVE Ordered(log', file', unrecorded', thread')
    <3>1. t \in Threads
      BY DEF Threads
    <3>2. CASE Return(t)
      <4>1. /\ thread' = [thread EXCEPT ![t] = Idle] /\ UNCHANGED <<log, file, unrecorded>>
            /\ thread[t].pc = "vcns"
        BY <3>2 DEF Return, At
      <4>2. OthersRest(t) /\ thread[t].log = NoLog
        BY <2>2, <3>1, <4>1, WorkerAlone DEF Rests, Ordered, WorksRight
      <4>3. WorksRight(Idle, log, file)
        BY DEF WorksRight, Idle
      <4>4. QED
        BY <2>1, <2>2, <3>1, <4>1, <4>2, <4>3, NothingHeld, Remembers
    <3>3. QED
      BY <2>1, <2>2, <2>5, <3>1, <3>2, LookupOrdered, CreateOrdered, DisableOrdered,
         LoadLeasesOrdered, SaveLeasesOrdered DEF Handle
  <2>6. CASE BeginSweep(Sweeper, "sweep", {})
    BY <2>1, <2>2, <2>6, BeginSweepOrdered DEF Threads
  <2>7. CASE Restart
    <3>1. /\ UNCHANGED <<log, file, unrecorded>> /\ thread' = [t \in Threads |-> Idle]
          /\ \A t \in Threads : thread[t].pc = "down"
      BY <2>7 DEF Restart, At
    <3>2. /\ \A t \in Threads : Rests(thread'[t]) /\ thread'[t].log = NoLog
          /\ \A t \in Threads : thread[t].log = NoLog
      BY <2>2, <3>1 DEF Rests, Idle, Ordered, WorksRight
    <3>3. \A i \in LogIds : On(log', i) => i \in unrecorded' \/ \E l \in file' : l.log = i
      BY <2>2, <3>1, <3>2, NoLogAssumption DEF Ordered, Leased
    <3>4. \A l \in file' : l.left > 0 => On(log', l.log) \/ l.log \in unrecorded'
      BY <2>1, <2>2, <3>1, <3>2, NoLogAssumption DEF Ordered, Honoured, Threads, IInv, TypeOK, Leases
    <3>5. OneLogPerVcn(log') /\ LeasesNameVcns(log', file') /\ Known(log', unrecorded')
      BY <2>2, <3>1 DEF Ordered
    <3>6. QED
      BY <3>2, <3>3, <3>4, <3>5, AllRestOrdered
  <2>8. CASE UNCHANGED vars
    BY <2>2, <2>8 DEF vars
  <2>9. QED
    BY <2>1, <2>2, <2>3, <2>4, <2>5, <2>6, <2>7, <2>8, TickOrdered, CrashOrdered DEF Next
<1>3. QED
  BY <1>1, <1>2, LeaseInvariance, PTL DEF Spec

(* As long as no operation overlapped another one, every log that ingests  *)
(* has a lease, or its request is about to record one, or it is one that   *)
(* could not be recorded or whose record was lost.                         *)
THEOREM OrderedLogsAreLeased == Spec => []EnabledLogsAreLeased
<1>1. OInv => EnabledLogsAreLeased
  BY DEF OInv, Ordered, Leased, EnabledLogsAreLeased, IsEnabled, On
<1>2. QED
  BY <1>1, OrderInvariance, PTL

(* As long as no operation overlapped another one, a log with an unexpired *)
(* lease ingests, unless its request is about to drop the lease or could   *)
(* not have it dropped.                                                    *)
THEOREM OrderedLeasesAreHonoured == Spec => []LeasesAreHonoured
<1>1. OInv => LeasesAreHonoured
  BY DEF OInv, Ordered, Honoured, LeasesAreHonoured, IsEnabled, On
<1>2. QED
  BY <1>1, OrderInvariance, PTL

(* The sweeper's thread runs sweeps only.                                  *)
SweeperOp == thread[Sweeper].op = "sweep"

LEMMA SweeperSweeps == Spec => []SweeperOp
<1>1. Init => SweeperOp
  BY DEF Init, Idle, Threads, SweeperOp
<1>2. IInv /\ SweeperOp /\ [Next]_vars => SweeperOp'
  <2>1. SUFFICES ASSUME IInv, thread[Sweeper].op = "sweep", [Next]_vars
                 PROVE  thread'[Sweeper].op = "sweep"
    BY DEF SweeperOp
  <2>2. /\ thread \in [Threads -> Thread] /\ Sweeper \in Threads /\ Idle.op = "sweep"
        /\ [Idle EXCEPT !.pc = "dead"].op = "sweep" /\ [Idle EXCEPT !.pc = "down"].op = "sweep"
    BY <2>1 DEF IInv, TypeOK, Threads, Idle
  <2>3. ASSUME NEW t \in Requests, Request(t) \/ Handle(t)
        PROVE  thread'[Sweeper] = thread[Sweeper]
    <3>1. t # Sweeper
      BY SweeperAssumption
    <3>2. CASE Request(t)
      BY <2>2, <3>1, <3>2 DEF Request, BeginSweep
    <3>3. CASE Handle(t)
      BY <2>2, <3>1, <3>3
         DEF Handle, Lookup, NextVcn, Missed, Create, Disable, LoadLeases, SaveLeases, Return
    <3>4. QED
      BY <2>3, <3>2, <3>3
  <2>4. ASSUME NEW t \in Threads, Sweep(t)
        PROVE  thread'[Sweeper].op = "sweep"
    <3>1. CASE t # Sweeper
      BY <2>1, <2>2, <2>4, <3>1 DEF Sweep, SweepDisable, SweepDelete, SweepEnd
    <3>2. CASE t = Sweeper /\ SweepEnd(t)
      <4>1. thread'[Sweeper] \in {Idle, [Idle EXCEPT !.pc = "dead"]}
        BY <2>1, <2>2, <3>2 DEF SweepEnd
      <4>2. QED
        BY <2>2, <4>1
    <3>3. CASE t = Sweeper /\ ~SweepEnd(t)
      <4>1. thread[t] \in Thread
        BY <2>2, <3>3
      <4>2. ASSUME NEW lease, NEW ok, SweepDisable(t, lease, ok)
            PROVE  thread'[t].op = thread[t].op
        <5> DEFINE off == [thread[t] EXCEPT !.pc = "delete", !.log = lease.log]
        <5> DEFINE left == [thread[t] EXCEPT !.todo = @ \ {lease}]
        <5>1. off.op = thread[t].op /\ left.op = thread[t].op
          BY <4>1 DEF Thread
        <5>2. CASE ok
          <6>1. thread' = [thread EXCEPT ![t] = off]
            BY <2>2, <4>2, <5>2 DEF SweepDisable
          <6>2. QED
            BY <2>2, <3>3, <5>1, <6>1
        <5>3. CASE ~ok
          <6>1. thread' = [thread EXCEPT ![t] = left]
            BY <2>2, <4>2, <5>3 DEF SweepDisable
          <6>2. QED
            BY <2>2, <3>3, <5>1, <6>1
        <5>4. QED
          BY <5>2, <5>3
      <4>3. ASSUME NEW ok, SweepDelete(t, ok)
            PROVE  thread'[t].op = thread[t].op
        <5> DEFINE mine == {lease \in thread[t].todo : lease.log = thread[t].log}
        <5> DEFINE th == [thread[t] EXCEPT !.pc = "sweep", !.log = NoLog, !.todo = @ \ mine,
                                           !.cleaned = IF ok THEN @ \cup mine ELSE @]
        <5>1. thread' = [thread EXCEPT ![t] = th]
          BY <2>2, <4>3 DEF SweepDelete
        <5>2. th.op = thread[t].op
          BY <4>1 DEF Thread
        <5>3. QED
          BY <2>2, <3>3, <5>1, <5>2
      <4>4. QED
        BY <2>1, <2>4, <3>3, <4>2, <4>3 DEF Sweep
    <3>4. QED
      BY <3>1, <3>2, <3>3
  <2>5. CASE BeginSweep(Sweeper, "sweep", {})
    BY <2>2, <2>5 DEF BeginSweep, Idle
  <2>6. CASE Tick
    BY <2>1, <2>2, <2>6 DEF Tick, Thread
  <2>7. CASE Crash \/ Restart
    BY <2>2, <2>7 DEF Crash, Restart
  <2>8. QED
    BY <2>1, <2>3, <2>4, <2>5, <2>6, <2>7 DEF Next, vars
<1>3. QED
  BY <1>1, <1>2, LeaseInvariance, PTL DEF Spec

(* The liveness that the runs check is enough for the promise of the       *)
(* documentation when operations do not overlap: if the logs that hold a   *)
(* lease are switched off in the end, all logs are, but for those that     *)
(* could not be recorded or whose record was lost.                         *)
THEOREM SettlingStopsIngestion == Spec => (LeasesSettle => IngestionStopsIfOrderly)
<1> DEFINE P == Quiet /\ SweeperAlive
<1> DEFINE Q == \A lease \in file : ~IsEnabled(lease.log)
<1> DEFINE R == \A i \in LogIds : IsEnabled(i) => i \in unrecorded
<1>1. OInv /\ orderly /\ SweeperOp /\ P /\ Q => R
  <2>1. SUFFICES ASSUME Ordered(log, file, unrecorded, thread), thread[Sweeper].op = "sweep", P, Q
                 PROVE  R
    BY DEF OInv, SweeperOp
  <2>2. Quiet /\ SweeperAlive
    BY <2>1
  <2>3. SUFFICES ASSUME NEW i \in LogIds, IsEnabled(i), i \notin unrecorded PROVE FALSE
    OBVIOUS
  <2>4. Leased(i, log, file, unrecorded, thread) /\ On(log, i)
    BY <2>1, <2>3 DEF Ordered, IsEnabled, On
  <2>5. PICK t \in Threads : thread[t].log = i /\ thread[t].op = "enable"
    BY <2>1, <2>3, <2>4 DEF Leased
  <2>6. t = Sweeper
    BY <2>1, <2>2, <2>5, NoLogAssumption
       DEF Quiet, Resting, Ordered, WorksRight, Threads
  <2>7. QED
    BY <2>1, <2>5, <2>6
<1>2. QED
  BY <1>1, SweeperSweeps, OrderInvariance, PTL DEF LeasesSettle, IngestionStopsIfOrderly
-----------------------------------------------------------------------------
(* ImplementsBook.  What the book shows depends on the one thread that     *)
(* works: a log that it created is hidden until the file knows it, and one *)
(* that it switched off is shown as it was until its lease is dropped.     *)
Writes(th, op) == th.pc \in {"load", "save"} /\ th.op = op

HidesLog(th, fl, un, i) ==
    Writes(th, "enable") /\ th.log = i /\ i \notin un /\ \A l \in fl : l.log # i

LogsSeen(lg, fl, un, th) ==
    [i \in LogIds |-> IF HidesLog(th, fl, un, i) THEN Absent
                      ELSE IF Writes(th, "disable") /\ th.log = i
                      THEN [lg[i] EXCEPT !.state = "enabled"]
                      ELSE lg[i]]

(* The state, seen past threads that rest.                                 *)
LEMMA SeenBefore ==
    ASSUME NEW t \in Threads, OthersRest(t)
    PROVE  ShownLogs = LogsSeen(log, file, unrecorded, thread[t])
<1>1. \A u \in Threads \ {t} : ~Recording(u)
  BY DEF OthersRest, Rests, Recording, At
<1>2. Recording(t) <=> thread[t].pc \in {"load", "save"}
  BY DEF Recording, At
<1>3. \A i \in LogIds : ToBeLeased(i) <=> HidesLog(thread[t], file, unrecorded, i)
  BY <1>1, <1>2 DEF ToBeLeased, HidesLog, Writes
<1>4. \A i \in LogIds : ToBeDropped(i) <=> Writes(thread[t], "disable") /\ thread[t].log = i
  BY <1>1, <1>2 DEF ToBeDropped, Writes
<1>5. QED
  BY <1>3, <1>4 DEF ShownLogs, LogsSeen

LEMMA SeenAfter ==
    ASSUME IInv, NEW t \in Threads, OthersRest(t),
           NEW th, thread' = [thread EXCEPT ![t] = th]
    PROVE  ShownLogs' = LogsSeen(log', file', unrecorded', th)
<1>1. /\ thread'[t] = th
      /\ \A u \in Threads \ {t} : thread'[u] = thread[u]
  BY DEF IInv, TypeOK
<1>2. \A u \in Threads \ {t} : ~Recording(u)'
  BY <1>1 DEF OthersRest, Rests, Recording, At
<1>3. Recording(t)' <=> th.pc \in {"load", "save"}
  BY <1>1 DEF Recording, At
<1>4. \A i \in LogIds : ToBeLeased(i)' <=> HidesLog(th, file', unrecorded', i)
  BY <1>1, <1>2, <1>3 DEF ToBeLeased, HidesLog, Writes
<1>5. \A i \in LogIds : ToBeDropped(i)' <=> Writes(th, "disable") /\ th.log = i
  BY <1>1, <1>2, <1>3 DEF ToBeDropped, Writes
<1>6. QED
  BY <1>4, <1>5 DEF ShownLogs, LogsSeen

(* A thread that writes nothing hides nothing.                             *)
LEMMA NothingHidden ==
    ASSUME NEW lg \in [LogIds -> Logs], NEW fl, NEW un, NEW th, th.pc \notin {"load", "save"}
    PROVE  LogsSeen(lg, fl, un, th) = lg
BY DEF LogsSeen, HidesLog, Writes

LEMMA ShownBefore ==
    ASSUME IInv, NEW t \in Threads, OthersRest(t), thread[t].pc \notin {"load", "save"}
    PROVE  ShownLogs = log
BY SeenBefore, NothingHidden DEF IInv, TypeOK

LEMMA ShownAfter ==
    ASSUME IInv, NEW t \in Threads, OthersRest(t), log' \in [LogIds -> Logs],
           NEW th, thread' = [thread EXCEPT ![t] = th], th.pc \notin {"load", "save"}
    PROVE  ShownLogs' = log'
BY SeenAfter, NothingHidden

(* What a step of the service must be.                                     *)
BookStep == Book!BookNext \/ UNCHANGED <<ShownLogs, file, unrecorded>>

(* A step of a thread that leaves logs and file as they are shows nothing, *)
(* unless the thread begins or ends to write.                              *)
LEMMA ShowsNothing ==
    ASSUME IInv, NEW t \in Threads, OthersRest(t), UNCHANGED <<log, file, unrecorded>>,
           NEW th, thread' = [thread EXCEPT ![t] = th],
           thread[t].pc \notin {"load", "save"}, th.pc \notin {"load", "save"}
    PROVE  BookStep
<1>1. ShownLogs = log
  BY ShownBefore
<1>2. ShownLogs' = log'
  BY ShownAfter DEF IInv, TypeOK
<1>3. QED
  BY <1>1, <1>2 DEF BookStep

(* The log in the hands of a thread that records or removes a lease: the   *)
(* log opens in the book if it is to be leased, and closes if its lease is *)
(* to be dropped.                                                          *)
LEMMA Opening ==
    ASSUME IInv, Ordered(log, file, unrecorded, thread), NEW t \in Threads,
           thread[t].pc \in {"load", "save"}, thread[t].op = "enable", ShownLogs' = log
    PROVE  Book!Opens(thread[t].vcn, thread[t].log)
<1> DEFINE v == thread[t].vcn
<1> DEFINE mine == thread[t].log
<1> DEFINE entry == [state |-> "enabled", vcn |-> v]
<1>1. OthersRest(t) /\ mine \in LogIds /\ log \in [LogIds -> Logs]
  BY WorkerAlone DEF Rests, IInv, TypeOK, Sound
<1>2. RecordsRight(thread[t], log) /\ OneLogPerVcn(log)
  BY <1>1, Before DEF WorksRight
<1>3. On(log, mine) /\ log[mine].vcn = v
  BY <1>2 DEF RecordsRight
<1>4. log[mine] = entry
  BY <1>1, <1>3 DEF On, Logs
<1>5. ShownLogs = LogsSeen(log, file, unrecorded, thread[t])
  BY <1>1, SeenBefore
<1>6. /\ \A i \in LogIds \ {mine} : ShownLogs[i] = log[i]
      /\ ShownLogs[mine] = log[mine] \/ ShownLogs[mine] = Absent
      /\ ShownLogs = [i \in LogIds |-> ShownLogs[i]]
  BY <1>1, <1>5 DEF LogsSeen, HidesLog, Writes
<1>7. \A i \in LogIds \ {mine} : ~(ShownLogs[i].state = "enabled" /\ ShownLogs[i].vcn = v)
  BY <1>1, <1>2, <1>3, <1>6 DEF OneLogPerVcn, On
<1>8. CASE ShownLogs[mine] = log[mine]
  <2>1. Book!Ingesting(v) = {mine}
    BY <1>1, <1>3, <1>7, <1>8 DEF Book!Ingesting, On
  <2>2. ShownLogs = log
    BY <1>1, <1>6, <1>8
  <2>3. QED
    BY <2>1, <2>2 DEF Book!Opens
<1>9. CASE ShownLogs[mine] = Absent
  <2>1. Book!Ingesting(v) = {} /\ ShownLogs[mine] = Book!Absent
    BY <1>1, <1>7, <1>9 DEF Book!Ingesting, Absent, Book!Absent
  <2>2. log = [ShownLogs EXCEPT ![mine] = entry]
    <3>1. \A i \in LogIds : log[i] = [ShownLogs EXCEPT ![mine] = entry][i]
      BY <1>1, <1>4, <1>6
    <3>2. QED
      BY <1>1, <1>6, <3>1
  <2>3. QED
    BY <2>1, <2>2 DEF Book!Opens
<1>10. QED
  BY <1>6, <1>8, <1>9

LEMMA Closing ==
    ASSUME IInv, Ordered(log, file, unrecorded, thread), NEW t \in Threads,
           thread[t].pc \in {"load", "save"}, thread[t].op = "disable", ShownLogs' = log
    PROVE  Book!Closes(thread[t].vcn, thread[t].log)
<1> DEFINE v == thread[t].vcn
<1> DEFINE mine == thread[t].log
<1>1. OthersRest(t) /\ mine \in LogIds /\ log \in [LogIds -> Logs]
  BY WorkerAlone DEF Rests, IInv, TypeOK, Sound
<1>2. RecordsRight(thread[t], log)
  BY <1>1, Before DEF WorksRight
<1>3. log[mine].state = "disabled" /\ log[mine].vcn = v
  BY <1>1, <1>2 DEF RecordsRight, On, Logs
<1>4. ShownLogs = LogsSeen(log, file, unrecorded, thread[t])
  BY <1>1, SeenBefore
<1>5. /\ \A i \in LogIds \ {mine} : ShownLogs[i] = log[i]
      /\ ShownLogs[mine] = [log[mine] EXCEPT !.state = "enabled"]
      /\ ShownLogs = [i \in LogIds |-> ShownLogs[i]]
  BY <1>1, <1>4 DEF LogsSeen, HidesLog, Writes
<1>6. log[mine] = [state |-> "disabled", vcn |-> v]
  BY <1>1, <1>3 DEF Logs
<1>7. ShownLogs[mine] = [state |-> "enabled", vcn |-> v]
  BY <1>5, <1>6
<1>8. mine \in Book!Ingesting(v)
  BY <1>1, <1>7 DEF Book!Ingesting
<1>9. log = [ShownLogs EXCEPT ![mine].state = "disabled"]
  <2> DEFINE closed == [ShownLogs EXCEPT ![mine].state = "disabled"]
  <2>1. [ShownLogs[mine] EXCEPT !.state = "disabled"] = log[mine]
    BY <1>6, <1>7
  <2>2. closed = [ShownLogs EXCEPT ![mine] = log[mine]]
    BY <2>1
  <2>3. log = [ShownLogs EXCEPT ![mine] = log[mine]]
    <3>1. \A i \in LogIds : log[i] = [ShownLogs EXCEPT ![mine] = log[mine]][i]
      BY <1>1, <1>5
    <3>2. QED
      BY <1>1, <1>5, <3>1
  <2>4. QED
    BY <2>2, <2>3
<1>10. QED
  BY <1>8, <1>9 DEF Book!Closes

(* The logs that leases name are shown.                                    *)
LEMMA NamedSeen ==
    ASSUME IInv, Ordered(log, file, unrecorded, thread), NEW t \in Threads, OthersRest(t),
           NEW leases \in SUBSET file
    PROVE  Book!Named(leases) = LogsOf(leases)
<1>1. ShownLogs = LogsSeen(log, file, unrecorded, thread[t]) /\ log \in [LogIds -> Logs]
  BY SeenBefore DEF IInv, TypeOK
<1>2. ASSUME NEW i \in LogIds, \E l \in leases : l.log = i
      PROVE  ShownLogs[i] # Absent <=> log[i].state # "absent"
  <2>1. ~HidesLog(thread[t], file, unrecorded, i)
    BY <1>2 DEF HidesLog
  <2>2. CASE Writes(thread[t], "disable") /\ thread[t].log = i
    <3>1. log[i].state # "absent"
      BY <2>2, Before DEF WorksRight, Writes, RecordsRight
    <3>2. ShownLogs[i] = [log[i] EXCEPT !.state = "enabled"]
      BY <1>1, <2>1, <2>2 DEF LogsSeen
    <3>3. [log[i] EXCEPT !.state = "enabled"].state = "enabled"
      BY <1>1, <3>1 DEF Logs
    <3>4. QED
      BY <3>1, <3>2, <3>3 DEF Absent
  <2>3. CASE ~(Writes(thread[t], "disable") /\ thread[t].log = i)
    <3>1. ShownLogs[i] = log[i]
      BY <1>1, <2>1, <2>3 DEF LogsSeen
    <3>2. QED
      BY <1>1, <3>1 DEF Logs, Absent
  <2>4. QED
    BY <2>2, <2>3
<1>3. QED
  BY <1>2 DEF Book!Named, Book!Absent, Absent, LogsOf, Exists

(* A log that a thread has in hand is missed by the book when the thread   *)
(* goes on without recording it.                                           *)
LEMMA Misses ==
    ASSUME IInv, Ordered(log, file, unrecorded, thread), NEW t \in Threads,
           thread[t].pc \in {"load", "save"}, ShownLogs' = log,
           NEW lost \in Losses, file' = file \ lost,
           unrecorded' = unrecorded \cup LogsOf(lost) \cup {thread[t].log}
    PROVE  BookStep
<1> DEFINE v == thread[t].vcn
<1> DEFINE mine == thread[t].log
<1>1. OthersRest(t) /\ mine \in LogIds /\ v \in Vcns
  BY WorkerAlone DEF Rests, IInv, TypeOK, Sound
<1>2. thread[t].op \in {"enable", "disable"}
  BY <1>1, Before DEF WorksRight, RecordsRight
<1>3. Book!Opens(v, mine) \/ Book!Closes(v, mine)
  BY <1>2, Opening, Closing
<1>4. lost \in Book!Lost /\ lost \subseteq file
  BY DEF Losses, Book!Lost
<1>5. Book!Named(lost) = LogsOf(lost)
  BY <1>1, <1>4, NamedSeen
<1>6. Book!Miss(v)
  BY <1>1, <1>3, <1>4, <1>5 DEF Book!Miss
<1>7. QED
  BY <1>1, <1>6 DEF BookStep, Book!BookNext

(* The beginning of a sweep shows nothing.                                 *)
LEMMA BeginSweepBook ==
    ASSUME IInv, Ordered(log, file, unrecorded, thread), NEW t \in Threads,
           NEW op \in {"sweep", "enable", "disable"}, NEW vcns \in SUBSET Vcns,
           BeginSweep(t, op, vcns), orderly'
    PROVE  BookStep
<1>1. PICK loaded \in Loads :
          thread' = [thread EXCEPT ![t] =
              [Idle EXCEPT !.pc = "sweep", !.op = op, !.vcns = vcns, !.loaded = loaded,
                           !.todo = {lease \in loaded : lease.left = 0}]]
  BY DEF BeginSweep
<1> DEFINE th == [Idle EXCEPT !.pc = "sweep", !.op = op, !.vcns = vcns, !.loaded = loaded,
                              !.todo = {lease \in loaded : lease.left = 0}]
<1>2. OthersRest(t) /\ thread[t].pc = "idle" /\ UNCHANGED <<log, file, unrecorded>>
  BY DEF BeginSweep, At, Resting, OthersRest, Rests
<1>3. th.pc = "sweep"
  BY DEF Idle
<1>4. QED
  BY <1>1, <1>2, <1>3, ShowsNothing

(* The log of an expired lease is switched off, answered or not.           *)
LEMMA SweepDisableBook ==
    ASSUME IInv, Ordered(log, file, unrecorded, thread), NEW t \in Threads,
           NEW lease \in thread[t].todo, NEW ok \in BOOLEAN, SweepDisable(t, lease, ok)
    PROVE  BookStep
<1>1. thread[t].pc = "sweep" /\ OthersRest(t) /\ UNCHANGED <<file, unrecorded>>
  BY WorkerAlone DEF SweepDisable, At, Rests
<1>2. lease \in file /\ lease.left = 0 /\ thread[t].log = NoLog
  BY <1>1, Before DEF WorksRight, SweepsRight
<1>3. PICK th : /\ thread' = [thread EXCEPT ![t] = th]
                /\ th.pc = "delete" \/ th.pc = "sweep"
  BY <1>2, SweepDisables
<1>4. ShownLogs = log
  BY <1>1, ShownBefore
<1>5. ShownLogs' = log'
  <2>1. log' \in [LogIds -> Logs]
    BY SweepDisableIInv DEF IInv, TypeOK
  <2>2. QED
    BY <1>1, <1>3, <2>1, ShownAfter
<1>6. CASE SwitchOff(lease.log)
  <2>1. log[lease.log] # Book!Absent
    BY <1>6 DEF SwitchOff, Exists, Book!Absent
  <2>2. lease \in Book!Expired /\ Book!SwitchOff(lease)
    BY <1>1, <1>2, <1>4, <1>5, <1>6, <2>1 DEF SwitchOff, Book!Expired, Book!SwitchOff
  <2>3. QED
    BY <2>2 DEF BookStep, Book!BookNext
<1>7. CASE UNCHANGED log
  BY <1>1, <1>4, <1>5, <1>7 DEF BookStep
<1>8. QED
  BY <1>6, <1>7 DEF SweepDisable

(* The log of an expired lease, switched off before, is deleted, answered  *)
(* or not.                                                                 *)
LEMMA SweepDeleteBook ==
    ASSUME IInv, Ordered(log, file, unrecorded, thread), NEW t \in Threads, NEW ok \in BOOLEAN,
           SweepDelete(t, ok)
    PROVE  BookStep
<1> DEFINE gone == thread[t].log
<1> DEFINE mine == {lease \in thread[t].todo : lease.log = gone}
<1> DEFINE th == [thread[t] EXCEPT !.pc = "sweep", !.log = NoLog, !.todo = @ \ mine,
                                   !.cleaned = IF ok THEN @ \cup mine ELSE @]
<1>1. /\ thread[t].pc = "delete" /\ OthersRest(t) /\ file' = file
      /\ thread' = [thread EXCEPT ![t] = th]
  BY WorkerAlone DEF SweepDelete, At, Rests, IInv, TypeOK
<1>2. thread[t] \in Thread /\ gone \in LogIds /\ log \in [LogIds -> Logs]
  BY <1>1 DEF IInv, TypeOK, Sound
<1>3. th.pc = "sweep"
  BY <1>2 DEF Thread
<1>4. SweepsRight(thread[t], log, file)
  BY <1>1, Before DEF WorksRight
<1>5. PICK lease \in thread[t].todo : lease.log = gone
  BY <1>1, <1>4 DEF SweepsRight
<1>6. lease \in file /\ lease.left = 0 /\ ~On(log, gone)
  BY <1>1, <1>4, <1>5 DEF SweepsRight
<1>7. CASE DeleteLog(gone)
  <2>1. /\ Exists(gone) /\ log' = [log EXCEPT ![gone] = Absent]
        /\ unrecorded' = unrecorded \ {gone}
    BY <1>7 DEF DeleteLog
  <2>2. log[gone].state = "disabled"
    BY <1>2, <1>6, <2>1 DEF Exists, On, Logs
  <2>3. ShownLogs = log
    BY <1>1, ShownBefore
  <2>4. log' \in [LogIds -> Logs]
    BY SweepDeleteIInv DEF IInv, TypeOK
  <2>5. ShownLogs' = log'
    BY <1>1, <1>3, <2>4, ShownAfter
  <2>6. lease \in Book!Expired /\ Book!Delete(lease)
    BY <1>1, <1>5, <1>6, <2>1, <2>2, <2>3, <2>5
       DEF Book!Expired, Book!Delete, Book!Absent, Absent
  <2>7. QED
    BY <2>6 DEF BookStep, Book!BookNext
<1>8. CASE UNCHANGED <<log, unrecorded>>
  BY <1>1, <1>3, <1>8, ShowsNothing
<1>9. QED
  BY <1>7, <1>8 DEF SweepDelete

(* What a thread may be after a sweep.                                     *)
LEMMA SweepEnds ==
    ASSUME NEW t \in Threads, SweepEnd(t)
    PROVE  \E th : thread' = [thread EXCEPT ![t] = th] /\ th.pc \in {"idle", "dead", "vcns"}
<1> DEFINE dead == [Idle EXCEPT !.pc = "dead"]
<1>1. Idle.pc = "idle" /\ dead.pc = "dead"
  BY DEF Idle
<1>2. CASE thread' = [thread EXCEPT ![t] = IF t = Sweeper THEN dead ELSE Idle]
  <2>1. CASE t = Sweeper
    BY <1>1, <1>2, <2>1
  <2>2. CASE t # Sweeper
    BY <1>1, <1>2, <2>2
  <2>3. QED
    BY <2>1, <2>2
<1>3. ASSUME NEW left \in Expirations,
             thread' = [thread EXCEPT ![t] =
                 IF @.op = "sweep" THEN Idle
                 ELSE [Idle EXCEPT !.pc = "vcns", !.op = thread[t].op,
                                   !.vcns = thread[t].vcns,
                                   !.left = IF thread[t].op = "enable" THEN left ELSE 0]]
      PROVE  \E th : thread' = [thread EXCEPT ![t] = th] /\ th.pc \in {"idle", "dead", "vcns"}
  <2> DEFINE next == [Idle EXCEPT !.pc = "vcns", !.op = thread[t].op, !.vcns = thread[t].vcns,
                                  !.left = IF thread[t].op = "enable" THEN left ELSE 0]
  <2>1. thread' = [thread EXCEPT ![t] = IF thread[t].op = "sweep" THEN Idle ELSE next]
    BY <1>3
  <2>2. next.pc = "vcns"
    BY DEF Idle
  <2>3. CASE thread[t].op = "sweep"
    BY <1>1, <2>1, <2>3
  <2>4. CASE thread[t].op # "sweep"
    <3>1. thread' = [thread EXCEPT ![t] = next]
      BY <2>1, <2>4
    <3> HIDE DEF next
    <3>2. QED
      BY <2>2, <3>1
  <2>5. QED
    BY <2>3, <2>4
<1>4. QED
  BY <1>2, <1>3 DEF SweepEnd

(* The leases of the logs that are gone are crossed out, or the file is    *)
(* lost with a save that is cut short.                                     *)
LEMMA SweepEndBook ==
    ASSUME IInv, Ordered(log, file, unrecorded, thread), NEW t \in Threads, SweepEnd(t), orderly
    PROVE  BookStep
<1>1. thread[t].pc = "sweep" /\ OthersRest(t) /\ log' = log
  BY WorkerAlone DEF SweepEnd, At, Rests
<1>2. PICK th : thread' = [thread EXCEPT ![t] = th] /\ th.pc \in {"idle", "dead", "vcns"}
  BY SweepEnds
<1>3. /\ log \in [LogIds -> Logs] /\ thread[t] \in Thread
      /\ SweepsRight(thread[t], log, file)
  BY <1>1, Before DEF IInv, TypeOK, WorksRight
<1>4. ShownLogs = log /\ ShownLogs' = log
  BY <1>1, <1>2, <1>3, ShownBefore, ShownAfter
<1>5. CASE file' = file /\ UNCHANGED unrecorded
  BY <1>4, <1>5 DEF BookStep
<1>6. CASE thread[t].cleaned # {} /\ file' = Pending(t) /\ UNCHANGED unrecorded
  <2> DEFINE gone == thread[t].cleaned
  <2>1. file' = file \ gone /\ gone \subseteq file
    BY <1>3, <1>6 DEF Pending, SweepsRight
  <2>2. \A l \in gone : l.left = 0 /\ l.log \in LogIds /\ log[l.log].state = "absent"
    BY <1>3 DEF SweepsRight, Thread, Leases
  <2>3. \A l \in gone : log[l.log] = Book!Absent
    BY <1>3, <2>2 DEF Logs, Book!Absent
  <2>4. gone \in SUBSET Book!Expired /\ Book!CrossOut(gone)
    BY <1>4, <1>6, <2>1, <2>2, <2>3 DEF Book!Expired, Book!CrossOut
  <2>5. QED
    BY <2>4 DEF BookStep, Book!BookNext
<1>7. ASSUME NEW lost \in Losses, file' = file \ lost,
             unrecorded' = unrecorded \cup LogsOf(lost)
      PROVE  BookStep
  <2>1. CASE lost = {}
    BY <1>4, <1>7, <2>1 DEF BookStep, LogsOf
  <2>2. CASE lost = file
    <3>1. Book!Named(file) = LogsOf(file)
      BY <1>1, NamedSeen
    <3>2. Book!Lose
      BY <1>4, <1>7, <2>2, <3>1 DEF Book!Lose
    <3>3. QED
      BY <3>2 DEF BookStep, Book!BookNext
  <2>3. QED
    BY <2>1, <2>2 DEF Losses
<1>8. QED
  BY <1>5, <1>6, <1>7 DEF SweepEnd, Unrecorded

(* Going on with the next VCN, a thread writes nothing.                    *)
LEMMA NextVcnSeen ==
    ASSUME NEW t \in Threads, NEW v, NextVcn(t, v)
    PROVE  \E th : thread' = [thread EXCEPT ![t] = th] /\ th.pc = "vcns"
<1> DEFINE th == [Idle EXCEPT !.pc = "vcns", !.op = thread[t].op,
                              !.vcns = thread[t].vcns \ {v}, !.left = thread[t].left]
<1>1. thread' = [thread EXCEPT ![t] = th]
  BY DEF NextVcn
<1>2. th.pc = "vcns"
  BY DEF Idle
<1>3. QED
  BY <1>1, <1>2

(* Asking OCI for the log of a VCN shows nothing: a log that is found on   *)
(* has its lease already, or is unrecorded.                                *)
LEMMA LookupBook ==
    ASSUME IInv, Ordered(log, file, unrecorded, thread), NEW t \in Threads, NEW v \in Vcns,
           Lookup(t, v)
    PROVE  BookStep
<1>1. thread[t].pc = "vcns" /\ OthersRest(t) /\ UNCHANGED <<log, file, unrecorded>>
  BY WorkerAlone DEF Lookup, At, Rests
<1>2. /\ thread[t].log = NoLog /\ thread[t].op \in {"enable", "disable"}
      /\ LeasedOr(thread[t], log, file, unrecorded)
  BY <1>1, Before DEF WorksRight
<1>3. thread[t] \in Thread /\ thread \in [Threads -> Thread] /\ log \in [LogIds -> Logs]
  BY DEF IInv, TypeOK
<1>4. CASE NextVcn(t, v)
  BY <1>1, <1>4, NextVcnSeen, ShowsNothing
<1>5. ASSUME NEW i \in FlowLogs(v),
             thread' = [thread EXCEPT ![t].vcn = v, ![t].log = i,
                            ![t].pc = IF thread[t].op = "enable" THEN "load" ELSE "disable"]
      PROVE  BookStep
  <2> DEFINE th == [thread[t] EXCEPT !.vcn = v, !.log = i,
                        !.pc = IF thread[t].op = "enable" THEN "load" ELSE "disable"]
  <2>1. thread' = [thread EXCEPT ![t] = th]
    BY <1>3, <1>5
  <2>2. /\ th.log = i /\ th.op = thread[t].op
        /\ th.pc = IF thread[t].op = "enable" THEN "load" ELSE "disable"
    BY <1>3 DEF Thread
  <2>3. CASE thread[t].op = "disable"
    BY <1>1, <2>1, <2>2, <2>3, ShowsNothing
  <2>4. CASE thread[t].op = "enable"
    <3>1. i \in LogIds /\ On(log, i) /\ i # NoLog
      BY NoLogAssumption DEF FlowLogs, IsEnabled, On
    <3>2. i \in unrecorded \/ \E l \in file : l.log = i
      BY <1>2, <3>1 DEF LeasedOr
    <3>3. LogsSeen(log, file, unrecorded, th) = log
      BY <1>3, <2>2, <2>4, <3>2 DEF LogsSeen, HidesLog, Writes
    <3>4. ShownLogs' = log
      BY <1>1, <2>1, <3>3, SeenAfter
    <3>5. ShownLogs = log
      BY <1>1, ShownBefore
    <3>6. QED
      BY <1>1, <3>4, <3>5 DEF BookStep
  <2>5. QED
    BY <1>2, <2>3, <2>4
<1>6. CASE thread' = [thread EXCEPT ![t].vcn = v, ![t].pc = "create"]
  <2> DEFINE th == [thread[t] EXCEPT !.vcn = v, !.pc = "create"]
  <2>1. thread' = [thread EXCEPT ![t] = th] /\ th.pc = "create"
    BY <1>3, <1>6 DEF Thread
  <2>2. QED
    BY <1>1, <2>1, ShowsNothing
<1>7. QED
  BY <1>4, <1>5, <1>6 DEF Lookup

(* The log that is created is not shown before its lease is, unless the    *)
(* answer is lost: then the book misses it.                                *)
LEMMA CreateBook ==
    ASSUME IInv, Ordered(log, file, unrecorded, thread), NEW t \in Threads, Create(t), orderly
    PROVE  BookStep
<1> DEFINE v == thread[t].vcn
<1>1. thread[t].pc = "create" /\ OthersRest(t) /\ file' = file
  BY WorkerAlone DEF Create, At, Rests
<1>2. thread[t].op = "enable" /\ NoneOn(log, v) /\ Known(log, unrecorded)
  BY <1>1, Before DEF WorksRight
<1>3. thread[t] \in Thread /\ thread \in [Threads -> Thread] /\ log \in [LogIds -> Logs] /\ v \in Vcns
  BY <1>1 DEF IInv, TypeOK, Sound
<1>4. CASE NextVcn(t, v) /\ UNCHANGED <<log, unrecorded>>
  BY <1>1, <1>4, NextVcnSeen, ShowsNothing
<1>5. ASSUME NEW i \in LogIds, Free(i),
             log' = [log EXCEPT ![i] = [state |-> "enabled", vcn |-> v]],
             \/ thread' = [thread EXCEPT ![t].pc = "load", ![t].log = i] /\ UNCHANGED unrecorded
             \/ Missed(t, i)
      PROVE  BookStep
  <2>1. log[i] = Absent /\ i \notin unrecorded /\ \A l \in file : l.log # i
    BY <1>2, <1>3, <1>5 DEF Free, Exists, Logs, Absent, Known
  <2>2. ShownLogs = log
    BY <1>1, ShownBefore
  <2>3. CASE thread' = [thread EXCEPT ![t].pc = "load", ![t].log = i] /\ UNCHANGED unrecorded
    <3> DEFINE th == [thread[t] EXCEPT !.pc = "load", !.log = i]
    <3>1. thread' = [thread EXCEPT ![t] = th]
      BY <1>3, <2>3
    <3>2. th.pc = "load" /\ th.log = i /\ th.op = "enable"
      BY <1>2, <1>3 DEF Thread
    <3> DEFINE seen == LogsSeen(log', file', unrecorded', th)
    <3>3. HidesLog(th, file', unrecorded', i) /\ \A j \in LogIds \ {i} : ~HidesLog(th, file', unrecorded', j)
      BY <1>1, <2>1, <2>3, <3>2 DEF HidesLog, Writes
    <3>4. \A j \in LogIds : seen[j] = log[j]
      BY <1>3, <1>5, <2>1, <3>2, <3>3 DEF LogsSeen, Writes
    <3>5. seen = [j \in LogIds |-> seen[j]]
      BY DEF LogsSeen
    <3>6. seen = log
      BY <1>3, <3>4, <3>5
    <3>7. ShownLogs' = seen
      BY <1>1, <3>1, SeenAfter
    <3>8. QED
      BY <1>1, <2>2, <2>3, <3>6, <3>7 DEF BookStep
  <2>4. CASE Missed(t, i)
    <3>1. NextVcn(t, v) /\ unrecorded' = unrecorded \cup {i}
      BY <2>4 DEF Missed, Unrecorded
    <3>2. log' \in [LogIds -> Logs]
      BY CreateIInv DEF IInv, TypeOK
    <3>3. ShownLogs' = log'
      BY <1>1, <3>1, <3>2, NextVcnSeen, ShownAfter
    <3>4. Book!Opens(v, i)
      BY <1>2, <1>3, <1>5, <2>1, <2>2, <3>3
         DEF Book!Opens, Book!Ingesting, Book!Absent, Absent, NoneOn, On
    <3>5. {} \in Book!Lost /\ Book!Named({}) = {}
      BY DEF Book!Lost, Book!Named
    <3>6. Book!Miss(v)
      BY <1>1, <3>1, <3>4, <3>5 DEF Book!Miss
    <3>7. QED
      BY <1>3, <3>6 DEF BookStep, Book!BookNext
  <2>5. QED
    BY <1>5, <2>3, <2>4
<1>6. QED
  BY <1>4, <1>5 DEF Create

(* The log that is switched off on request is shown as it was, until its   *)
(* lease is dropped, unless the answer is lost: then the book misses it.   *)
LEMMA DisableBook ==
    ASSUME IInv, Ordered(log, file, unrecorded, thread), NEW t \in Requests, Disable(t), orderly
    PROVE  BookStep
<1> DEFINE off == thread[t].log
<1> DEFINE v == thread[t].vcn
<1>1. t \in Threads /\ thread[t].pc = "disable" /\ OthersRest(t) /\ file' = file
  BY WorkerAlone DEF Disable, At, Rests, Threads
<1>2. thread[t].op = "disable" /\ On(log, off) /\ log[off].vcn = v
  BY <1>1, Before DEF WorksRight
<1>3. /\ thread[t] \in Thread /\ thread \in [Threads -> Thread] /\ off \in LogIds
      /\ v \in Vcns /\ log \in [LogIds -> Logs]
  BY <1>1 DEF IInv, TypeOK, Sound
<1>4. CASE NextVcn(t, v) /\ UNCHANGED <<log, unrecorded>>
  BY <1>1, <1>4, NextVcnSeen, ShowsNothing
<1>5. CASE /\ SwitchOff(off)
           /\ \/ thread' = [thread EXCEPT ![t].pc = "load"] /\ UNCHANGED unrecorded
              \/ Missed(t, off)
  <2>1. log' = [log EXCEPT ![off].state = "disabled"]
    BY <1>5 DEF SwitchOff
  <2>2. ShownLogs = log
    BY <1>1, ShownBefore
  <2>3. CASE thread' = [thread EXCEPT ![t].pc = "load"] /\ UNCHANGED unrecorded
    <3> DEFINE th == [thread[t] EXCEPT !.pc = "load"]
    <3>1. thread' = [thread EXCEPT ![t] = th]
      BY <1>1, <1>3, <2>3
    <3>2. th.pc = "load" /\ th.op = "disable" /\ th.log = off
      BY <1>2, <1>3 DEF Thread
    <3> DEFINE seen == LogsSeen(log', file', unrecorded', th)
    <3>3. \A j \in LogIds : seen[j] = IF j = off THEN [log'[j] EXCEPT !.state = "enabled"]
                                      ELSE log'[j]
      BY <3>2 DEF LogsSeen, HidesLog, Writes
    <3>4. log[off] = [state |-> "enabled", vcn |-> v]
      BY <1>2, <1>3 DEF On, Logs
    <3>5. log'[off] = [state |-> "disabled", vcn |-> v]
      <4>1. log'[off] = [log[off] EXCEPT !.state = "disabled"]
        BY <1>3, <2>1
      <4>2. QED
        BY <3>4, <4>1
    <3>6. [log'[off] EXCEPT !.state = "enabled"] = log[off]
      <4>1. [[state |-> "disabled", vcn |-> v] EXCEPT !.state = "enabled"]
                = [state |-> "enabled", vcn |-> v]
        OBVIOUS
      <4>2. QED
        BY <3>4, <3>5, <4>1
    <3>7. \A j \in LogIds : seen[j] = log[j]
      BY <1>3, <2>1, <3>3, <3>6
    <3>8. seen = [j \in LogIds |-> seen[j]]
      BY DEF LogsSeen
    <3>9. seen = log
      BY <1>3, <3>7, <3>8
    <3>10. ShownLogs' = seen
      BY <1>1, <3>1, SeenAfter
    <3>11. QED
      BY <1>1, <2>2, <2>3, <3>9, <3>10 DEF BookStep
  <2>4. CASE Missed(t, off)
    <3>1. NextVcn(t, v) /\ unrecorded' = unrecorded \cup {off}
      BY <2>4 DEF Missed, Unrecorded
    <3>2. log' \in [LogIds -> Logs]
      BY <1>1, DisableIInv DEF IInv, TypeOK
    <3>3. ShownLogs' = log'
      BY <1>1, <3>1, <3>2, NextVcnSeen, ShownAfter
    <3>4. Book!Closes(v, off)
      BY <1>2, <1>3, <2>1, <2>2, <3>3 DEF Book!Closes, Book!Ingesting, On
    <3>5. {} \in Book!Lost /\ Book!Named({}) = {}
      BY DEF Book!Lost, Book!Named
    <3>6. Book!Miss(v)
      BY <1>1, <1>3, <3>1, <3>4, <3>5 DEF Book!Miss
    <3>7. QED
      BY <1>3, <3>6 DEF BookStep, Book!BookNext
  <2>5. QED
    BY <1>5, <2>3, <2>4
<1>6. QED
  BY <1>4, <1>5 DEF Disable

(* Reading the file shows nothing; giving up makes the book miss the log.  *)
LEMMA LoadLeasesBook ==
    ASSUME IInv, Ordered(log, file, unrecorded, thread), NEW t \in Threads, LoadLeases(t), orderly
    PROVE  BookStep
<1>1. thread[t].pc = "load" /\ OthersRest(t) /\ UNCHANGED <<log, file>>
  BY WorkerAlone DEF LoadLeases, At, Rests
<1>2. thread[t] \in Thread /\ thread \in [Threads -> Thread] /\ log \in [LogIds -> Logs]
  BY DEF IInv, TypeOK
<1>3. ASSUME NEW loaded \in Loads, UNCHANGED unrecorded,
             thread' = [thread EXCEPT ![t].pc = "save", ![t].loaded = loaded]
      PROVE  BookStep
  <2> DEFINE th == [thread[t] EXCEPT !.pc = "save", !.loaded = loaded]
  <2>1. thread' = [thread EXCEPT ![t] = th]
    BY <1>2, <1>3
  <2>2. th.pc = "save" /\ th.log = thread[t].log /\ th.op = thread[t].op
    BY <1>2 DEF Thread
  <2>3. LogsSeen(log', file', unrecorded', th) = LogsSeen(log, file, unrecorded, thread[t])
    BY <1>1, <1>3, <2>2 DEF LogsSeen, HidesLog, Writes
  <2>4. ShownLogs = LogsSeen(log, file, unrecorded, thread[t])
    BY <1>1, SeenBefore
  <2> HIDE DEF th
  <2>5. ShownLogs' = LogsSeen(log', file', unrecorded', th)
    BY <1>1, <2>1, SeenAfter
  <2>6. QED
    BY <1>1, <1>3, <2>3, <2>4, <2>5 DEF BookStep
<1>4. CASE Missed(t, thread[t].log)
  <2>1. NextVcn(t, thread[t].vcn) /\ unrecorded' = unrecorded \cup {thread[t].log}
    BY <1>4 DEF Missed, Unrecorded
  <2>2. ShownLogs' = log
    BY <1>1, <1>2, <2>1, NextVcnSeen, ShownAfter
  <2>3. {} \in Losses /\ LogsOf({}) = {}
    BY DEF Losses, LogsOf
  <2>4. QED
    BY <1>1, <2>1, <2>2, <2>3, Misses
<1>5. QED
  BY <1>3, <1>4 DEF LoadLeases

(* Writing the file makes a lease known together with its log, or crosses  *)
(* out the lease of a log that is closed.  What the reading did not find   *)
(* is lost; a writing that fails is missed.                                *)
LEMMA SaveLeasesBook ==
    ASSUME IInv, Ordered(log, file, unrecorded, thread), NEW t \in Requests, SaveLeases(t), orderly
    PROVE  BookStep
<1> DEFINE v == thread[t].vcn
<1> DEFINE mine == thread[t].log
<1>1. /\ t \in Threads /\ thread[t].pc = "save" /\ OthersRest(t) /\ log' = log
      /\ NextVcn(t, v)
  BY WorkerAlone DEF SaveLeases, At, Rests, Threads
<1>2. /\ RecordsRight(thread[t], log) /\ (thread[t].loaded = file \/ thread[t].loaded = {})
      /\ LeasesNameVcns(log, file)
  BY <1>1, Before DEF WorksRight
<1>3. /\ mine \in LogIds /\ v \in Vcns /\ file \subseteq Leases
      /\ log \in [LogIds -> Logs] /\ thread[t] \in Thread
  BY <1>1 DEF IInv, TypeOK, Sound
<1>4. ShownLogs' = log
  BY <1>1, <1>3, NextVcnSeen, ShownAfter
<1>5. CASE /\ file' = Others(t) \cup (IF thread[t].op = "enable" THEN {NewLease(t)} ELSE {})
           /\ unrecorded' = (unrecorded \cup LogsOf(file \ thread[t].loaded)) \ {mine}
  <2> DEFINE lost == file \ thread[t].loaded
  <2>1. lost \in Book!Lost /\ lost \subseteq file /\ file \ lost = thread[t].loaded
    BY <1>2 DEF Book!Lost
  <2>2. Book!Named(lost) = LogsOf(lost)
    BY <1>1, <2>1, NamedSeen
  <2>3. Others(t) = {l \in thread[t].loaded : l.vcn # v}
    <3>1. \A l \in file : l.log = mine => l.vcn = v
      BY <1>2 DEF LeasesNameVcns, RecordsRight
    <3>2. QED
      BY <1>2, <3>1 DEF Others
  <2>4. Others(t) = Book!OfOthers(v, file \ lost)
    BY <2>1, <2>3 DEF Book!OfOthers
  <2>5. unrecorded' = (unrecorded \cup Book!Named(lost)) \ {mine}
    BY <1>5, <2>2
  <2> HIDE DEF lost
  <2>6. CASE thread[t].op = "disable"
    <3>1. Book!Closes(v, mine)
      BY <1>1, <1>4, <2>6, Closing
    <3>2. Book!Unlease(v)
      BY <1>3, <1>5, <2>1, <2>4, <2>5, <2>6, <3>1 DEF Book!Unlease
    <3>3. QED
      BY <1>3, <3>2 DEF BookStep, Book!BookNext
  <2>7. CASE thread[t].op = "enable"
    <3>1. Book!Opens(v, mine)
      BY <1>1, <1>4, <2>7, Opening
    <3>2. thread[t].left \in 0 .. MaxLease
      BY <1>3 DEF Thread
    <3>3. file' = Book!OfOthers(v, file \ lost)
                  \cup {[vcn |-> v, log |-> mine, left |-> thread[t].left]}
      BY <1>5, <2>4, <2>7 DEF NewLease
    <3>4. Book!Lease(v)
      BY <1>3, <2>1, <2>5, <3>1, <3>2, <3>3 DEF Book!Lease
    <3>5. QED
      BY <1>3, <3>4 DEF BookStep, Book!BookNext
  <2>8. QED
    BY <1>2, <2>6, <2>7 DEF RecordsRight
<1>6. ASSUME NEW lost \in Losses, file' = file \ lost,
             unrecorded' = unrecorded \cup LogsOf(lost) \cup {mine}
      PROVE  BookStep
  BY <1>1, <1>4, <1>6, Misses
<1>7. QED
  BY <1>5, <1>6 DEF SaveLeases, Unrecorded

(* The wall clock advances in the book as it does in the file.             *)
LEMMA TickBook ==
    ASSUME IInv, Tick
    PROVE  BookStep
<1>1. log' = log /\ file' = Aged(file) /\ file \in SUBSET Leases /\ unrecorded' = unrecorded
  BY DEF Tick, IInv, TypeOK
<1>2. ASSUME NEW t \in Threads
      PROVE  /\ thread'[t].pc = thread[t].pc /\ thread'[t].op = thread[t].op
             /\ thread'[t].log = thread[t].log
  BY DEF Tick, IInv, TypeOK, Thread
<1>3. \A i \in LogIds : (\A l \in file' : l.log # i) <=> (\A l \in file : l.log # i)
  BY <1>1, AgedLeases
<1>4. \A t \in Threads : Recording(t)' <=> Recording(t)
  BY <1>2 DEF Recording, At
<1>5. \A i \in LogIds : (ToBeLeased(i)' <=> ToBeLeased(i)) /\ (ToBeDropped(i)' <=> ToBeDropped(i))
  BY <1>1, <1>2, <1>3, <1>4 DEF ToBeLeased, ToBeDropped
<1>6. ShownLogs' = ShownLogs
  BY <1>1, <1>5 DEF ShownLogs
<1>7. file' = {[l EXCEPT !.left = Book!Earlier(@)] : l \in file}
  BY <1>1 DEF Aged, Sooner, Book!Earlier
<1>8. Book!Age
  BY <1>1, <1>6, <1>7 DEF Book!Age
<1>9. QED
  BY <1>8 DEF BookStep, Book!BookNext

(* When no thread records or removes a lease, the logs are shown as they   *)
(* are.                                                                    *)
LEMMA AllShown ==
    ASSUME log \in [LogIds -> Logs], \A t \in Threads : ~Recording(t)
    PROVE  ShownLogs = log
BY DEF ShownLogs, ToBeLeased, ToBeDropped

LEMMA AllShownAfter ==
    ASSUME log' \in [LogIds -> Logs], \A t \in Threads : ~(thread'[t].pc \in {"load", "save"})
    PROVE  ShownLogs' = log'
<1>1. \A i \in LogIds : ~ToBeLeased(i)' /\ ~ToBeDropped(i)'
  BY DEF ToBeLeased, ToBeDropped, Recording, At
<1>2. QED
  BY <1>1 DEF ShownLogs

(* The process dies: the book misses what was being recorded, and loses    *)
(* what a torn file does.                                                  *)
LEMMA CrashBook ==
    ASSUME IInv, Ordered(log, file, unrecorded, thread), Crash, orderly
    PROVE  BookStep
<1> DEFINE cut == {thread[t].log : t \in {u \in Threads : Recording(u)}}
<1>1. PICK lost \in Losses : /\ file' = file \ lost
                             /\ lost # {} => Writing
                             /\ unrecorded' = unrecorded \cup LogsOf(lost) \cup cut
  BY DEF Crash, Losses, Unrecorded
<1>2. log' = log /\ log \in [LogIds -> Logs] /\ \A t \in Threads : thread'[t].pc = "down"
  BY DEF Crash, Idle, IInv, TypeOK
<1>3. ShownLogs' = log
  BY <1>2, AllShownAfter
<1>4. CASE \E t \in Threads : Recording(t)
  <2>1. PICK t \in Threads : Recording(t)
    BY <1>4
  <2>2. thread[t].pc \in {"load", "save"} /\ OthersRest(t)
    BY <2>1, WorkerAlone DEF Recording, At, Rests
  <2>3. cut = {thread[t].log}
    BY <2>1, <2>2 DEF OthersRest, Rests, Recording, At
  <2>4. QED
    BY <1>1, <1>3, <2>2, <2>3, Misses
<1>5. CASE ~\E t \in Threads : Recording(t)
  <2>1. ShownLogs = log /\ cut = {}
    BY <1>2, <1>5, AllShown
  <2>2. CASE lost = {}
    BY <1>1, <1>3, <2>1, <2>2 DEF BookStep, LogsOf
  <2>3. CASE lost # {}
    <3>1. lost = file
      BY <2>3 DEF Losses
    <3>2. PICK t \in Threads : thread[t].pc = "sweep"
      BY <1>1, <1>5, <2>3 DEF Writing, Recording, At
    <3>3. OthersRest(t)
      BY <3>2, WorkerAlone DEF Rests
    <3>4. Book!Named(file) = LogsOf(file)
      BY <3>3, NamedSeen
    <3>5. Book!Lose
      BY <1>1, <1>3, <2>1, <3>1, <3>4 DEF Book!Lose
    <3>6. QED
      BY <3>5 DEF BookStep, Book!BookNext
  <2>4. QED
    BY <2>2, <2>3
<1>6. QED
  BY <1>4, <1>5

(* As long as no operation overlaps another one, the service implements    *)
(* the book of leases: each step is one operation of the book, or misses   *)
(* it in one of its ways, or shows nothing.                                *)
THEOREM BookRefinement == Spec => ImplementsBook
<1>1. Init => Book!BookInit
  <2>1. SUFFICES ASSUME Init PROVE Book!BookInit
    OBVIOUS
  <2>2. \A t \in Threads : ~Recording(t)
    BY <2>1 DEF Init, Idle, Recording, At
  <2>3. log \in [LogIds -> Logs]
    BY <2>1 DEF Init, Absent, Logs
  <2>4. ShownLogs = log
    BY <2>2, <2>3, AllShown
  <2>5. QED
    BY <2>1, <2>4 DEF Init, Book!BookInit, Absent, Book!Absent
<1>2. IInv /\ OInv /\ [Next]_vars => [orderly' => Book!BookNext]_(Book!bookVars)
  <2>1. SUFFICES ASSUME IInv, OInv, [Next]_vars, orderly'
                 PROVE  BookStep
    BY DEF BookStep, Book!bookVars
  <2>2. orderly /\ Ordered(log, file, unrecorded, thread)
    BY <2>1, OrderIsLost DEF OInv
  <2>3. ASSUME NEW t \in Threads, Sweep(t) PROVE BookStep
    BY <2>1, <2>2, <2>3, SweepDisableBook, SweepDeleteBook, SweepEndBook DEF Sweep
  <2>4. ASSUME NEW t \in Requests, Request(t) PROVE BookStep
    BY <2>1, <2>2, <2>4, BeginSweepBook DEF Request, Threads
  <2>5. ASSUME NEW t \in Requests, Handle(t) PROVE BookStep
    <3>1. t \in Threads
      BY DEF Threads
    <3>2. CASE Return(t)
      <4>1. /\ thread' = [thread EXCEPT ![t] = Idle] /\ UNCHANGED <<log, file, unrecorded>>
            /\ thread[t].pc = "vcns" /\ Idle.pc = "idle"
        BY <3>2 DEF Return, At, Idle
      <4>2. OthersRest(t)
        BY <2>2, <3>1, <4>1, WorkerAlone DEF Rests
      <4>3. QED
        BY <2>1, <3>1, <4>1, <4>2, ShowsNothing
    <3>3. QED
      BY <2>1, <2>2, <2>5, <3>1, <3>2, LookupBook, CreateBook, DisableBook,
         LoadLeasesBook, SaveLeasesBook DEF Handle
  <2>6. CASE BeginSweep(Sweeper, "sweep", {})
    BY <2>1, <2>2, <2>6, BeginSweepBook DEF Threads
  <2>7. CASE Restart
    <3>1. log \in [LogIds -> Logs] /\ UNCHANGED <<log, file, unrecorded>>
      BY <2>1, <2>7 DEF IInv, TypeOK, Restart
    <3>2. ShownLogs = log
      BY <2>7, <3>1, AllShown DEF Restart, Recording, At
    <3>3. ShownLogs' = log'
      <4>1. \A t \in Threads : thread'[t].pc = "idle"
        BY <2>7 DEF Restart, Idle
      <4>2. QED
        BY <3>1, <4>1, AllShownAfter
    <3>4. QED
      BY <3>1, <3>2, <3>3 DEF BookStep
  <2>8. CASE UNCHANGED vars
    BY <2>8 DEF BookStep, vars, ShownLogs, ToBeLeased, ToBeDropped, Recording, At
  <2>9. QED
    BY <2>1, <2>2, <2>3, <2>4, <2>5, <2>6, <2>7, <2>8, TickBook, CrashBook DEF Next
<1>3. QED
  BY <1>1, <1>2, LeaseInvariance, OrderInvariance, PTL DEF Spec, ImplementsBook
=============================================================================

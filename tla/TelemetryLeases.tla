-------------------------- MODULE TelemetryLeases --------------------------
(***************************************************************************)
(* Traffic telemetry: backend/app/services/traffic_telemetry.py and the    *)
(* sweeper thread of backend/app/main.py.                                  *)
(*                                                                         *)
(* Enabling telemetry for a VCN creates a Flow Log in OCI and records a    *)
(* lease for it in a JSON file; disabling it, or the sweep of expired      *)
(* leases, switches the log off and drops the lease.  Every request starts *)
(* with a sweep of its own, so sweeps run on request threads and on the    *)
(* sweeper's thread at once.  _LEASE_LOCK is held for one reading or one   *)
(* writing of the file, never from a reading to the writing based on it.   *)
(*                                                                         *)
(* Time is abstracted to the ticks a lease has left (0 once it expired).   *)
(***************************************************************************)
EXTENDS Naturals, FiniteSets

CONSTANTS
    Vcns,
    LogIds,      \* OCIDs of Flow Logs; bounds how many exist at a time
    Requests,    \* threads of the server that run request handlers
    Sweeper,     \* the thread meridian-traffic-telemetry-sweeper
    MaxLease,    \* traffic_flow_logs_max_enablement_minutes, in ticks
    CloudFaults, \* may a call to OCI fail, or take effect and its answer be lost
                 \* or name no log?
    DiskFaults,  \* may reading or writing the file of leases fail?
    Crashes,     \* may the process die?
    TornWrites,  \* may it do so, or the writing fail, after the file was truncated?
    NoLog, NoVcn

ASSUME MaxLeaseAssumption == MaxLease \in Nat \ {0}
ASSUME SweeperAssumption == Sweeper \notin Requests
ASSUME NoLogAssumption == NoLog \notin LogIds
ASSUME NoVcnAssumption == NoVcn \notin Vcns

VARIABLES
    log,        \* the Flow Logs in OCI, in Meridian's log group
    file,       \* the leases in traffic_flow_logs_lease_path
    thread,     \* the local variables of each thread
    orderly,    \* history: so far no operation began while another one ran
    unrecorded  \* history, kept while orderly: the logs that a request created,
                \* leased anew or switched off without the file getting to know, or
                \* whose leases the file lost, and that no request has settled since

vars == <<log, file, thread, orderly, unrecorded>>

Threads == Requests \cup {Sweeper}

Leases == [vcn : Vcns, log : LogIds, left : 0 .. MaxLease]

Logs == [state : {"absent"}] \cup [state : {"enabled", "disabled"}, vcn : Vcns]

Thread == [pc : {"idle", "dead", "down", "sweep", "delete", "vcns", "create", "disable",
                 "load", "save"},
           op : {"sweep", "enable", "disable"},
           vcns : SUBSET Vcns, vcn : Vcns \cup {NoVcn}, log : LogIds \cup {NoLog},
           left : 0 .. MaxLease,
           loaded : SUBSET Leases, todo : SUBSET Leases, cleaned : SUBSET Leases]

Absent == [state |-> "absent"]

Idle == [pc |-> "idle", op |-> "sweep", vcns |-> {}, vcn |-> NoVcn, log |-> NoLog,
         left |-> 0, loaded |-> {}, todo |-> {}, cleaned |-> {}]

Exists(i) == log[i].state # "absent"

IsEnabled(i) == log[i].state = "enabled"

(* Mutant of FlowLogs: require_enabled is not asked for.                   *)
AnyFlowLogs(v) == {i \in LogIds : Exists(i) /\ log[i].vcn = v}

(* The logs of a VCN that _flow_log_for_vcn(require_enabled=True) may find.*)
FlowLogs(v) == {i \in LogIds : IsEnabled(i) /\ log[i].vcn = v}

At(t, pc) == thread[t].pc = pc

Resting(t) == thread[t].pc \in {"idle", "dead", "down"}

Recording(t) == At(t, "load") \/ At(t, "save")

Init ==
    /\ log = [i \in LogIds |-> Absent]
    /\ file = {}
    /\ thread = [t \in Threads |-> Idle]
    /\ orderly = TRUE
    /\ unrecorded = {}

-----------------------------------------------------------------------------
Unrecorded(logs) == unrecorded' = IF orderly THEN logs ELSE {}

(* _load_leases: a file that cannot be read counts as empty.               *)
Loads == {file} \cup (IF DiskFaults THEN {{}} ELSE {})

(* What a writing that is cut short costs: nothing, or what was in the file.*)
Losses == {{}} \cup (IF TornWrites THEN {file} ELSE {})

LogsOf(leases) == {i \in LogIds : Exists(i) /\ \E lease \in leases : lease.log = i}

(* disable_expired_leases is entered: on the sweeper's thread, by a request*)
(* for the status, or at the start of an enable or disable request.        *)
BeginSweep(t, op, vcns) ==
    /\ At(t, "idle")
    /\ t = Sweeper => op = "sweep"
    /\ (op = "sweep") = (vcns = {})
    /\ orderly' = (orderly /\ \A u \in Threads \ {t} : Resting(u))
    /\ \E loaded \in Loads :
          thread' = [thread EXCEPT ![t] =
              [Idle EXCEPT !.pc = "sweep", !.op = op, !.vcns = vcns, !.loaded = loaded,
                           !.todo = {lease \in loaded : lease.left = 0}]]
    /\ unrecorded' = IF orderly' THEN unrecorded ELSE {}
    /\ UNCHANGED <<log, file>>

SwitchOff(i) == Exists(i) /\ log' = [log EXCEPT ![i].state = "disabled"]

(* _cleanup_log_resource, first call: update_log(is_enabled=False).  It    *)
(* fails for a log that is gone; the lease is kept when no answer comes.   *)
SweepDisable(t, lease, ok) ==
    /\ At(t, "sweep")
    /\ lease \in thread[t].todo
    /\ IF ok
       THEN /\ SwitchOff(lease.log)
            /\ thread' = [thread EXCEPT ![t].pc = "delete", ![t].log = lease.log]
       ELSE /\ \/ (CloudFaults \/ ~Exists(lease.log)) /\ UNCHANGED log
               \/ CloudFaults /\ SwitchOff(lease.log)
            /\ thread' = [thread EXCEPT ![t].todo = @ \ {lease}]
    /\ UNCHANGED <<file, orderly, unrecorded>>

DeleteLog(i) ==
    /\ Exists(i)
    /\ log' = [log EXCEPT ![i] = Absent]
    /\ unrecorded' = unrecorded \ {i}

(* _cleanup_log_resource, second call: delete_log.                         *)
SweepDelete(t, ok) ==
    /\ At(t, "delete")
    /\ IF ok
       THEN DeleteLog(thread[t].log)
       ELSE \/ (CloudFaults \/ ~Exists(thread[t].log)) /\ UNCHANGED <<log, unrecorded>>
            \/ CloudFaults /\ DeleteLog(thread[t].log)
    /\ LET mine == {lease \in thread[t].todo : lease.log = thread[t].log}
       IN  thread' = [thread EXCEPT ![t].pc = "sweep", ![t].log = NoLog,
                                    ![t].todo = @ \ mine,
                                    ![t].cleaned = IF ok THEN @ \cup mine ELSE @]
    /\ UNCHANGED <<file, orderly>>

(* Mutant of Expirations: the requested minutes are not clamped.           *)
Unclamped == 1 .. MaxLease + 1

(* _expires_at: the minutes requested, clamped to the maximum.             *)
Expirations == 1 .. MaxLease

(* Mutant of Pending: a lease whose cleanup failed is dropped as well.     *)
PendingUnexpired(t) == {lease \in thread[t].loaded : lease.left > 0}

Pending(t) == thread[t].loaded \ thread[t].cleaned

(* The sweep ends: the leases that were not cleaned up are saved, if there *)
(* are fewer of them.  A failing save ends the sweeper's thread for good,  *)
(* and the request otherwise.  expires_at is computed after the sweep.     *)
SweepEnd(t) ==
    /\ At(t, "sweep")
    /\ thread[t].todo = {}
    /\ \/ /\ file' = IF thread[t].cleaned = {} THEN file
                     ELSE Pending(t)
          /\ UNCHANGED unrecorded
          /\ \E left \in Expirations :
                thread' = [thread EXCEPT ![t] =
                    IF @.op = "sweep" THEN Idle
                    ELSE [Idle EXCEPT !.pc = "vcns", !.op = thread[t].op,
                                      !.vcns = thread[t].vcns,
                                      !.left = IF thread[t].op = "enable" THEN left ELSE 0]]
       \/ /\ DiskFaults
          /\ thread[t].cleaned # {}
          /\ thread' = [thread EXCEPT ![t] = IF t = Sweeper THEN [Idle EXCEPT !.pc = "dead"]
                                             ELSE Idle]
          /\ \E lost \in Losses : /\ file' = file \ lost
                                  /\ Unrecorded(unrecorded \cup LogsOf(lost))
    /\ UNCHANGED <<log, orderly>>

-----------------------------------------------------------------------------
(* The loop over the selected VCNs goes on after v, whose item is built.   *)
NextVcn(t, v) ==
    thread' = [thread EXCEPT ![t] = [Idle EXCEPT !.pc = "vcns", !.op = thread[t].op,
                                                 !.vcns = thread[t].vcns \ {v},
                                                 !.left = thread[t].left]]

(* The VCN's item fails, or is built, with the file knowing nothing of it. *)
Missed(t, i) ==
    /\ NextVcn(t, thread[t].vcn)
    /\ Unrecorded(unrecorded \cup {i})

(* _flow_log_for_vcn(require_enabled=True) and what its answer leads to.   *)
Lookup(t, v) ==
    /\ At(t, "vcns")
    /\ v \in thread[t].vcns
    /\ \/ \E i \in FlowLogs(v) :
             thread' = [thread EXCEPT ![t].vcn = v, ![t].log = i,
                            ![t].pc = IF thread[t].op = "enable" THEN "load" ELSE "disable"]
       \/ /\ FlowLogs(v) = {}
          /\ IF thread[t].op = "enable"
             THEN thread' = [thread EXCEPT ![t].vcn = v, ![t].pc = "create"]
             ELSE NextVcn(t, v)
       \/ CloudFaults /\ NextVcn(t, v)
    /\ UNCHANGED <<log, file, orderly, unrecorded>>

(* A log that is gone and that nobody names any more.                      *)
Free(i) ==
    /\ ~Exists(i)
    /\ \A lease \in file : lease.log # i
    /\ \A t \in Threads : /\ thread[t].log # i
                          /\ \A lease \in thread[t].loaded : lease.log # i

(* _create_flow_log.  It fails too when the tenancy has no log left.  A log *)
(* of which the answer is lost is there all the same.                      *)
Create(t) ==
    /\ At(t, "create")
    /\ \/ \E i \in LogIds :
             /\ Free(i)
             /\ log' = [log EXCEPT ![i] = [state |-> "enabled", vcn |-> thread[t].vcn]]
             /\ \/ /\ thread' = [thread EXCEPT ![t].pc = "load", ![t].log = i]
                   /\ UNCHANGED unrecorded
                \/ CloudFaults /\ Missed(t, i)
       \/ /\ CloudFaults \/ \A i \in LogIds : ~Free(i)
          /\ NextVcn(t, thread[t].vcn)
          /\ UNCHANGED <<log, unrecorded>>
    /\ UNCHANGED <<file, orderly>>

(* _disable_vcn: update_log(is_enabled=False).                             *)
Disable(t) ==
    /\ At(t, "disable")
    /\ \/ /\ SwitchOff(thread[t].log)
          /\ \/ /\ thread' = [thread EXCEPT ![t].pc = "load"]
                /\ UNCHANGED unrecorded
             \/ CloudFaults /\ Missed(t, thread[t].log)
       \/ /\ CloudFaults \/ ~Exists(thread[t].log)
          /\ NextVcn(t, thread[t].vcn)
          /\ UNCHANGED <<log, unrecorded>>
    /\ UNCHANGED <<file, orderly>>

(* _record_lease and _remove_lease read the leases.  _record_lease returns *)
(* at once if the answer of OCI named no log.                              *)
LoadLeases(t) ==
    /\ At(t, "load")
    /\ \/ /\ \E loaded \in Loads :
                thread' = [thread EXCEPT ![t].pc = "save", ![t].loaded = loaded]
          /\ UNCHANGED unrecorded
       \/ CloudFaults /\ thread[t].op = "enable" /\ Missed(t, thread[t].log)
    /\ UNCHANGED <<log, file, orderly>>

(* Mutants of Others: leases are told apart by their log only; the file is *)
(* overwritten.                                                            *)
OtherLogs(t) == {lease \in thread[t].loaded : lease.log # thread[t].log}

NoOthers(t) == {}

Others(t) == {lease \in thread[t].loaded :
                 lease.log # thread[t].log /\ lease.vcn # thread[t].vcn}

NewLease(t) == [vcn |-> thread[t].vcn, log |-> thread[t].log, left |-> thread[t].left]

(* ... and write them back, with or without a lease for this VCN.  The     *)
(* leases that the reading did not find are lost.                          *)
SaveLeases(t) ==
    /\ At(t, "save")
    /\ \/ /\ file' = Others(t) \cup (IF thread[t].op = "enable" THEN {NewLease(t)} ELSE {})
          /\ Unrecorded((unrecorded \cup LogsOf(file \ thread[t].loaded)) \ {thread[t].log})
          /\ NextVcn(t, thread[t].vcn)
       \/ /\ DiskFaults
          /\ \E lost \in Losses :
                /\ file' = file \ lost
                /\ Unrecorded(unrecorded \cup LogsOf(lost) \cup {thread[t].log})
          /\ NextVcn(t, thread[t].vcn)
    /\ UNCHANGED <<log, orderly>>

Return(t) ==
    /\ At(t, "vcns")
    /\ thread[t].vcns = {}
    /\ thread' = [thread EXCEPT ![t] = Idle]
    /\ UNCHANGED <<log, file, orderly, unrecorded>>

-----------------------------------------------------------------------------
(* Mutant of Sooner: a lease expires only after its last tick.             *)
NeverExpired(left) == IF left <= 1 THEN left ELSE left - 1

Sooner(left) == IF left = 0 THEN 0 ELSE left - 1

Aged(leases) == {[lease EXCEPT !.left = Sooner(@)] : lease \in leases}

(* The wall clock advances.                                                *)
Tick ==
    /\ file' = Aged(file)
    /\ thread' = [t \in Threads |-> [thread[t] EXCEPT !.left = Sooner(@), !.loaded = Aged(@)]]
    /\ UNCHANGED <<log, orderly, unrecorded>>

(* The process may be about to write the file.                             *)
Writing == \E t \in Threads : At(t, "save") \/ (At(t, "sweep") /\ thread[t].cleaned # {})

(* The API process dies, without recording what it was about to ...        *)
Crash ==
    /\ Crashes
    /\ ~At(Sweeper, "down")
    /\ thread' = [t \in Threads |-> [Idle EXCEPT !.pc = "down"]]
    /\ \E lost \in IF Writing THEN Losses ELSE {{}} :
          /\ file' = file \ lost
          /\ Unrecorded(unrecorded \cup LogsOf(lost)
                        \cup {thread[t].log : t \in {u \in Threads : Recording(u)}})
    /\ UNCHANGED <<log, orderly>>

(* ... and systemd starts it again.                                        *)
Restart ==
    /\ \A t \in Threads : At(t, "down")
    /\ thread' = [t \in Threads |-> Idle]
    /\ UNCHANGED <<log, file, orderly, unrecorded>>

Sweep(t) == \/ \E lease \in thread[t].todo, ok \in BOOLEAN : SweepDisable(t, lease, ok)
            \/ \E ok \in BOOLEAN : SweepDelete(t, ok)
            \/ SweepEnd(t)

Handle(t) == \/ \E v \in Vcns : Lookup(t, v)
             \/ Create(t) \/ Disable(t) \/ LoadLeases(t) \/ SaveLeases(t) \/ Return(t)

Request(t) == \E op \in {"sweep", "enable", "disable"}, vcns \in SUBSET Vcns :
                 BeginSweep(t, op, vcns)

Next == \/ \E t \in Threads : Sweep(t)
        \/ \E t \in Requests : Request(t) \/ Handle(t)
        \/ BeginSweep(Sweeper, "sweep", {})
        \/ Tick
        \/ Crash
        \/ Restart

Spec == Init /\ [][Next]_vars
-----------------------------------------------------------------------------
TypeOK ==
    /\ log \in [LogIds -> Logs]
    /\ file \subseteq Leases
    /\ thread \in [Threads -> Thread]
    /\ orderly \in BOOLEAN
    /\ unrecorded \subseteq LogIds

(* The file names no VCN and no Flow Log twice, however the readings and   *)
(* writings of sweeps and requests interleave, fail or tear: a lease that  *)
(* a later enable replaced never comes back beside its successor.          *)
UniqueLeases ==
    \A l, m \in file : l.vcn = m.vcn \/ l.log = m.log => l = m

(* As long as no operation began while another one ran: a Flow Log that    *)
(* ingests has a lease, or the request that created it is about to record  *)
(* one, or it is one of which the file never got to know or lost what it   *)
(* knew (traffic_telemetry.py:131, 675, 682 and 685). A log without a      *)
(* lease is never swept; no other step of a request, of a sweep, of a      *)
(* retry or of a restart leaves one behind.                                *)
EnabledLogsAreLeased ==
    orderly => \A i \in LogIds : IsEnabled(i) =>
        \/ \E lease \in file : lease.log = i
        \/ \E t \in Threads : thread[t].log = i /\ thread[t].op = "enable"
        \/ i \in unrecorded

(* As long as no operation began while another one ran: a lease that has   *)
(* not expired is the lease of a log that ingests, as the answer to the    *)
(* enable request says (traffic_telemetry.py:340, "is leased until"),      *)
(* unless a request has just disabled the log and will drop its lease, or  *)
(* the file did not get to know that the log was disabled.                 *)
LeasesAreHonoured ==
    orderly => \A lease \in file : lease.left > 0 =>
        \/ IsEnabled(lease.log)
        \/ \E t \in Requests : thread[t].log = lease.log /\ thread[t].op = "disable"
        \/ lease.log \in unrecorded

-----------------------------------------------------------------------------
(* The service implements LeaseBook.  What a request changed in OCI counts *)
(* as soon as the file says so too, or as it has become sure that the file *)
(* will not.                                                               *)
ToBeLeased(i) ==
    /\ \E t \in Threads : Recording(t) /\ thread[t].op = "enable" /\ thread[t].log = i
    /\ \A lease \in file : lease.log # i
    /\ i \notin unrecorded

ToBeDropped(i) ==
    \E t \in Threads : Recording(t) /\ thread[t].op = "disable" /\ thread[t].log = i

ShownLogs ==
    [i \in LogIds |-> IF ToBeLeased(i) THEN Absent
                      ELSE IF ToBeDropped(i) THEN [log[i] EXCEPT !.state = "enabled"]
                      ELSE log[i]]

Book == INSTANCE LeaseBook WITH flow <- ShownLogs, book <- file, missed <- unrecorded

(* As long as no operation begins while another one runs, each step on the *)
(* Flow Logs and on the file is one of the book, or changes nothing that   *)
(* it shows: the many calls of a request, of which any may fail or go      *)
(* unanswered, and the sweeps in two steps and a save act as single        *)
(* operations on one lease each, or miss the book in one of its ways.      *)
ImplementsBook == Book!BookInit /\ [][orderly' => Book!BookNext]_(Book!bookVars)

-----------------------------------------------------------------------------
(* Fairness.  The sweeper's thread keeps running and wakes up again and    *)
(* again, time passes, and OCI does not fail for ever when the sweeper     *)
(* asks it to switch off or to delete the same log, nor the file each time *)
(* the sweeper reads it.  Nothing is asked of the threads of requests.     *)
LogOff(i) == \E lease \in thread[Sweeper].todo :
                lease.log = i /\ SweepDisable(Sweeper, lease, TRUE)

LogGone(i) == thread[Sweeper].log = i /\ SweepDelete(Sweeper, TRUE)

SweepReads == BeginSweep(Sweeper, "sweep", {}) /\ thread'[Sweeper].loaded = file

Fairness ==
    /\ WF_vars(Sweep(Sweeper))
    /\ SF_vars(SweepReads)
    /\ WF_vars(Tick)
    /\ \A i \in LogIds : SF_vars(LogOff(i)) /\ SF_vars(LogGone(i))

LiveSpec == Spec /\ Fairness

Quiet == \A t \in Requests : Resting(t)

SweeperAlive == ~At(Sweeper, "dead") /\ ~At(Sweeper, "down")

(* Once requests stop and the process stays up, every log that the file    *)
(* still holds a lease for is switched off in the end, whatever races,     *)
(* crashes, failing calls to OCI and failing files came before: neither a  *)
(* cleanup that fails nor a lease that a slower sweep brought back is in   *)
(* the way.  Only a save that fails is, as it ends the sweeper's thread    *)
(* until the process is restarted.                                         *)
LeasesSettle ==
    <>[](Quiet /\ SweeperAlive) => <>[](\A lease \in file : ~IsEnabled(lease.log))

(* docs/operations.md:188, "the VM sweeper disables/deletes expired        *)
(* Meridian-created Flow Logs so log ingestion does not keep running":     *)
(* once requests stop, no Flow Log ingests for ever.                       *)
IngestionStops ==
    <>[]Quiet => <>[](\A i \in LogIds : ~IsEnabled(i))

(* It does hold if no operation begins while another one runs and the      *)
(* sweeper's thread stays alive, but for the logs of which the file never  *)
(* got to know or lost what it knew: every other log is switched off.      *)
IngestionStopsIfOrderly ==
    []orderly /\ <>[](Quiet /\ SweeperAlive) =>
        <>[](\A i \in LogIds : IsEnabled(i) => i \in unrecorded)
=============================================================================

------------------------------ MODULE LeaseBook ------------------------------
(***************************************************************************)
(* What traffic telemetry promises its users, whatever its file, threads   *)
(* and sweeps do: a book of leases beside the Flow Logs, in which a log    *)
(* begins to ingest, and stops, in one step with the entry that is made or *)
(* crossed out.  A log of which the lease has not expired is not touched,  *)
(* but by the request to disable it.  Where a fault makes the book miss a  *)
(* change, or lose its entries, the logs concerned are on a list.          *)
(***************************************************************************)
EXTENDS Naturals

CONSTANTS Vcns, LogIds, MaxLease

VARIABLES
    flow,   \* the Flow Logs: absent, enabled or disabled, and of which VCN
    book,   \* the leases
    missed  \* the logs that a fault has put at odds with the book

bookVars == <<flow, book, missed>>

Absent == [state |-> "absent"]

BookInit ==
    /\ flow = [i \in LogIds |-> Absent]
    /\ book = {}
    /\ missed = {}

Ingesting(v) == {i \in LogIds : flow[i].state = "enabled" /\ flow[i].vcn = v}

(* The log that ingests for a VCN stays, or a new one begins to ingest.    *)
Opens(v, i) ==
    \/ Ingesting(v) = {i} /\ UNCHANGED flow
    \/ /\ Ingesting(v) = {} /\ flow[i] = Absent
       /\ flow' = [flow EXCEPT ![i] = [state |-> "enabled", vcn |-> v]]

(* The log of a VCN is switched off.                                       *)
Closes(v, i) ==
    /\ i \in Ingesting(v)
    /\ flow' = [flow EXCEPT ![i].state = "disabled"]

(* The entries that are lost by chance: none, or all of them.              *)
Lost == {{}, book}

Named(leases) == {i \in LogIds : flow[i] # Absent /\ \E lease \in leases : lease.log = i}

OfOthers(v, leases) == {lease \in leases : lease.vcn # v}

(* A log ingests for a VCN and gets the VCN's lease.  It may have expired  *)
(* by the time the request is done.                                        *)
Lease(v) ==
    \E i \in LogIds, left \in 0 .. MaxLease, lost \in Lost :
        /\ Opens(v, i)
        /\ book' = OfOthers(v, book \ lost) \cup {[vcn |-> v, log |-> i, left |-> left]}
        /\ missed' = (missed \cup Named(lost)) \ {i}

(* The log of a VCN is switched off, and its lease is crossed out.         *)
Unlease(v) ==
    \E i \in LogIds, lost \in Lost :
        /\ Closes(v, i)
        /\ book' = OfOthers(v, book \ lost)
        /\ missed' = (missed \cup Named(lost)) \ {i}

(* The same, but for the entry, which is not made or not crossed out.      *)
Miss(v) ==
    \E i \in LogIds, lost \in Lost :
        /\ Opens(v, i) \/ Closes(v, i)
        /\ book' = book \ lost
        /\ missed' = missed \cup Named(lost) \cup {i}

(* The book is lost.                                                       *)
Lose ==
    /\ book' = {}
    /\ missed' = missed \cup Named(book)
    /\ UNCHANGED flow

Expired == {lease \in book : lease.left = 0}

(* The log of an expired lease is switched off, if it was not yet ...      *)
SwitchOff(lease) ==
    /\ flow[lease.log] # Absent
    /\ flow' = [flow EXCEPT ![lease.log].state = "disabled"]
    /\ UNCHANGED <<book, missed>>

(* ... and then deleted ...                                                *)
Delete(lease) ==
    /\ flow[lease.log].state = "disabled"
    /\ flow' = [flow EXCEPT ![lease.log] = Absent]
    /\ missed' = missed \ {lease.log}
    /\ UNCHANGED book

(* ... and leases whose logs are gone are crossed out.                     *)
CrossOut(leases) ==
    /\ \A lease \in leases : flow[lease.log] = Absent
    /\ book' = book \ leases
    /\ UNCHANGED <<flow, missed>>

Earlier(left) == IF left = 0 THEN 0 ELSE left - 1

Age ==
    /\ book' = {[lease EXCEPT !.left = Earlier(@)] : lease \in book}
    /\ UNCHANGED <<flow, missed>>

BookNext ==
    \/ \E v \in Vcns : Lease(v) \/ Unlease(v) \/ Miss(v)
    \/ Lose
    \/ \E lease \in Expired : SwitchOff(lease) \/ Delete(lease)
    \/ \E leases \in SUBSET Expired : CrossOut(leases)
    \/ Age
=============================================================================

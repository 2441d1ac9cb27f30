---------------------------- MODULE SnapshotFeed ----------------------------
(***************************************************************************)
(* What the asynchronous collection cache promises its clients, whatever   *)
(* its locks, futures, memory and files do: for each key a durable cell    *)
(* that holds the last snapshot installed, and at most one collection,     *)
(* whose outcome replaces the cell, is discarded or is lost in a restart.  *)
(* A restart costs collections and, if writes can tear, at most one cell.  *)
(***************************************************************************)
EXTENDS Naturals

CONSTANTS Keys, TTL, NoSnap,
    TornWrites  \* may a restart find a cell that was being replaced torn?

VARIABLES
    cell,      \* the snapshot a client is shown
    outcome,   \* the outcome of a collection that nobody has asked about yet
    collecting \* the keys that are being collected

feedVars == <<cell, outcome, collecting>>

FeedInit ==
    /\ cell = [k \in Keys |-> NoSnap]
    /\ outcome = [k \in Keys |-> NoSnap]
    /\ collecting = {}

(* A collection starts only when none is under way for the key.            *)
Begin(k) ==
    /\ k \notin collecting
    /\ collecting' = collecting \cup {k}
    /\ outcome' = [outcome EXCEPT ![k] = NoSnap]
    /\ UNCHANGED cell

Complete(k, ok) ==
    /\ k \in collecting
    /\ collecting' = collecting \ {k}
    /\ outcome' = [outcome EXCEPT ![k] = [age |-> 0, ok |-> ok]]
    /\ UNCHANGED cell

Install(k) ==
    /\ outcome[k] # NoSnap
    /\ cell' = [cell EXCEPT ![k] = outcome[k]]
    /\ outcome' = [outcome EXCEPT ![k] = NoSnap]
    /\ UNCHANGED collecting

(* Clearing forgets the cell and a finished collection, not a running one. *)
Forget(k) ==
    /\ cell' = [cell EXCEPT ![k] = NoSnap]
    /\ outcome' = [outcome EXCEPT ![k] = NoSnap]
    /\ UNCHANGED collecting

Later(snap) == IF snap = NoSnap \/ snap.age > TTL THEN snap
               ELSE [snap EXCEPT !.age = @ + 1]

Age ==
    /\ cell' = [k \in Keys |-> Later(cell[k])]
    /\ outcome' = [k \in Keys |-> Later(outcome[k])]
    /\ UNCHANGED collecting

Restart ==
    /\ collecting' = {}
    /\ outcome' = [k \in Keys |-> NoSnap]
    /\ \/ UNCHANGED cell
       \/ TornWrites /\ \E k \in Keys : cell' = [cell EXCEPT ![k] = NoSnap]

FeedNext ==
    \/ \E k \in Keys : \/ Begin(k) \/ Install(k) \/ Forget(k)
                       \/ \E ok \in BOOLEAN : Complete(k, ok)
    \/ Age
    \/ Restart

FeedSpec == FeedInit /\ [][FeedNext]_feedVars
=============================================================================

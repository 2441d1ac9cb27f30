----------------------------- MODULE ActionLog -----------------------------
(***************************************************************************)
(* The history of security finding actions in Object Storage:              *)
(* backend/app/services/security_actions.py.                               *)
(*                                                                         *)
(* One object holds one action per line.  POST /api/security/              *)
(* finding-actions downloads it, appends a line and uploads the whole      *)
(* again, on a request thread and under no lock; a download that fails for *)
(* any reason counts as an empty history.  The browser sends each action   *)
(* once.  GET lists what it downloads, newest first, and changes nothing.  *)
(***************************************************************************)
EXTENDS Naturals, Sequences

CONSTANTS
    Actions,       \* the actions that users submit, each with an id of its own
    Threads,       \* threads of the server that run request handlers
    MaxCrashes,    \* bound: how often the process dies
    NoAction

ASSUME ActionsAssumption == NoAction \notin Actions
ASSUME MaxCrashesAssumption == MaxCrashes \in Nat

VARIABLES
    object,    \* the lines of the object (none: it does not exist yet)
    thread,    \* the local variables of each thread
    before,    \* history: what had been answered when an action was submitted
    answered,  \* the actions whose POST was answered with 201
    alone,     \* history: no posts have overlapped, no download has failed
    crashes

vars == <<object, thread, before, answered, alone, crashes>>

Thread == [pc : {"idle", "download", "upload"}, action : Actions \cup {NoAction},
           lines : Seq(Actions)]

Idle == [pc |-> "idle", action |-> NoAction, lines |-> <<>>]

At(t, pc) == thread[t].pc = pc

(* The actions submitted so far.                                           *)
Submitted == DOMAIN before

Init ==
    /\ object = <<>>
    /\ thread = [t \in Threads |-> Idle]
    /\ before = <<>>
    /\ answered = {}
    /\ alone = TRUE
    /\ crashes = 0

(* record_action is entered: the action gets its id.                       *)
Submit(t, action) ==
    /\ At(t, "idle")
    /\ action \notin Submitted
    /\ thread' = [thread EXCEPT ![t].pc = "download", ![t].action = action]
    /\ before' = [a \in Submitted \cup {action} |-> IF a = action THEN answered ELSE before[a]]
    /\ alone' = (alone /\ \A u \in Threads : At(u, "idle"))
    /\ UNCHANGED <<object, answered, crashes>>

(* Mutants of NewLines: the action is put in front; the lines that were    *)
(* downloaded are dropped; the action is appended twice.                   *)
Prepended(lines, action) == <<action>> \o lines

Restarted(lines, action) == <<action>>

Doubled(lines, action) == lines \o <<action, action>>

NewLines(lines, action) == Append(lines, action)

(* _download_lines, and the line appended to what it returns: nothing, if  *)
(* the download fails although the object exists.                          *)
Download(t) ==
    /\ At(t, "download")
    /\ \E lines \in {object, <<>>} :
          /\ thread' = [thread EXCEPT ![t].pc = "upload",
                                      ![t].lines = NewLines(lines, thread[t].action)]
          /\ alone' = (alone /\ lines = object)
    /\ UNCHANGED <<object, before, answered, crashes>>

(* _upload_lines.  A put replaces the object as a whole; if it fails the   *)
(* request does, whether or not the object was replaced.                   *)
Upload(t) ==
    /\ At(t, "upload")
    /\ \/ /\ object' = thread[t].lines
          /\ answered' = answered \cup {thread[t].action}
       \/ /\ object' \in {object, thread[t].lines}
          /\ UNCHANGED answered
    /\ thread' = [thread EXCEPT ![t] = Idle]
    /\ UNCHANGED <<before, alone, crashes>>

(* The API process dies and is restarted.                                  *)
Crash ==
    /\ crashes < MaxCrashes
    /\ crashes' = crashes + 1
    /\ thread' = [t \in Threads |-> Idle]
    /\ UNCHANGED <<object, before, answered, alone>>

Next == \/ \E t \in Threads : \/ \E action \in Actions : Submit(t, action)
                              \/ Download(t)
                              \/ Upload(t)
        \/ Crash
        \/ /\ Submitted = Actions     \* every action has been submitted
           /\ \A t \in Threads : At(t, "idle")
           /\ UNCHANGED vars

Spec == Init /\ [][Next]_vars

-----------------------------------------------------------------------------
TypeOK ==
    /\ object \in Seq(Actions)
    /\ thread \in [Threads -> Thread]
    /\ Submitted \subseteq Actions /\ \A a \in Submitted : before[a] \subseteq Actions
    /\ answered \subseteq Submitted
    /\ alone \in BOOLEAN
    /\ crashes \in 0 .. MaxCrashes

(* Whatever overlaps, fails or dies: the history lists no action twice,    *)
(* and none before one that had been answered when it was submitted.  The  *)
(* list shown newest first is in the order in which users acted.           *)
HistoryInOrder ==
    \A m, n \in 1 .. Len(object) : m < n =>
        /\ object[m] # object[n]
        /\ object[n] \notin before[object[m]]

(* As long as no posts have overlapped and no download has failed, the     *)
(* object is an archive: it only grows, by whole actions at its end,       *)
(* whatever uploads fail and whenever the process dies.                    *)
ArchiveWhileAlone ==
    [][alone' => \E action \in Actions : object' = Append(object, action)]_object

(* As long as no posts have overlapped and no download has failed, an      *)
(* action that was answered with 201 is in the history.                    *)
RetainedWhileAlone == alone => \A a \in answered : \E n \in 1 .. Len(object) : object[n] = a
=============================================================================

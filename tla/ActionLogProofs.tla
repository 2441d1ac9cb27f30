-------------------------- MODULE ActionLogProofs --------------------------
(***************************************************************************)
(* Three results about the history of security actions.                      *)
(*                                                                         *)
(* HistoryInOrder holds however posts overlap and fail.  It is not         *)
(* inductive: an upload replaces the history by what was computed from an  *)
(* earlier download.  What makes it so is that the lines in the hands of a *)
(* thread are in order as well, and that its action is nowhere else yet.   *)
(*                                                                         *)
(* As long as no posts have overlapped and no download has failed, the     *)
(* lines of a thread that uploads are the object and one more action: the  *)
(* object only grows, and keeps every action that was answered.            *)
(***************************************************************************)
EXTENDS ActionLog, TLAPS

Elements(s) == {s[n] : n \in 1 .. Len(s)}

InOrder(s) ==
    \A m, n \in 1 .. Len(s) : m < n => s[m] # s[n] /\ s[n] \notin before[s[m]]

(* The action of a busy thread is unanswered and in no other hands.        *)
OnlyHere(t) ==
    ~At(t, "idle") =>
        /\ thread[t].action \in Submitted \ answered
        /\ thread[t].action \notin Elements(object)
        /\ \A u \in Threads \ {t} : /\ thread[t].action \notin Elements(thread[u].lines)
                                    /\ ~At(u, "idle") => thread[u].action # thread[t].action

LinesOK(t) ==
    /\ Elements(thread[t].lines) \subseteq Submitted
    /\ InOrder(thread[t].lines)
    /\ ~At(t, "upload") => thread[t].lines = <<>>

IInv ==
    /\ TypeOK
    /\ \A a \in Submitted : before[a] \subseteq answered
    /\ Elements(object) \subseteq Submitted
    /\ InOrder(object)
    /\ \A t \in Threads : OnlyHere(t) /\ LinesOK(t)

(* Appending adds one element, at the end.                                 *)
LEMMA Appended ==
    ASSUME NEW S, NEW s \in Seq(S), NEW e
    PROVE  /\ Len(Append(s, e)) = Len(s) + 1
           /\ \A n \in 1 .. Len(s) : Append(s, e)[n] = s[n]
           /\ Append(s, e)[Len(s) + 1] = e
           /\ Elements(Append(s, e)) = Elements(s) \cup {e}
<1>1. Append(s, e) \in Seq(S \cup {e})
  OBVIOUS
<1>2. /\ Len(Append(s, e)) = Len(s) + 1
      /\ \A n \in 1 .. Len(s) : Append(s, e)[n] = s[n]
      /\ Append(s, e)[Len(s) + 1] = e
  OBVIOUS
<1>3. Len(s) \in Nat
  OBVIOUS
<1>4. 1 .. Len(Append(s, e)) = (1 .. Len(s)) \cup {Len(s) + 1}
  BY <1>2, <1>3
<1>5. Elements(Append(s, e)) = Elements(s) \cup {e}
  BY <1>2, <1>4 DEF Elements
<1>6. QED
  BY <1>2, <1>5

(* Init establishes the invariant.                                         *)
LEMMA InitIInv == Init => IInv
<1>1. SUFFICES ASSUME Init PROVE IInv
  OBVIOUS
<1>2. TypeOK /\ Submitted = {}
  BY <1>1, MaxCrashesAssumption DEF Init, TypeOK, Thread, Idle, Submitted
<1>3. Elements(<<>>) = {} /\ InOrder(<<>>)
  BY DEF Elements, InOrder
<1>4. QED
  BY <1>1, <1>2, <1>3 DEF IInv, Init, Idle, At, OnlyHere, LinesOK

(* A new action has been answered by nobody and is in no history.          *)
LEMMA SubmitIInv ==
    ASSUME IInv, NEW t \in Threads, NEW action \in Actions, Submit(t, action)
    PROVE  IInv'
<1> USE DEF IInv
<1>1. /\ action \notin Submitted
      /\ Submitted' = Submitted \cup {action}
      /\ \A a \in Submitted : before'[a] = before[a]
      /\ before'[action] = answered
      /\ UNCHANGED <<object, answered, crashes>> /\ alone' \in BOOLEAN
  BY DEF Submit, Submitted, TypeOK
<1>2. /\ thread'[t] = [thread[t] EXCEPT !.pc = "download", !.action = action]
      /\ \A u \in Threads \ {t} : thread'[u] = thread[u]
      /\ thread' \in [Threads -> Thread]
  BY DEF Submit, TypeOK, Thread
<1>3. /\ At(t, "idle") /\ At(t, "download")'
      /\ thread'[t].lines = <<>> /\ thread'[t].action = action
  BY <1>2 DEF Submit, At, LinesOK, TypeOK, Thread
<1>4. TypeOK'
  BY <1>1, <1>2 DEF TypeOK
<1>5. \A a \in Submitted' : before'[a] \subseteq answered'
  BY <1>1
<1>6. ASSUME NEW s \in Seq(Actions), Elements(s) \subseteq Submitted, InOrder(s)
      PROVE  InOrder(s)'
  BY <1>1, <1>6 DEF InOrder, Elements
<1>7. Elements(object)' \subseteq Submitted' /\ InOrder(object)'
  <2>1. InOrder(object)'
    BY <1>1 DEF InOrder, Elements
  <2>2. QED
    BY <1>1, <2>1 DEF Elements
<1>8. ASSUME NEW u \in Threads PROVE OnlyHere(u)' /\ LinesOK(u)'
  <2>1. CASE u = t
    <3>1. \A w \in Threads \ {t} : /\ action \notin Elements(thread[w].lines)
                                   /\ ~At(w, "idle") => thread[w].action # action
      BY <1>1 DEF LinesOK, OnlyHere
    <3>2. OnlyHere(t)'
      BY <1>1, <1>2, <1>3, <3>1 DEF OnlyHere, At, Elements, TypeOK
    <3>3. LinesOK(t)'
      BY <1>3 DEF LinesOK, InOrder, Elements, At
    <3>4. QED
      BY <2>1, <3>2, <3>3
  <2>2. CASE u # t
    <3>1. LinesOK(u)'
      BY <1>1, <1>2, <2>2 DEF LinesOK, InOrder, Elements, At
    <3>2. ~At(u, "idle") => thread[u].action # action
      BY <1>1 DEF OnlyHere
    <3>3. OnlyHere(u)'
      <4>1. SUFFICES ASSUME ~At(u, "idle")'
                     PROVE  /\ thread'[u].action \in Submitted' \ answered'
                            /\ thread'[u].action \notin Elements(object)'
                            /\ \A w \in Threads \ {u} :
                                  /\ thread'[u].action \notin Elements(thread[w].lines)'
                                  /\ ~At(w, "idle")' => thread'[w].action # thread'[u].action
        BY DEF OnlyHere
      <4>2. ~At(u, "idle") /\ thread'[u] = thread[u] /\ OnlyHere(u)
        BY <1>2, <2>2, <4>1 DEF At
      <4>3. Elements(object)' = Elements(object)
        BY <1>1 DEF Elements
      <4>4. ASSUME NEW w \in Threads \ {u}
            PROVE  /\ thread'[u].action \notin Elements(thread[w].lines)'
                   /\ ~At(w, "idle")' => thread'[w].action # thread'[u].action
        <5>1. CASE w = t
          BY <1>3, <3>2, <4>2, <5>1 DEF Elements
        <5>2. CASE w # t
          <6>1. thread'[w] = thread[w]
            BY <1>2, <5>2
          <6>2. Elements(thread[w].lines)' = Elements(thread[w].lines) /\ (At(w, "idle")' <=> At(w, "idle"))
            BY <6>1 DEF Elements, At
          <6>3. QED
            BY <4>2, <6>1, <6>2 DEF OnlyHere
        <5>3. QED
          BY <5>1, <5>2
      <4>5. QED
        BY <1>1, <4>2, <4>3, <4>4 DEF OnlyHere
    <3>4. QED
      BY <3>1, <3>3
  <2>3. QED
    BY <2>1, <2>2
<1>9. QED
  BY <1>4, <1>5, <1>7, <1>8

(* Appending the thread's own action to lines that lack it.                *)
LEMMA AppendInOrder ==
    ASSUME IInv, NEW t \in Threads, At(t, "download"),
           NEW lines \in Seq(Actions), lines = object \/ lines = <<>>
    PROVE  /\ Append(lines, thread[t].action) \in Seq(Actions)
           /\ Elements(Append(lines, thread[t].action)) \subseteq
                  Elements(object) \cup {thread[t].action}
           /\ InOrder(Append(lines, thread[t].action))
<1> DEFINE a == thread[t].action
<1> DEFINE new == Append(lines, a)
<1>1. a \in Submitted \ answered /\ a \notin Elements(object) /\ a \in Actions
  BY DEF IInv, OnlyHere, At, TypeOK
<1>2. Elements(lines) \subseteq Elements(object) /\ InOrder(lines) /\ Elements(object) \subseteq Submitted
  BY DEF IInv, Elements, InOrder
<1>3. /\ Len(new) = Len(lines) + 1 /\ Len(lines) \in Nat
      /\ \A n \in 1 .. Len(lines) : new[n] = lines[n]
      /\ new[Len(lines) + 1] = a
      /\ Elements(new) = Elements(lines) \cup {a}
  BY Appended
<1>4. ASSUME NEW m \in 1 .. Len(new), NEW n \in 1 .. Len(new), m < n
      PROVE  new[m] # new[n] /\ new[n] \notin before[new[m]]
  <2>1. m \in 1 .. Len(lines) /\ new[m] = lines[m] /\ lines[m] \in Elements(lines)
    BY <1>3, <1>4 DEF Elements
  <2>2. CASE n \in 1 .. Len(lines)
    BY <1>2, <1>3, <1>4, <2>1, <2>2 DEF InOrder
  <2>3. CASE n = Len(lines) + 1
    BY <1>1, <1>2, <1>3, <2>1, <2>3 DEF IInv
  <2>4. QED
    BY <1>3, <2>2, <2>3
<1>5. QED
  BY <1>1, <1>2, <1>3, <1>4 DEF InOrder

(* A download puts the thread's own action behind what it read.            *)
LEMMA DownloadIInv ==
    ASSUME IInv, NEW t \in Threads, Download(t)
    PROVE  IInv'
<1> USE DEF IInv
<1> DEFINE a == thread[t].action
<1>1. PICK lines \in {object, <<>>} :
          /\ thread' = [thread EXCEPT ![t].pc = "upload", ![t].lines = Append(lines, a)]
          /\ alone' = (alone /\ lines = object)
  BY DEF Download, NewLines
<1> DEFINE new == Append(lines, a)
<1>2. /\ At(t, "download") /\ UNCHANGED <<object, before, answered, crashes>>
      /\ lines \in Seq(Actions) /\ (lines = object \/ lines = <<>>)
  <2>1. At(t, "download") /\ UNCHANGED <<object, before, answered, crashes>>
    BY DEF Download
  <2>2. object \in Seq(Actions) /\ <<>> \in Seq(Actions)
    BY DEF TypeOK
  <2>3. QED
    BY <2>1, <2>2
<1>3. /\ new \in Seq(Actions)
      /\ Elements(new) \subseteq Elements(object) \cup {a}
      /\ InOrder(new)
  BY <1>2, AppendInOrder
<1> HIDE DEF new
<1>4. /\ thread'[t].pc = "upload" /\ thread'[t].action = a /\ thread'[t].lines = new
      /\ \A u \in Threads \ {t} : thread'[u] = thread[u]
      /\ thread' \in [Threads -> Thread]
  BY <1>1, <1>3 DEF TypeOK, Thread, new
<1>5. TypeOK' /\ Submitted' = Submitted
  BY <1>1, <1>2, <1>4 DEF TypeOK, Submitted
<1>6. a \in Submitted
  BY <1>2 DEF OnlyHere, At
<1>7. ASSUME NEW u \in Threads PROVE OnlyHere(u)' /\ LinesOK(u)'
  <2>1. CASE u = t
    <3>1. OnlyHere(t)'
      BY <1>2, <1>4, <1>5 DEF OnlyHere, At, Elements
    <3>2. LinesOK(t)'
      <4>1. Elements(new) \subseteq Submitted
        BY <1>3, <1>6
      <4>2. InOrder(thread[t].lines)'
        BY <1>2, <1>3, <1>4 DEF InOrder
      <4>3. Elements(thread[t].lines)' = Elements(new)
        BY <1>4 DEF Elements
      <4>4. QED
        BY <1>4, <1>5, <4>1, <4>2, <4>3 DEF LinesOK, At
    <3>3. QED
      BY <2>1, <3>1, <3>2
  <2>2. CASE u # t
    <3>1. LinesOK(u)'
      BY <1>2, <1>4, <1>5, <2>2 DEF LinesOK, InOrder, Elements, At
    <3>2. ~At(u, "idle") => thread[u].action \notin Elements(new)
      BY <1>2, <1>3, <2>2 DEF OnlyHere, At
    <3>3. OnlyHere(u)'
      BY <1>2, <1>4, <1>5, <2>2, <3>2 DEF OnlyHere, At, Elements
    <3>4. QED
      BY <3>1, <3>3
  <2>3. QED
    BY <2>1, <2>2
<1>8. InOrder(object)' /\ Elements(object)' \subseteq Submitted'
  BY <1>2, <1>5 DEF InOrder, Elements
<1>9. QED
  BY <1>2, <1>5, <1>7, <1>8

(* An upload replaces the history by lines that are in order.              *)
LEMMA UploadIInv ==
    ASSUME IInv, NEW t \in Threads, Upload(t)
    PROVE  IInv'
<1> USE DEF IInv
<1> DEFINE a == thread[t].action
<1>1. /\ At(t, "upload") /\ UNCHANGED <<before, alone, crashes>>
      /\ object' \in {object, thread[t].lines}
      /\ answered' \in {answered, answered \cup {a}}
      /\ a \in Submitted
  BY DEF Upload, OnlyHere, At
<1>2. /\ thread'[t] = Idle
      /\ \A u \in Threads \ {t} : thread'[u] = thread[u]
      /\ thread' \in [Threads -> Thread]
  BY DEF Upload, TypeOK, Thread, Idle
<1>3. TypeOK' /\ Submitted' = Submitted
  <2>1. object' \in Seq(Actions)
    BY <1>1 DEF TypeOK, Thread
  <2>2. Submitted' = Submitted
    BY <1>1 DEF Submitted
  <2>3. QED
    BY <1>1, <1>2, <2>1, <2>2 DEF TypeOK
<1>4. \A b \in Submitted' : before'[b] \subseteq answered'
  BY <1>1, <1>3
<1>5. Elements(object)' \subseteq Submitted' /\ InOrder(object)'
  <2>1. CASE object' = object
    BY <1>1, <1>3, <2>1 DEF Elements, InOrder
  <2>2. CASE object' = thread[t].lines
    <3>1. LinesOK(t)
      OBVIOUS
    <3>2. QED
      BY <1>1, <1>3, <2>2, <3>1 DEF LinesOK, Elements, InOrder
  <2>3. QED
    BY <1>1, <2>1, <2>2
<1>6. ASSUME NEW u \in Threads PROVE OnlyHere(u)' /\ LinesOK(u)'
  <2>1. CASE u = t
    <3>1. thread'[t].pc = "idle" /\ thread'[t].lines = <<>>
      BY <1>2 DEF Idle
    <3>2. QED
      BY <2>1, <3>1 DEF OnlyHere, LinesOK, At, InOrder, Elements
  <2>2. CASE u # t
    <3>1. LinesOK(u)'
      BY <1>1, <1>2, <1>3, <2>2 DEF LinesOK, InOrder, Elements, At
    <3>2. ~At(u, "idle") => /\ thread[u].action \notin Elements(object')
                            /\ thread[u].action \notin answered'
      BY <1>1, <2>2 DEF OnlyHere, At, Elements
    <3>3. thread'[t].pc = "idle" /\ Elements(thread'[t].lines) = {}
      BY <1>2 DEF Idle, Elements
    <3>4. OnlyHere(u)'
      <4>1. SUFFICES ASSUME ~At(u, "idle")'
                     PROVE  /\ thread'[u].action \in Submitted' \ answered'
                            /\ thread'[u].action \notin Elements(object)'
                            /\ \A w \in Threads \ {u} :
                                  /\ thread'[u].action \notin Elements(thread[w].lines)'
                                  /\ ~At(w, "idle")' => thread'[w].action # thread'[u].action
        BY DEF OnlyHere
      <4>2. ~At(u, "idle") /\ thread'[u] = thread[u] /\ OnlyHere(u)
        BY <1>2, <2>2, <4>1 DEF At
      <4>3. Elements(object)' = Elements(object')
        BY DEF Elements
      <4>4. ASSUME NEW w \in Threads \ {u}
            PROVE  /\ thread'[u].action \notin Elements(thread[w].lines)'
                   /\ ~At(w, "idle")' => thread'[w].action # thread'[u].action
        <5>1. CASE w = t
          BY <3>3, <5>1 DEF Elements, At
        <5>2. CASE w # t
          <6>1. thread'[w] = thread[w]
            BY <1>2, <5>2
          <6>2. Elements(thread[w].lines)' = Elements(thread[w].lines) /\ (At(w, "idle")' <=> At(w, "idle"))
            BY <6>1 DEF Elements, At
          <6>3. QED
            BY <4>2, <6>1, <6>2 DEF OnlyHere
        <5>3. QED
          BY <5>1, <5>2
      <4>5. QED
        BY <1>3, <3>2, <4>2, <4>3, <4>4 DEF OnlyHere
    <3>5. QED
      BY <3>1, <3>4
  <2>3. QED
    BY <2>1, <2>2
<1>7. QED
  BY <1>3, <1>4, <1>5, <1>6

(* A crash forgets the threads.                                            *)
LEMMA CrashIInv ==
    ASSUME IInv, Crash
    PROVE  IInv'
<1>1. /\ UNCHANGED <<object, before, answered, alone>> /\ crashes' \in 0 .. MaxCrashes
      /\ \A u \in Threads : thread'[u] = Idle
      /\ thread' \in [Threads -> Thread]
  BY MaxCrashesAssumption DEF Crash, IInv, TypeOK, Thread, Idle
<1>2. \A u \in Threads : OnlyHere(u)' /\ LinesOK(u)'
  <2>1. \A u \in Threads : thread'[u].pc = "idle" /\ thread'[u].lines = <<>>
    BY <1>1 DEF Idle
  <2>2. QED
    BY <2>1 DEF OnlyHere, LinesOK, At, InOrder, Elements
<1>3. QED
  BY <1>1, <1>2 DEF IInv, TypeOK, Submitted, InOrder, Elements

(* The invariant holds in every reachable state.                           *)
THEOREM LogInvariance == Spec => []IInv
<1>1. IInv /\ [Next]_vars => IInv'
  <2>1. SUFFICES ASSUME IInv, [Next]_vars PROVE IInv'
    OBVIOUS
  <2>2. CASE UNCHANGED vars
    BY <2>1, <2>2 DEF vars, IInv, TypeOK, Submitted, InOrder, Elements, OnlyHere, LinesOK, At
  <2>3. QED
    BY <2>1, <2>2, SubmitIInv, DownloadIInv, UploadIInv, CrashIInv DEF Next
<1>2. QED
  BY <1>1, InitIInv, PTL DEF Spec

(* The object, the threads and the histories stay in their types.          *)
THEOREM LogTypes == Spec => []TypeOK
<1>1. IInv => TypeOK
  BY DEF IInv
<1>2. QED
  BY <1>1, LogInvariance, PTL

(* The history lists no action twice and none before one that had been     *)
(* answered when it was submitted, however posts overlap, fail or die.     *)
THEOREM OrderIsKept == Spec => []HistoryInOrder
<1>1. IInv => HistoryInOrder
  BY DEF IInv, InOrder, HistoryInOrder
<1>2. QED
  BY <1>1, LogInvariance, PTL

-----------------------------------------------------------------------------
(* At most one thread is busy, what it uploads extends the object, and the *)
(* object has every action that was answered.                              *)
Sequential ==
    alone =>
        /\ \A t, u \in Threads : ~At(t, "idle") /\ ~At(u, "idle") => t = u
        /\ \A t \in Threads : At(t, "upload") =>
              thread[t].lines = Append(object, thread[t].action)
        /\ answered \subseteq Elements(object)

(* Init establishes it.                                                    *)
LEMMA InitSequential == Init => Sequential
BY DEF Init, Sequential, At, Idle

(* An upload of the only busy thread puts its action behind the object.    *)
LEMMA UploadAppends ==
    ASSUME IInv, Sequential, alone, NEW t \in Threads, Upload(t)
    PROVE  /\ thread[t].action \in Actions
           /\ thread[t].lines = Append(object, thread[t].action)
           /\ Elements(thread[t].lines) = Elements(object) \cup {thread[t].action}
<1>1. thread[t].lines = Append(object, thread[t].action)
  BY DEF Sequential, Upload
<1>2. thread[t].action \in Actions /\ object \in Seq(Actions)
  BY DEF IInv, OnlyHere, Upload, At, TypeOK
<1>3. QED
  BY <1>1, <1>2, Appended

(* Every step preserves it.                                                *)
LEMMA NextSequential == IInv /\ Sequential /\ [Next]_vars => Sequential'
<1>1. SUFFICES ASSUME IInv, Sequential, [Next]_vars, alone' PROVE Sequential'
  BY DEF Sequential
<1>2. thread \in [Threads -> Thread] /\ alone \in BOOLEAN
  BY <1>1 DEF IInv, TypeOK
<1>3. ASSUME NEW t \in Threads, NEW action \in Actions, Submit(t, action) PROVE Sequential'
  <2>1. alone /\ \A u \in Threads : At(u, "idle")
    BY <1>1, <1>3 DEF Submit
  <2>2. QED
    BY <1>1, <1>2, <1>3, <2>1 DEF Sequential, Submit, At, Thread, Elements
<1>4. ASSUME NEW t \in Threads, Download(t) PROVE Sequential'
  <2>1. alone
    BY <1>1, <1>4 DEF Download
  <2>2. thread' = [thread EXCEPT ![t].pc = "upload", ![t].lines = Append(object, thread[t].action)]
    BY <1>1, <1>4 DEF Download, NewLines
  <2>3. QED
    BY <1>1, <1>2, <1>4, <2>1, <2>2 DEF Sequential, Download, At, Thread, Elements
<1>5. ASSUME NEW t \in Threads, Upload(t) PROVE Sequential'
  <2>1. alone /\ At(t, "upload") /\ \A u \in Threads \ {t} : At(u, "idle")
    BY <1>1, <1>5 DEF Upload, Sequential, At
  <2>2. \A u \in Threads : At(u, "idle")'
    BY <1>2, <1>5, <2>1 DEF Upload, Idle, At
  <2>3. answered' \subseteq Elements(object)'
    <3>1. Elements(thread[t].lines) = Elements(object) \cup {thread[t].action}
      BY <1>1, <1>5, <2>1, UploadAppends
    <3>2. answered \subseteq Elements(object)
      BY <1>1, <2>1 DEF Sequential
    <3>3. CASE object' = object /\ answered' = answered
      BY <3>2, <3>3 DEF Elements
    <3>4. CASE object' = thread[t].lines /\ answered' \subseteq answered \cup {thread[t].action}
      BY <3>1, <3>2, <3>4 DEF Elements
    <3>5. QED
      BY <1>5, <3>3, <3>4 DEF Upload
  <2>4. QED
    BY <2>2, <2>3 DEF Sequential, At
<1>6. CASE Crash
  BY <1>1, <1>6 DEF Sequential, Crash, At, Idle, Elements
<1>7. CASE UNCHANGED vars
  BY <1>1, <1>7 DEF Sequential, vars, At, Elements
<1>8. QED
  BY <1>1, <1>3, <1>4, <1>5, <1>6, <1>7 DEF Next

(* As long as no posts have overlapped and no download has failed, every   *)
(* action that was answered with 201 is in the history.                    *)
THEOREM AnsweredIsKept == Spec => []RetainedWhileAlone
<1>1. Sequential => RetainedWhileAlone
  BY DEF Sequential, RetainedWhileAlone, Elements
<1>2. QED
  BY <1>1, InitSequential, NextSequential, LogInvariance, PTL DEF Spec

(* As long as no posts have overlapped and no download has failed, the     *)
(* object only grows, by whole actions at its end.                         *)
THEOREM OnlyGrows == Spec => ArchiveWhileAlone
<1>1. IInv /\ Sequential /\ [Next]_vars =>
          [alone' => \E action \in Actions : object' = Append(object, action)]_object
  <2>1. SUFFICES ASSUME IInv, Sequential, [Next]_vars, alone', object' # object
                 PROVE  \E action \in Actions : object' = Append(object, action)
    OBVIOUS
  <2>2. ASSUME NEW t \in Threads, Upload(t)
        PROVE  \E action \in Actions : object' = Append(object, action)
    <3>1. alone /\ object' = thread[t].lines
      BY <2>1, <2>2 DEF Upload
    <3>2. QED
      BY <2>1, <2>2, <3>1, UploadAppends
  <2>3. QED
    BY <2>1, <2>2 DEF Next, Submit, Download, Crash, vars
<1>2. QED
  BY <1>1, InitSequential, NextSequential, LogInvariance, PTL DEF Spec, ArchiveWhileAlone
=============================================================================

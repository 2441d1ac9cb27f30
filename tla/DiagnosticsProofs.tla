------------------------- MODULE DiagnosticsProofs --------------------------
(***************************************************************************)
(* The two diagnostic tools of the page, for any number of checks, any     *)
(* longest call and any wait, any compartments and policies.               *)
(*                                                                         *)
(* Connectivity checks.  That a handler returns in time follows from how   *)
(* far the clock can be ahead of the deadline: by no more than the call    *)
(* that began before it; one call more may follow.  A verdict that is      *)
(* shown is that of its handler, or was; the handler gave it for what OCI  *)
(* told of a path, and that path was there at some time since the check    *)
(* began.                                                                  *)
(*                                                                         *)
(* Validation.  As long as no probe has failed, what has been asked for is *)
(* granted; what has not is still to be asked for.                         *)
(***************************************************************************)
EXTENDS ConnectivityCheck, Preflight, TLAPS

(* A verdict of a check is that of these routes, and they were true of a   *)
(* path that there was while it was under way.                             *)
Earned(c, status, routes) ==
    /\ status = "reachable" => RouteStatuses(routes) = {"reachable"}
    /\ status = "blocked" => RouteStatuses(routes) # {"reachable"}
    /\ status \in {"reachable", "blocked"} =>
          c \in Checks /\ \E path \in seen[c] : TrueOf(path, routes)

(* How far the clock of a handler can be.                                  *)
InTime(h) ==
    /\ h.at \in {"unused", "sent", "answered"} => h.elapsed = 0
    /\ h.at = "submit" => h.elapsed <= h.spent
    /\ h.at = "poll" => h.deadline <= CallTime + Wait /\ h.elapsed < h.deadline + h.spent
    /\ h.at \in {"errors", "results"} => h.elapsed < 2 * CallTime + Wait + h.spent

(* What holds of the handler h of a check and of its work request a.       *)
Sound(c, h, a) ==
    /\ h \in Handler /\ a \in Analysis
    /\ h.at = "answered" <=> h.answer # "none"
    /\ InTime(h)
    /\ a.state # "none" => h.at \in {"poll", "errors", "results"}
    /\ a.state = "succeeded" => a.path \in seen[c]
    /\ h.at = "unused" => seen[c] = {}
    /\ h.at \notin {"unused", "answered"} => network \subseteq seen[c]
    /\ Earned(c, h.answer, h.routes)

TrueView(view) == view \in Views /\ Earned(view.check, view.status, view.routes)

(* As long as the last check is the one to be shown, no other is awaited.  *)
Shows ==
    latest # NoCheck =>
        /\ waiting \subseteq {latest}
        /\ shown.check = latest
        /\ ~AtPlace(latest, "unused")
        /\ IF latest \in waiting THEN shown.status = "checking"
           ELSE \/ shown.status = "failed"
                \/ /\ AtPlace(latest, "answered")
                   /\ shown.status = handler[latest].answer
                   /\ shown.routes = handler[latest].routes

CheckInv ==
    /\ CheckTypeOK
    /\ \A c \in Checks : Sound(c, handler[c], analysis[c])
    /\ TrueView(shown) /\ TrueView(sample)
    /\ \A c \in waiting : ~AtPlace(c, "unused")
    /\ Shows

LEMMA ZeroTimes == 0 \in 0 .. TimeLimit /\ 0 \in 0 .. CallTime
  BY TimesAssumption DEF TimeLimit

LEMMA NoRoutesType == NoRoutes \in Routes
  BY DEF NoRoutes, Routes

(* What the clock shows when a handler polls, or has not returned.         *)
LEMMA Clock ==
    ASSUME NEW c, NEW h, NEW a, Sound(c, h, a)
    PROVE  /\ h.at = "poll" => h.elapsed < 2 * CallTime + Wait
           /\ h.at \in {"sent", "submit", "poll", "errors", "results"} =>
                 h.elapsed < 3 * CallTime + Wait
<1>1. /\ h.elapsed \in Nat /\ h.deadline \in Nat /\ h.spent \in Nat /\ h.spent <= CallTime
      /\ InTime(h)
  BY TimesAssumption DEF Sound, Handler, TimeLimit
<1>2. QED
  BY <1>1, TimesAssumption DEF InTime

(* What was seen stays seen.                                               *)
LEMMA EarnedStays ==
    ASSUME \A c \in Checks : seen[c] \subseteq seen'[c], NEW c, NEW status, NEW routes,
           Earned(c, status, routes)
    PROVE  Earned(c, status, routes)'
BY DEF Earned

LEMMA CheckInitInv == CheckInit => CheckInv
<1>1. SUFFICES ASSUME CheckInit PROVE CheckInv
  OBVIOUS
<1>2. NoCheck \notin Checks
  BY MaxEventsAssumption DEF NoCheck, Checks
<1>3. Unused \in Handler
  BY ZeroTimes, NoRoutesType DEF Unused, Handler
<1>4. NoAnalysis \in Analysis
  BY DEF NoAnalysis, Analysis, WorkStates
<1>5. View(NoCheck, "idle") \in Views /\ View(NoCheck, "sample") \in Views
  BY NoRoutesType DEF View, Views
<1>6. CheckTypeOK
  BY <1>1, <1>3, <1>4, <1>5, MaxEventsAssumption DEF CheckInit, CheckTypeOK
<1>7. \A c \in Checks : Sound(c, Unused, NoAnalysis)
  BY <1>1, <1>3, <1>4 DEF CheckInit, Sound, Unused, NoAnalysis, InTime, Earned
<1>8. \A c \in Checks : Sound(c, handler[c], analysis[c])
  BY <1>1, <1>7 DEF CheckInit
<1>9. TrueView(shown) /\ TrueView(sample)
  BY <1>1, <1>5 DEF CheckInit, TrueView, View, Earned
<1>10. QED
  BY <1>1, <1>6, <1>8, <1>9 DEF CheckInv, CheckInit, Shows

(* A step of the handler of a check, or of its work request.               *)
LEMMA ServerStep ==
    ASSUME CheckInv, NEW c \in Checks, UnderWay(c), NEW h, NEW a,
           Sound(c, h, a), h.at # "unused",
           handler' = [handler EXCEPT ![c] = h], analysis' = [analysis EXCEPT ![c] = a],
           UNCHANGED <<network, events, seen, pageVars>>
    PROVE  CheckInv'
<1> USE DEF CheckInv
<1>1. /\ handler'[c] = h /\ analysis'[c] = a
      /\ \A d \in Checks \ {c} : handler'[d] = handler[d] /\ analysis'[d] = analysis[d]
      /\ handler' \in [Checks -> Handler] /\ analysis' \in [Checks -> Analysis]
  BY DEF CheckTypeOK, Sound
<1>2. CheckTypeOK'
  BY <1>1 DEF CheckTypeOK, pageVars
<1>3. \A d \in Checks : Sound(d, handler[d], analysis[d])
  OBVIOUS
<1>4. ASSUME NEW d \in Checks PROVE Sound(d, handler[d], analysis[d])'
  <2>1. CASE d = c
    BY <2>1, <1>1 DEF Sound, Earned
  <2>2. CASE d # c
    BY <2>2, <1>1, <1>3 DEF Sound, Earned
  <2>3. QED
    BY <2>1, <2>2
<1>5. TrueView(shown)' /\ TrueView(sample)'
  BY DEF TrueView, Earned, pageVars
<1>6. \A d \in waiting' : ~AtPlace(d, "unused")'
  BY <1>1 DEF AtPlace, pageVars, CheckTypeOK
<1>7. Shows'
  <2>1. SUFFICES ASSUME latest # NoCheck PROVE Shows'
    BY DEF Shows, pageVars
  <2>2. latest \in Checks
    BY <2>1 DEF CheckTypeOK
  <2>3. ~AtPlace(latest, "unused")'
    BY <1>1, <2>1, <2>2 DEF AtPlace, Shows, pageVars
  <2>4. AtPlace(latest, "answered") => latest # c
    BY DEF UnderWay
  <2>5. AtPlace(latest, "answered") => handler'[latest] = handler[latest]
    BY <2>2, <2>4, <1>1
  <2>6. QED
    BY <2>1, <2>3, <2>5 DEF Shows, AtPlace, pageVars
<1>8. QED
  BY <1>2, <1>4, <1>5, <1>6, <1>7

(* The handler goes on, or returns.                                        *)
LEMMA GotoStep ==
    ASSUME CheckInv, NEW c \in Checks, NEW at \in {"submit", "errors", "results"}, Goto(c, at),
           IF at = "submit" THEN handler[c].at = "sent" ELSE handler[c].at = "poll",
           UNCHANGED <<network, events, seen, pageVars>>
    PROVE  CheckInv'
<1> DEFINE h == [handler[c] EXCEPT !.at = at, !.spent = 0, !.deadline = 0]
<1>1. Sound(c, handler[c], analysis[c])
  BY DEF CheckInv
<1>2. handler[c] \in Handler /\ InTime(handler[c])
  BY <1>1 DEF Sound
<1>3. /\ h.at = at /\ h.elapsed = handler[c].elapsed /\ h.deadline = 0 /\ h.spent = 0
      /\ h.answer = handler[c].answer /\ h.routes = handler[c].routes
      /\ h.elapsed \in 0 .. TimeLimit
  BY <1>2 DEF Handler
<1>4. h \in Handler
  BY <1>2, ZeroTimes DEF Handler
<1>5. handler[c].at = "poll" => handler[c].elapsed < 2 * CallTime + Wait
  BY <1>1, Clock
<1> HIDE DEF h
<1>6. InTime(h)
  BY <1>2, <1>3, <1>5, TimesAssumption DEF InTime, TimeLimit
<1>7. Sound(c, h, analysis[c]) /\ h.at # "unused" /\ UnderWay(c)
  BY <1>1, <1>3, <1>4, <1>6 DEF Sound, UnderWay, AtPlace
<1>8. analysis' = [analysis EXCEPT ![c] = analysis[c]] /\ handler' = [handler EXCEPT ![c] = h]
  BY DEF Goto, CheckInv, CheckTypeOK, h
<1>9. QED
  BY <1>7, <1>8, ServerStep

LEMMA TellStep ==
    ASSUME CheckInv, NEW c \in Checks, UnderWay(c), NEW answer \in Answers,
           NEW routes \in Routes, Tell(c, answer, routes), Earned(c, answer, routes),
           UNCHANGED <<network, events, seen, pageVars>>
    PROVE  CheckInv'
<1> DEFINE h == [Unused EXCEPT !.at = "answered", !.answer = answer, !.routes = routes]
<1>1. /\ h.at = "answered" /\ h.answer = answer /\ h.routes = routes /\ h.elapsed = 0
      /\ h.deadline = 0 /\ h.spent = 0
  BY DEF Unused
<1>2. h \in Handler
  BY ZeroTimes DEF Unused, Handler
<1>3. NoAnalysis \in Analysis
  BY DEF NoAnalysis, Analysis, WorkStates
<1>4. answer # "none"
  BY DEF Answers
<1>5. handler' = [handler EXCEPT ![c] = h] /\ analysis' = [analysis EXCEPT ![c] = NoAnalysis]
  BY DEF Tell
<1> HIDE DEF h
<1>6. InTime(h)
  BY <1>1 DEF InTime
<1>7. Sound(c, h, NoAnalysis)
  BY <1>1, <1>2, <1>3, <1>4, <1>6 DEF Sound, NoAnalysis
<1>8. QED
  BY <1>1, <1>5, <1>7, ServerStep

LEMMA AnswerStep ==
    ASSUME CheckInv, NEW c \in Checks, UnderWay(c),
           NEW answer \in {"disabled", "missing_scope", "error", "failed", "running", "unknown"},
           Answer(c, answer), UNCHANGED <<network, events, seen, pageVars>>
    PROVE  CheckInv'
<1>1. answer \in Answers /\ answer \notin {"reachable", "blocked"}
  BY DEF Answers
<1>2. Earned(c, answer, NoRoutes)
  BY <1>1 DEF Earned
<1>3. QED
  BY <1>1, <1>2, NoRoutesType, TellStep DEF Answer

LEMMA HandleStep ==
    ASSUME CheckInv, NEW c \in Checks, Handle(c)
    PROVE  CheckInv'
<1> DEFINE same == UNCHANGED <<network, events, seen, pageVars>>
<1>1. Sound(c, handler[c], analysis[c])
  BY DEF CheckInv
<1>2. CASE Accept(c)
  <2>1. UnderWay(c) /\ same /\ handler[c].at = "sent"
    BY <1>2 DEF Accept, AtPlace, UnderWay
  <2>2. CASE Goto(c, "submit")
    BY <2>1, <2>2, GotoStep
  <2>3. CASE \E answer \in {"disabled", "missing_scope", "error"} : Answer(c, answer)
    BY <2>1, <2>3, AnswerStep
  <2>4. QED
    BY <1>2, <2>2, <2>3 DEF Accept
<1>3. CASE Submit(c)
  <2>1. UnderWay(c) /\ same /\ handler[c].at = "submit"
    BY <1>3 DEF Submit, AtPlace, UnderWay
  <2>2. CASE Answer(c, "failed")
    BY <2>1, <2>2, AnswerStep
  <2>3. CASE ~Answer(c, "failed")
    <3> DEFINE h == [handler[c] EXCEPT !.at = "poll", !.spent = 0,
                                       !.deadline = handler[c].elapsed + Wait]
    <3> DEFINE a == [analysis[c] EXCEPT !.state = "running"]
    <3>1. handler' = [handler EXCEPT ![c] = h] /\ analysis' = [analysis EXCEPT ![c] = a]
      BY <1>3, <2>3 DEF Submit
    <3>2. handler[c] \in Handler /\ analysis[c] \in Analysis
      BY <1>1 DEF Sound
    <3>3. /\ h.at = "poll" /\ h.spent = 0 /\ h.deadline = handler[c].elapsed + Wait
          /\ h.elapsed = handler[c].elapsed
          /\ h.answer = handler[c].answer /\ h.routes = handler[c].routes
          /\ a.state = "running" /\ a \in Analysis
      BY <3>2 DEF Handler, Analysis, WorkStates
    <3>4. /\ h.elapsed \in Nat /\ h.elapsed <= CallTime
          /\ h.deadline \in 0 .. TimeLimit /\ h.deadline <= CallTime + Wait
          /\ h.elapsed < h.deadline + h.spent
      BY <1>1, <2>1, <3>2, <3>3, TimesAssumption DEF Sound, InTime, Handler, TimeLimit
    <3>5. h \in Handler
      BY <3>2, <3>4, ZeroTimes DEF Handler
    <3> HIDE DEF h
    <3>6. Sound(c, h, a)
      BY <1>1, <2>1, <3>3, <3>4, <3>5 DEF Sound, InTime
    <3>7. QED
      BY <2>1, <3>1, <3>3, <3>6, ServerStep
  <2>4. QED
    BY <2>2, <2>3
<1>4. CASE Poll(c)
  <2>1. UnderWay(c) /\ same /\ handler[c].at = "poll"
    BY <1>4 DEF Poll, AtPlace, UnderWay
  <2>2. CASE \E answer \in {"running", "failed"} : Answer(c, answer)
    BY <2>1, <2>2, AnswerStep
  <2>3. CASE Goto(c, "errors") \/ Goto(c, "results")
    BY <2>1, <2>3, GotoStep
  <2>4. CASE ~Expired(c) /\ handler' = [handler EXCEPT ![c].spent = 0] /\ UNCHANGED analysis
    <3> DEFINE h == [handler[c] EXCEPT !.spent = 0]
    <3>1. /\ handler' = [handler EXCEPT ![c] = h]
          /\ analysis' = [analysis EXCEPT ![c] = analysis[c]]
      BY <2>4 DEF CheckInv, CheckTypeOK
    <3>2. handler[c] \in Handler
      BY <1>1 DEF Sound
    <3>3. /\ h.at = "poll" /\ h.spent = 0 /\ h.deadline = handler[c].deadline
          /\ h.elapsed = handler[c].elapsed
          /\ h.answer = handler[c].answer /\ h.routes = handler[c].routes
      BY <2>1, <3>2 DEF Handler
    <3>4. h \in Handler
      BY <3>2, ZeroTimes DEF Handler
    <3>5. h.elapsed < h.deadline + h.spent
      BY <2>4, <3>2, <3>3, TimesAssumption DEF Expired, Handler, TimeLimit
    <3> HIDE DEF h
    <3>6. Sound(c, h, analysis[c])
      BY <1>1, <2>1, <3>3, <3>4, <3>5 DEF Sound, InTime
    <3>7. QED
      BY <2>1, <3>1, <3>3, <3>6, ServerStep
  <2>5. QED
    BY <1>4, <2>2, <2>3, <2>4 DEF Poll
<1>5. CASE ListErrors(c)
  <2>1. UnderWay(c) /\ same /\ Answer(c, "failed")
    BY <1>5 DEF ListErrors, AtPlace, UnderWay
  <2>2. QED
    BY <2>1, AnswerStep
<1>6. CASE ListResults(c)
  <2>1. UnderWay(c) /\ same
    BY <1>6 DEF ListResults, AtPlace, UnderWay
  <2>2. CASE \E answer \in {"unknown", "failed"} : Answer(c, answer)
    BY <2>1, <2>2, AnswerStep
  <2>3. CASE /\ analysis[c].state = "succeeded"
             /\ \E routes \in Routes :
                   TrueOf(analysis[c].path, routes) /\ Tell(c, Verdict(routes), routes)
    <3>1. PICK routes \in Routes :
             TrueOf(analysis[c].path, routes) /\ Tell(c, Verdict(routes), routes)
      BY <2>3
    <3>2. Verdict(routes) \in Answers
      BY DEF Verdict, Answers
    <3>3. Earned(c, Verdict(routes), routes)
      BY <1>1, <2>3, <3>1 DEF Verdict, Earned, Sound
    <3>4. QED
      BY <2>1, <3>1, <3>2, <3>3, TellStep
  <2>4. QED
    BY <1>6, <2>2, <2>3 DEF ListResults
<1>7. QED
  BY <1>2, <1>3, <1>4, <1>5, <1>6 DEF Handle

(* The path analysis ends with one of the paths that there are.            *)
LEMMA AnalyzeStep ==
    ASSUME CheckInv, NEW c \in Checks, Analyze(c)
    PROVE  CheckInv'
<1>1. Sound(c, handler[c], analysis[c]) /\ analysis[c].state = "running"
  BY DEF CheckInv, Analyze
<1>2. handler[c].at \in {"poll", "errors", "results"} /\ UnderWay(c)
  BY <1>1 DEF Sound, UnderWay, AtPlace
<1>3. PICK a : /\ analysis' = [analysis EXCEPT ![c] = a]
               /\ \/ \E state \in {"failed", "empty"} : a = [analysis[c] EXCEPT !.state = state]
                  \/ \E path \in network : a = [state |-> "succeeded", path |-> path]
  BY DEF Analyze
<1>4. network \subseteq SUBSET Directions /\ network \subseteq seen[c]
  BY <1>1, <1>2 DEF Sound, CheckInv, CheckTypeOK
<1>5. analysis[c] \in Analysis
  BY <1>1 DEF Sound
<1>6. a \in Analysis /\ (a.state = "succeeded" => a.path \in seen[c])
  BY <1>3, <1>4, <1>5 DEF Analysis, WorkStates
<1>7. Sound(c, handler[c], a)
  BY <1>1, <1>2, <1>6 DEF Sound
<1>8. handler' = [handler EXCEPT ![c] = handler[c]]
  BY DEF Analyze, CheckInv, CheckTypeOK
<1>9. UNCHANGED <<network, events, seen, pageVars>>
  BY DEF Analyze
<1>10. QED
  BY <1>2, <1>3, <1>7, <1>8, <1>9, ServerStep

LEMMA ChangeNetworkStep ==
    ASSUME CheckInv, ChangeNetwork
    PROVE  CheckInv'
<1> USE DEF CheckInv
<1>1. /\ network' \in SUBSET SUBSET Directions
      /\ seen' = [c \in Checks |-> IF UnderWay(c) THEN seen[c] \cup network' ELSE seen[c]]
  BY DEF ChangeNetwork
<1>2. events' = events + 1 /\ events < MaxEvents /\ UNCHANGED <<analysis, handler, pageVars>>
  BY DEF ChangeNetwork
<1>3. CheckTypeOK'
  <2>1. seen' \in [Checks -> SUBSET SUBSET Directions]
    BY <1>1 DEF CheckTypeOK
  <2>2. events' \in 0 .. MaxEvents
    BY <1>2, MaxEventsAssumption DEF CheckTypeOK
  <2>3. QED
    BY <1>1, <1>2, <2>1, <2>2 DEF CheckTypeOK, pageVars
<1>4. \A c \in Checks : seen[c] \subseteq seen'[c]
  BY <1>1
<1>5. ASSUME NEW c \in Checks PROVE Sound(c, handler[c], analysis[c])'
  <2>1. Sound(c, handler[c], analysis[c])
    OBVIOUS
  <2>2. handler[c].at \notin {"unused", "answered"} => network' \subseteq seen'[c]
    BY <1>1 DEF UnderWay, AtPlace
  <2>3. handler[c].at = "unused" => seen'[c] = {}
    BY <1>1, <2>1 DEF Sound, UnderWay, AtPlace
  <2>4. Earned(c, handler[c].answer, handler[c].routes)'
    BY <1>2, <1>4, <2>1, EarnedStays DEF Sound, Earned
  <2>5. InTime(handler[c])'
    BY <1>2, <2>1 DEF Sound, InTime
  <2>6. QED
    BY <1>2, <1>4, <2>1, <2>2, <2>3, <2>4, <2>5 DEF Sound
<1>6. TrueView(shown)' /\ TrueView(sample)'
  BY <1>2, <1>4 DEF TrueView, Earned, pageVars
<1>7. (\A c \in waiting : ~AtPlace(c, "unused"))' /\ Shows'
  BY <1>2 DEF AtPlace, pageVars, Shows
<1>8. QED
  BY <1>3, <1>5, <1>6, <1>7

(* Time passes for a handler that waits for OCI.                           *)
LEMMA LaterSound ==
    ASSUME NEW c, NEW h, NEW a, Sound(c, h, a), h.spent < CallTime,
           h.at \in {"submit", "poll", "errors", "results"}
    PROVE  Sound(c, [h EXCEPT !.elapsed = Later(@), !.spent = @ + 1], a)
<1> DEFINE g == [h EXCEPT !.elapsed = Later(h.elapsed), !.spent = h.spent + 1]
<1>1. h \in Handler
  BY DEF Sound
<1>2. h.elapsed \in 0 .. TimeLimit /\ h.spent \in 0 .. CallTime /\ h.deadline \in 0 .. TimeLimit
  BY <1>1 DEF Handler
<1>3. h.spent + 1 \in 0 .. CallTime
  BY <1>2, TimesAssumption
<1>4. Later(h.elapsed) \in 0 .. TimeLimit /\ Later(h.elapsed) <= h.elapsed + 1
  BY <1>2, TimesAssumption DEF Later, TimeLimit
<1>5. g \in Handler
  BY <1>1, <1>3, <1>4 DEF Handler
<1>6. /\ g.at = h.at /\ g.deadline = h.deadline
      /\ g.answer = h.answer /\ g.routes = h.routes
      /\ g.elapsed = Later(h.elapsed) /\ g.spent = h.spent + 1
  BY <1>1 DEF Handler
<1> HIDE DEF g
<1>7. InTime(g)
  <2>1. InTime(h)
    BY DEF Sound
  <2>2. /\ g.elapsed \in Nat /\ h.elapsed \in Nat /\ g.spent \in Nat /\ h.spent \in Nat
        /\ h.deadline \in Nat /\ g.elapsed <= h.elapsed + 1 /\ g.spent = h.spent + 1
    BY <1>2, <1>3, <1>4, <1>6
  <2>3. CASE h.at = "submit"
    BY <1>6, <2>1, <2>2, <2>3 DEF InTime
  <2>4. CASE h.at = "poll"
    BY <1>6, <2>1, <2>2, <2>4 DEF InTime
  <2>5. CASE h.at \in {"errors", "results"}
    <3>1. h.elapsed < 2 * CallTime + Wait + h.spent
      BY <2>1, <2>5 DEF InTime
    <3>2. g.elapsed < 2 * CallTime + Wait + g.spent
      BY <2>2, <3>1, TimesAssumption
    <3>3. QED
      BY <1>6, <2>5, <3>2 DEF InTime
  <2>6. QED
    BY <2>3, <2>4, <2>5
<1>8. Sound(c, g, a)
  BY <1>5, <1>6, <1>7 DEF Sound
<1>9. QED
  BY <1>8 DEF g

LEMMA TickStep ==
    ASSUME CheckInv, Tick
    PROVE  CheckInv'
<1> USE DEF CheckInv
<1> DEFINE g(h) == [h EXCEPT !.elapsed = Later(@), !.spent = @ + 1]
<1>1. \A c \in Checks : Calling(c) => handler[c].spent < CallTime
  BY DEF Tick
<1>2. handler' = [c \in Checks |-> IF Calling(c) THEN g(handler[c]) ELSE handler[c]]
  BY DEF Tick
<1>3. UNCHANGED <<network, analysis, events, seen, pageVars>>
  BY DEF Tick
<1>4. ASSUME NEW c \in Checks
      PROVE  /\ Sound(c, handler'[c], analysis[c])
             /\ handler'[c].at = handler[c].at
             /\ ~Calling(c) => handler'[c] = handler[c]
  <2>1. Sound(c, handler[c], analysis[c])
    OBVIOUS
  <2>2. CASE Calling(c)
    <3>1. Sound(c, g(handler[c]), analysis[c])
      BY <1>1, <2>1, <2>2, LaterSound DEF Calling
    <3>2. g(handler[c]).at = handler[c].at
      BY <2>1 DEF Sound, Handler
    <3>3. QED
      BY <1>2, <2>2, <3>1, <3>2
  <2>3. CASE ~Calling(c)
    BY <1>2, <2>1, <2>3
  <2>4. QED
    BY <2>2, <2>3
<1>5. \A c \in Checks : Sound(c, handler[c], analysis[c])'
  BY <1>3, <1>4 DEF Sound, Earned, InTime
<1>6. handler' \in [Checks -> Handler]
  BY <1>2, <1>4 DEF Sound
<1>7. CheckTypeOK'
  BY <1>3, <1>6 DEF CheckTypeOK, pageVars
<1>8. TrueView(shown)' /\ TrueView(sample)'
  BY <1>3 DEF TrueView, Earned, pageVars
<1>9. \A c \in Checks, at \in {"unused", "answered"} : AtPlace(c, at)' <=> AtPlace(c, at)
  BY <1>4 DEF AtPlace
<1>10. \A c \in waiting' : ~AtPlace(c, "unused")'
  BY <1>3, <1>9 DEF pageVars, CheckTypeOK
<1>11. Shows'
  <2>1. SUFFICES ASSUME latest # NoCheck PROVE Shows'
    BY <1>3 DEF Shows, pageVars
  <2>2. latest \in Checks
    BY <2>1 DEF CheckTypeOK
  <2>3. AtPlace(latest, "answered") => handler'[latest] = handler[latest]
    BY <1>4, <2>2 DEF Calling, AtPlace
  <2>4. QED
    BY <1>3, <1>9, <2>1, <2>2, <2>3 DEF Shows, pageVars
<1>12. QED
  BY <1>5, <1>7, <1>8, <1>10, <1>11

LEMMA ClickStep ==
    ASSUME CheckInv, NEW c \in Checks, Click(c)
    PROVE  CheckInv'
<1> USE DEF CheckInv
<1> DEFINE h == [Unused EXCEPT !.at = "sent"]
<1>1. handler' = [handler EXCEPT ![c] = h] /\ seen' = [seen EXCEPT ![c] = network]
  BY DEF Click
<1>2. /\ AtPlace(c, "unused") /\ UNCHANGED <<network, analysis, data>>
      /\ waiting' = waiting \cup {c} /\ enabled' = (data = "api")
      /\ events' = events + 1 /\ events < MaxEvents
      /\ latest' = IF data = "api" /\ waiting = {} THEN c ELSE NoCheck
      /\ Write(View(c, "checking"))
  BY DEF Click
<1>3. h \in Handler
  BY ZeroTimes, NoRoutesType DEF Unused, Handler
<1>4. h.at = "sent" /\ h.answer = "none" /\ h.elapsed = 0
  BY DEF Unused
<1> HIDE DEF h
<1>5. /\ handler' \in [Checks -> Handler] /\ handler'[c] = h
      /\ \A d \in Checks \ {c} : handler'[d] = handler[d]
  BY <1>1, <1>3 DEF CheckTypeOK
<1>6. View(c, "checking") \in Views /\ View(c, "checking").status = "checking"
      /\ View(c, "checking").check = c
  BY NoRoutesType DEF View, Views
<1>7. NoCheck \notin Checks
  BY MaxEventsAssumption DEF NoCheck, Checks
<1>8. \A d \in Checks : seen[d] \subseteq seen'[d]
  <2>1. seen[c] = {}
    BY <1>2 DEF Sound, AtPlace
  <2>2. QED
    BY <1>1, <2>1 DEF CheckTypeOK
<1>9. CheckTypeOK'
  <2>1. seen' \in [Checks -> SUBSET SUBSET Directions]
    BY <1>1 DEF CheckTypeOK
  <2>2. events' \in 0 .. MaxEvents
    BY <1>2, MaxEventsAssumption DEF CheckTypeOK
  <2>3. QED
    BY <1>1, <1>2, <1>5, <1>6, <2>1, <2>2 DEF CheckTypeOK, Write
<1>10. Sound(c, h, analysis[c])'
  <2>1. Sound(c, handler[c], analysis[c]) /\ handler[c].at = "unused"
    BY <1>2 DEF AtPlace
  <2>2. analysis[c] \in Analysis /\ analysis[c].state = "none"
    BY <2>1 DEF Sound
  <2>3. network' \subseteq seen'[c]
    BY <1>1, <1>2 DEF CheckTypeOK
  <2>4. InTime(h)' /\ Earned(c, h.answer, h.routes)'
    BY <1>4 DEF InTime, Earned
  <2>5. QED
    BY <1>2, <1>3, <1>4, <2>2, <2>3, <2>4 DEF Sound
<1>11. ASSUME NEW d \in Checks PROVE Sound(d, handler[d], analysis[d])'
  <2>1. CASE d = c
    BY <1>5, <1>10, <2>1 DEF Sound, Earned, InTime
  <2>2. CASE d # c
    <3>1. Sound(d, handler[d], analysis[d]) /\ handler'[d] = handler[d] /\ seen'[d] = seen[d]
      BY <1>1, <1>5, <2>2 DEF CheckTypeOK
    <3>2. QED
      BY <1>2, <3>1 DEF Sound, Earned, InTime
  <2>3. QED
    BY <2>1, <2>2
<1>12. TrueView(shown)' /\ TrueView(sample)'
  <2>1. TrueView(View(c, "checking"))'
    BY <1>6 DEF TrueView, Earned
  <2>2. TrueView(sample) /\ TrueView(shown)
    OBVIOUS
  <2>3. (\A view : TrueView(view) => TrueView(view)')
    BY <1>8 DEF TrueView, Earned
  <2>4. QED
    BY <1>2, <2>1, <2>2, <2>3 DEF Write, TrueView, Earned
<1>13. \A d \in waiting' : ~AtPlace(d, "unused")'
  BY <1>2, <1>4, <1>5 DEF AtPlace, CheckTypeOK
<1>14. Shows'
  BY <1>2, <1>4, <1>5, <1>6 DEF Shows, AtPlace, Write
<1>15. QED
  BY <1>9, <1>11, <1>12, <1>13, <1>14

(* The page stops waiting for a check, and shows what became of it.        *)
LEMMA ShowStep ==
    ASSUME CheckInv, NEW c \in waiting, NEW view, TrueView(view), view.check = c, Write(view),
           \/ view.status = "failed"
           \/ /\ AtPlace(c, "answered")
              /\ view.status = handler[c].answer /\ view.routes = handler[c].routes,
           waiting' = waiting \ {c}, enabled' = TRUE,
           UNCHANGED <<data, latest, serverVars>>
    PROVE  CheckInv'
<1> USE DEF CheckInv, serverVars
<1>1. CheckTypeOK'
  BY DEF CheckTypeOK, Write, TrueView
<1>2. \A d \in Checks : Sound(d, handler[d], analysis[d])'
  BY DEF Sound, Earned, InTime
<1>3. TrueView(shown)' /\ TrueView(sample)'
  BY DEF TrueView, Earned, Write
<1>4. \A d \in waiting' : ~AtPlace(d, "unused")'
  BY DEF AtPlace
<1>5. Shows'
  BY DEF Shows, Write, AtPlace
<1>6. QED
  BY <1>1, <1>2, <1>3, <1>4, <1>5

LEMMA ReceiveStep ==
    ASSUME CheckInv, NEW c \in Checks, Receive(c) \/ Lose(c)
    PROVE  CheckInv'
<1>1. CASE Receive(c)
  <2> DEFINE status == IF handler[c].answer = "error" THEN "failed" ELSE handler[c].answer
  <2> DEFINE view == [View(c, handler[c].answer) EXCEPT !.status = status,
                                                        !.routes = handler[c].routes]
  <2>1. Sound(c, handler[c], analysis[c]) /\ AtPlace(c, "answered")
    BY <1>1 DEF CheckInv, Receive
  <2>2. handler[c].answer \in Answers /\ handler[c].routes \in Routes
    BY <2>1 DEF Sound, Handler, AtPlace
  <2>3. /\ view.check = c /\ view.status = status /\ view.routes = handler[c].routes
        /\ view \in Views
    BY <2>2 DEF View, Views, Answers
  <2>4. status = "failed" \/ status = handler[c].answer
    OBVIOUS
  <2>5. /\ c \in waiting /\ Write(view) /\ waiting' = waiting \ {c}
        /\ enabled' = TRUE /\ UNCHANGED <<data, latest, serverVars>>
    BY <1>1 DEF Receive, View
  <2> HIDE DEF view, status
  <2>6. TrueView(view)
    BY <2>1, <2>3, <2>4 DEF Sound, TrueView, Earned
  <2>7. QED
    BY <2>1, <2>3, <2>4, <2>5, <2>6, ShowStep
<1>2. CASE Lose(c)
  <2>1. /\ View(c, "failed") \in Views /\ View(c, "failed").check = c
        /\ View(c, "failed").status = "failed"
    BY NoRoutesType DEF View, Views, Answers
  <2>2. TrueView(View(c, "failed"))
    BY <2>1 DEF TrueView, Earned
  <2>3. /\ c \in waiting /\ Write(View(c, "failed")) /\ waiting' = waiting \ {c}
        /\ enabled' = TRUE /\ UNCHANGED <<data, latest, serverVars>>
    BY <1>2 DEF Lose
  <2>4. QED
    BY <2>1, <2>2, <2>3, ShowStep
<1>3. QED
  BY <1>1, <1>2

(* The page loads data, falls back, is drawn again, or nothing happens.    *)
LEMMA RenderStep ==
    ASSUME CheckInv, Refresh \/ FallBack \/ Redraw \/ UNCHANGED checkVars
    PROVE  CheckInv'
<1> USE DEF CheckInv, serverVars, checkVars, Refresh, FallBack, Redraw, Kept
<1>1. UNCHANGED serverVars /\ UNCHANGED waiting /\ UNCHANGED sample
  OBVIOUS
<1>2. CheckTypeOK'
  BY DEF CheckTypeOK
<1>3. \A c \in Checks : Sound(c, handler[c], analysis[c])'
  BY <1>1 DEF Sound, Earned, InTime
<1>4. TrueView(shown)' /\ TrueView(sample)'
  BY DEF TrueView, Earned
<1>5. \A c \in waiting' : ~AtPlace(c, "unused")'
  BY <1>1 DEF AtPlace
<1>6. Shows'
  BY DEF Shows, AtPlace
<1>7. QED
  BY <1>2, <1>3, <1>4, <1>5, <1>6

(* The inductive invariant of the connectivity checks.                     *)
THEOREM CheckInvariance == CheckSpec => []CheckInv
<1>1. CheckInit => CheckInv
  BY CheckInitInv
<1>2. CheckInv /\ [CheckNext]_<<checkVars, settings>> => CheckInv'
  <2>1. SUFFICES ASSUME CheckInv, [CheckNext]_<<checkVars, settings>> PROVE CheckInv'
    OBVIOUS
  <2>2. CASE \E c \in Checks : \/ Handle(c) \/ Analyze(c) \/ Click(c) \/ Receive(c) \/ Lose(c)
    BY <2>1, <2>2, HandleStep, AnalyzeStep, ClickStep, ReceiveStep
  <2>3. CASE ChangeNetwork
    BY <2>1, <2>3, ChangeNetworkStep
  <2>4. CASE Tick
    BY <2>1, <2>4, TickStep
  <2>5. CASE Refresh \/ FallBack \/ Redraw \/ UNCHANGED checkVars
    BY <2>1, <2>5, RenderStep
  <2>6. QED
    BY <2>1, <2>2, <2>3, <2>4, <2>5 DEF CheckNext
<1>3. QED
  BY <1>1, <1>2, PTL DEF CheckSpec

(* Type correctness of the connectivity checks.                            *)
THEOREM CheckTypes == CheckSpec => []CheckTypeOK
BY CheckInvariance, PTL DEF CheckInv

(* A verdict that is shown is that of what OCI told of a path, and that    *)
(* path was there at some time since the check began.                      *)
THEOREM VerdictsTrue == CheckSpec => []VerdictsAreTrue
<1>1. ASSUME CheckInv PROVE VerdictsAreTrue
  <2> DEFINE given == Given(shown.routes)
  <2>1. /\ Earned(shown.check, shown.status, shown.routes) /\ shown.routes \in Routes
    BY <1>1 DEF CheckInv, TrueView, Views
  <2>2. RouteStatuses(shown.routes) = {shown.routes[d] : d \in given} /\ given \subseteq Directions
    BY DEF RouteStatuses, Given
  <2>3. CASE shown.status = "reachable"
    <3>1. /\ given # {}
          /\ \A d \in given : shown.routes[d] = "reachable"
      BY <2>1, <2>2, <2>3 DEF Earned
    <3>2. QED
      BY <2>1, <2>2, <2>3, <3>1 DEF Earned, TrueOf, VerdictsAreTrue
  <2>4. CASE shown.status = "blocked"
    <3>1. given = {} \/ \E d \in given : shown.routes[d] # "reachable"
      BY <2>1, <2>2, <2>4 DEF Earned
    <3>2. \A d \in given : shown.routes[d] \in {"reachable", "unreachable", "indeterminate"}
      BY <2>1 DEF Given, Routes
    <3>3. QED
      BY <2>1, <2>2, <2>4, <3>1, <3>2 DEF Earned, TrueOf, VerdictsAreTrue
  <2>5. QED
    BY <2>3, <2>4 DEF VerdictsAreTrue
<1>2. QED
  BY <1>1, CheckInvariance, PTL

(* A handler returns before three calls and the wait have passed since it  *)
(* got its client, and polls for less than two calls and the wait.         *)
THEOREM HandlersInTime == CheckSpec => []HandlersReturnInTime
<1>1. ASSUME CheckInv PROVE HandlersReturnInTime
  <2>1. SUFFICES ASSUME NEW c \in Checks
                 PROVE  /\ AtPlace(c, "poll") => handler[c].elapsed < 2 * CallTime + Wait
                        /\ UnderWay(c) => handler[c].elapsed < 3 * CallTime + Wait
    BY DEF HandlersReturnInTime
  <2>2. Sound(c, handler[c], analysis[c])
    BY <1>1 DEF CheckInv
  <2>3. UnderWay(c) => handler[c].at \in {"sent", "submit", "poll", "errors", "results"}
    BY <2>2 DEF Sound, Handler, UnderWay, AtPlace
  <2>4. QED
    BY <2>2, <2>3, Clock DEF AtPlace
<1>2. QED
  BY <1>1, CheckInvariance, PTL

(* The last check is shown, whatever is refreshed or drawn meanwhile.      *)
THEOREM AnswerShown == CheckSpec => []AnswerIsShown
<1>1. CheckInv => AnswerIsShown
  BY DEF CheckInv, Shows, AnswerIsShown
<1>2. QED
  BY <1>1, CheckInvariance, PTL

-----------------------------------------------------------------------------
(* What has been asked for is granted; what has not is still to be asked   *)
(* for.                                                                    *)
Covered(todo) ==
    \A p \in Targets :
        /\ \A kind \in Kinds : Granted(p, kind) \/ <<p, kind>> \in todo
        /\ p \in grouped =>
              Granted(p, Rules) \/ <<p, Rules>> \in todo \/ <<p, Groups>> \in todo

(* The answer of a probe that is over, or of a validation, is reliable.    *)
Confirmed == settings.tenancy /\ inspects /\ Covered({})

PreflightInv ==
    /\ PreflightTypeOK
    /\ probe.at \in {"identity", "compartments", "regions"} => settings.live /\ settings.tenancy
    /\ ~revoked =>
         /\ ~probe.failed =>
              /\ probe.at = "regions" => inspects
              /\ probe.at = "regions" /\ probe.regions # Regions => Covered(probe.todo)
              /\ probe.at = "done" /\ settings.live => Confirmed
         /\ access = "pass" => Confirmed

LEMMA TargetsArePlaces == settings \in Settings => Targets \subseteq Places
BY DEF Settings, Targets, TargetCompartments, Places

(* A step of the handler that leaves the policies alone, with what it must *)
(* show of the local variables of the handler.                             *)
LEMMA HandlerStep ==
    ASSUME PreflightInv, probe' \in Probing,
           probe'.at \in {"identity", "compartments", "regions"} => settings.live /\ settings.tenancy,
           ~revoked /\ ~probe'.failed =>
              /\ probe'.at = "regions" => inspects
              /\ probe'.at = "regions" /\ probe'.regions # Regions => Covered(probe'.todo)
              /\ probe'.at = "done" /\ settings.live => Confirmed,
           UNCHANGED <<settings, policy, inspects, grouped, access, revokes, revoked>>
    PROVE  PreflightInv'
<1> USE DEF PreflightInv
<1>1. PreflightTypeOK'
  BY DEF PreflightTypeOK
<1>2. Targets' = Targets /\ \A p, k : Granted(p, k)' <=> Granted(p, k)
  BY DEF Targets, TargetCompartments, Granted
<1>3. Confirmed' <=> Confirmed
  BY <1>2 DEF Confirmed, Covered
<1>4. Covered(probe.todo)' <=> Covered(probe'.todo)
  BY <1>2 DEF Covered
<1>5. QED
  BY <1>1, <1>3, <1>4

LEMMA PreflightInitInv == PreflightInit /\ settings \in Settings => PreflightInv
<1>1. Idle \in Probing /\ Idle.at = "idle"
  BY DEF Idle, Probing
<1>2. PreflightInit => PreflightTypeOK
  <2>1. SUFFICES ASSUME PreflightInit PROVE PreflightTypeOK
    OBVIOUS
  <2>2. policy \in [Places -> Verbs] /\ inspects \in BOOLEAN /\ grouped \subseteq Places
    BY <2>1 DEF PreflightInit
  <2>3. revokes \in 0 .. MaxRevokes
    BY <2>1, MaxRevokesAssumption DEF PreflightInit
  <2>4. probe \in Probing /\ revoked \in BOOLEAN /\ access \in Statuses \cup {"none", "validating"}
    BY <1>1, <2>1 DEF PreflightInit
  <2>5. QED
    BY <2>2, <2>3, <2>4 DEF PreflightTypeOK
<1>3. PreflightInit => probe.at = "idle" /\ access = "none"
  BY <1>1 DEF PreflightInit
<1>4. QED
  BY <1>2, <1>3 DEF PreflightInv

LEMMA ValidateStep ==
    ASSUME PreflightInv, Validate, UNCHANGED settings
    PROVE  PreflightInv'
<1> USE DEF PreflightInv
<1>1. /\ UNCHANGED <<policy, inspects, grouped, revokes>> /\ access' = "validating" /\ revoked' = FALSE
      /\ probe' = [Idle EXCEPT !.at = IF settings.live /\ settings.tenancy THEN "identity" ELSE "done",
                               !.failed = settings.live /\ (~settings.tenancy \/ Targets = {})]
  BY DEF Validate
<1>2. /\ probe'.at = IF settings.live /\ settings.tenancy THEN "identity" ELSE "done"
      /\ probe'.failed = (settings.live /\ (~settings.tenancy \/ Targets = {}))
  BY <1>1 DEF Idle
<1>3. probe' \in Probing
  BY <1>1 DEF Idle, Probing
<1>4. PreflightTypeOK'
  BY <1>1, <1>3 DEF PreflightTypeOK
<1>5. probe'.at = "done" /\ settings.live => probe'.failed
  BY <1>2
<1>6. QED
  BY <1>1, <1>2, <1>4, <1>5

LEMMA ProbeStep ==
    ASSUME PreflightInv, settings \in Settings, NEW p \in Places, NEW kind \in Kinds \cup {Rules},
           NEW ok \in BOOLEAN, Probe(p, kind, ok), UNCHANGED settings
    PROVE  PreflightInv'
<1> USE DEF PreflightInv
<1> DEFINE todo == (probe.todo \ {<<p, kind>>}) \cup
                   {<<q, Rules>> : q \in {x \in {p} : ok /\ kind = Groups /\ p \in grouped}}
<1>1. /\ probe' = [probe EXCEPT !.failed = probe.failed \/ ~ok, !.todo = todo]
      /\ probe.at = "regions" /\ <<p, kind>> \in probe.todo
      /\ ok => Granted(p, kind)
      /\ UNCHANGED <<policy, inspects, grouped, access, revokes, revoked>>
  BY DEF Probe
<1>2. probe \in Probing
  BY DEF PreflightTypeOK
<1>3. todo \in SUBSET Probes
  BY <1>2 DEF Probing, Probes
<1>4. /\ probe' \in Probing /\ probe'.at = "regions" /\ probe'.regions = probe.regions
      /\ probe'.failed = (probe.failed \/ ~ok) /\ probe'.todo = todo
  BY <1>1, <1>2, <1>3 DEF Probing
<1>5. ASSUME Covered(probe.todo), ok PROVE Covered(todo)
  <2>1. SUFFICES ASSUME NEW q \in Targets
                 PROVE  /\ \A k \in Kinds : Granted(q, k) \/ <<q, k>> \in todo
                        /\ q \in grouped =>
                              Granted(q, Rules) \/ <<q, Rules>> \in todo \/ <<q, Groups>> \in todo
    BY DEF Covered
  <2>2. Granted(p, kind)
    BY <1>1, <1>5
  <2>3. \A k : <<q, k>> \in probe.todo => <<q, k>> \in todo \/ (q = p /\ k = kind)
    OBVIOUS
  <2>4. kind = Groups /\ p \in grouped => <<p, Rules>> \in todo
    BY <1>5
  <2>5. QED
    BY <1>5, <2>2, <2>3, <2>4 DEF Covered
<1> HIDE DEF todo
<1>6. ~revoked /\ ~probe'.failed =>
         /\ inspects
         /\ probe'.regions # Regions => Covered(probe'.todo)
  BY <1>1, <1>4, <1>5
<1>7. QED
  BY <1>1, <1>4, <1>6, HandlerStep

LEMMA RegionStep ==
    ASSUME PreflightInv, settings \in Settings, NEW r \in Regions, NEW ok \in BOOLEAN,
           MakeNetworkClient(r, ok), UNCHANGED settings
    PROVE  PreflightInv'
<1> USE DEF PreflightInv
<1> DEFINE todo == IF ok THEN Targets \X Kinds ELSE {}
<1>1. /\ probe' = [probe EXCEPT !.regions = probe.regions \ {r}, !.failed = probe.failed \/ ~ok,
                                !.todo = todo]
      /\ probe.at = "regions"
      /\ UNCHANGED <<policy, inspects, grouped, access, revokes, revoked>>
  BY DEF MakeNetworkClient
<1>2. probe \in Probing
  BY DEF PreflightTypeOK
<1>3. todo \in SUBSET Probes
  BY TargetsArePlaces DEF Probes
<1>4. /\ probe' \in Probing /\ probe'.at = "regions"
      /\ probe'.failed = (probe.failed \/ ~ok) /\ probe'.todo = todo
  BY <1>1, <1>2, <1>3 DEF Probing
<1>5. ok => Covered(todo)
  BY GroupsAssumption DEF Covered
<1> HIDE DEF todo
<1>6. QED
  BY <1>1, <1>4, <1>5, HandlerStep

LEMMA ClientStep ==
    ASSUME PreflightInv, NEW ok \in BOOLEAN, MakeIdentityClient(ok) \/ ListCompartments(ok),
           UNCHANGED settings
    PROVE  PreflightInv'
<1> USE DEF PreflightInv
<1>1. probe \in Probing
  BY DEF PreflightTypeOK
<1>2. CASE MakeIdentityClient(ok)
  <2>1. /\ probe' \in Probing /\ probe.at = "identity"
        /\ probe'.at = "compartments" \/ (probe'.at = "done" /\ probe'.failed)
        /\ UNCHANGED <<policy, inspects, grouped, access, revokes, revoked>>
    BY <1>1, <1>2 DEF MakeIdentityClient, Probing
  <2>2. settings.live /\ settings.tenancy
    BY <2>1
  <2>3. QED
    BY <2>1, <2>2, HandlerStep
<1>3. CASE ListCompartments(ok)
  <2>1. /\ probe.at = "compartments"
        /\ ok => inspects
        /\ UNCHANGED <<policy, inspects, grouped, access, revokes, revoked>>
    BY <1>3 DEF ListCompartments
  <2>2. settings.live /\ settings.tenancy
    BY <2>1
  <2>3. probe'.at = "regions" /\ probe'.regions = Regions /\ probe'.failed = (probe.failed \/ ~ok)
    BY <1>1, <1>3 DEF ListCompartments, Probing
  <2>4. probe' \in Probing
    BY <1>1, <1>3 DEF ListCompartments, Probing
  <2>5. QED
    BY <2>1, <2>2, <2>3, <2>4, HandlerStep
<1>4. QED
  BY <1>2, <1>3

LEMMA ConcludeStep ==
    ASSUME PreflightInv, Conclude, UNCHANGED settings
    PROVE  PreflightInv'
<1> USE DEF PreflightInv
<1>1. /\ probe' \in Probing /\ probe.at = "regions" /\ probe'.at = "done"
      /\ probe'.failed = probe.failed /\ probe.todo = {} /\ probe.regions = {}
      /\ UNCHANGED <<policy, inspects, grouped, access, revokes, revoked>>
  BY DEF Conclude, PreflightTypeOK, Probing
<1>2. ~revoked /\ ~probe'.failed => Confirmed
  BY <1>1, RegionsAssumption DEF Confirmed
<1>3. QED
  BY <1>1, <1>2, HandlerStep

LEMMA ShowAccessStep ==
    ASSUME PreflightInv, ShowAccess, UNCHANGED settings
    PROVE  PreflightInv'
<1> USE DEF PreflightInv
<1>1. /\ probe.at = "done" /\ access' \in {Summary, "fail"} /\ probe' = Idle
      /\ UNCHANGED <<policy, inspects, grouped, revokes, revoked>>
  BY DEF ShowAccess
<1>2. access' = "pass" => settings.live /\ ~probe.failed
  BY <1>1 DEF Summary
<1>3. probe'.at = "idle" /\ probe' \in Probing
  BY <1>1 DEF Idle, Probing
<1>4. PreflightTypeOK'
  BY <1>1, <1>3 DEF PreflightTypeOK, Summary, Statuses
<1>5. Targets' = Targets /\ \A p, k : Granted(p, k)' <=> Granted(p, k)
  BY <1>1 DEF Targets, TargetCompartments, Granted
<1>6. Confirmed' <=> Confirmed
  BY <1>1, <1>5 DEF Confirmed, Covered
<1>7. QED
  BY <1>1, <1>2, <1>3, <1>4, <1>6

LEMMA ChangePolicyStep ==
    ASSUME PreflightInv, ChangePolicy, UNCHANGED settings
    PROVE  PreflightInv'
<1>1. /\ revoked' = TRUE /\ UNCHANGED <<grouped, probe, access>>
      /\ revokes' = revokes + 1 /\ revokes < MaxRevokes
  BY DEF ChangePolicy
<1>2. policy' \in [Places -> Verbs] /\ inspects' \in BOOLEAN
  BY DEF ChangePolicy, PreflightInv, PreflightTypeOK
<1>3. PreflightTypeOK'
  BY <1>1, <1>2, MaxRevokesAssumption DEF PreflightInv, PreflightTypeOK
<1>4. QED
  BY <1>1, <1>3 DEF PreflightInv

(* The inductive invariant of the validation.                              *)
THEOREM PreflightInvariance == PreflightSpec => [](PreflightInv /\ settings \in Settings)
<1> DEFINE Inv == PreflightInv /\ settings \in Settings
<1>1. PreflightInit /\ settings \in Settings => Inv
  BY PreflightInitInv
<1>2. Inv /\ [PreflightNext]_<<preflightVars, settings>> => Inv'
  <2>1. SUFFICES ASSUME Inv, [PreflightNext]_<<preflightVars, settings>> PROVE Inv'
    OBVIOUS
  <2>2. UNCHANGED settings
    BY <2>1 DEF PreflightNext
  <2>3. CASE Validate \/ Conclude \/ ShowAccess \/ ChangePolicy
    BY <2>1, <2>2, <2>3, ValidateStep, ConcludeStep, ShowAccessStep, ChangePolicyStep
  <2>4. CASE \E ok \in BOOLEAN : MakeIdentityClient(ok) \/ ListCompartments(ok)
    BY <2>1, <2>2, <2>4, ClientStep
  <2>5. CASE \E r \in Regions, ok \in BOOLEAN : MakeNetworkClient(r, ok)
    BY <2>1, <2>2, <2>5, RegionStep
  <2>6. CASE \E p \in Places, kind \in Kinds \cup {Rules}, ok \in BOOLEAN : Probe(p, kind, ok)
    BY <2>1, <2>2, <2>6, ProbeStep
  <2>7. CASE UNCHANGED <<preflightVars, settings>>
    <3>1. probe' = probe /\ probe \in Probing
      BY <2>1, <2>7 DEF PreflightInv, PreflightTypeOK, preflightVars
    <3>2. UNCHANGED <<settings, policy, inspects, grouped, access, revokes, revoked>>
      BY <2>7 DEF preflightVars
    <3>3. PreflightInv'
      BY <2>1, <3>1, <3>2, HandlerStep DEF PreflightInv
    <3>4. QED
      BY <2>1, <2>2, <3>3
  <2>8. QED
    BY <2>1, <2>3, <2>4, <2>5, <2>6, <2>7 DEF PreflightNext
<1>3. QED
  BY <1>1, <1>2, PTL DEF PreflightSpec

(* Type correctness of the validation.                                     *)
THEOREM PreflightTypes == PreflightSpec => []PreflightTypeOK
BY PreflightInvariance, PTL DEF PreflightInv

(* What holds in the tenancy holds in each of its compartments.            *)
LEMMA Inherited == \A p, kind : Granted(Tenancy, kind) => Granted(p, kind)
BY DEF Granted

(* "pass" can be relied on: for any tenancy, regions and policies.         *)
THEOREM PassReliable == PreflightSpec => []PassIsReliable
<1>1. PreflightInv /\ settings \in Settings => PassIsReliable
  <2>1. SUFFICES ASSUME PreflightInv, access = "pass", ~revoked,
                        NEW found \in SUBSET Compartments, NEW p \in CompartmentScope(found)
                 PROVE  /\ inspects
                        /\ \A kind \in Kinds : Granted(p, kind)
                        /\ Targets \subseteq grouped => Granted(p, Rules)
    BY DEF PassIsReliable, PreflightInv, Confirmed
  <2>2. Confirmed
    BY <2>1 DEF PreflightInv
  <2>3. CASE p \in Targets
    BY <2>2, <2>3 DEF Confirmed, Covered
  <2>4. CASE Tenancy \in Targets
    BY <2>2, <2>4, Inherited DEF Confirmed, Covered
  <2>5. p \in Targets \/ Tenancy \in Targets
    BY <2>1, <2>2 DEF CompartmentScope, Targets, TargetCompartments, Confirmed
  <2>6. QED
    BY <2>3, <2>4, <2>5
<1>2. QED
  BY <1>1, PreflightInvariance, PTL
=============================================================================

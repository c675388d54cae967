--------------------------- MODULE RuntimeProofs ---------------------------
(***************************************************************************)
(* Theorems about Runtime, for any number of requests and sessions and any *)
(* environment the container is started in.                                *)
(***************************************************************************)
EXTENDS Runtime, TLAPS

\* The shared slice is always full, so that appending to it copies it; before
\* tracing is set up it has at most one element.
SliceIsFull ==
    /\ opts.cap = opts.len
    /\ stage \in {"config", "pack", "options"} => opts.len = 0
    /\ stage = "tracing" => opts.len \in 0..1

\* The process stays in the states run can be in, with no spare capacity that
\* two requests could write to.
THEOREM TypeCorrect == Spec => [](TypeOK /\ SliceIsFull)
<1> USE RuntimeAssumption DEF TypeOK, SliceIsFull, StartUp
<1>1. Init => TypeOK /\ SliceIsFull
  <2> SUFFICES ASSUME Init PROVE TypeOK /\ SliceIsFull
    OBVIOUS
  <2>1. opts \in [len : 0..2, cap : Nat] /\ SliceIsFull
    BY DEF Init
  <2>2. store \in BOOLEAN /\ signalled \in BOOLEAN /\ serveErr \in BOOLEAN
    BY ZenonT(20) DEF Init
  <2>3. /\ pc \in [Requests -> {"out", "accepted", "opening", "running", "abandoned",
                                 "ok", "error", "left", "cut"}]
        /\ view \in [Requests -> {"none", "base", "own", "shared"}]
        /\ talk \in [Requests -> Sessions \cup {None}]
    BY DEF Init
  <2> QED BY <2>1, <2>2, <2>3 DEF Init
<1>2. TypeOK /\ SliceIsFull /\ [Next]_vars => TypeOK' /\ SliceIsFull'
  <2> SUFFICES ASSUME TypeOK, SliceIsFull, [Next]_vars PROVE TypeOK' /\ SliceIsFull'
    OBVIOUS
  <2> USE DEF requests, process, Sessions
  <2>1. ASSUME NEW point, Fail(point) PROVE TypeOK' /\ SliceIsFull'
    BY <2>1 DEF Fail
  <2>2. CASE LoadConfig \/ ResolvePack \/ ParseTools \/ OpenSessions \/ Listen
    BY <2>1, <2>2 DEF LoadConfig, ResolvePack, ParseTools, OpenSessions, Listen, Goto
  <2>3. CASE BuildOptions
    BY <2>1, <2>3 DEF BuildOptions, Goto
  <2>4. CASE SetupTracing
    <3>1. Appended(1).len = opts.len + 1 /\ Appended(1).cap = opts.len + 1
      BY <2>4 DEF SetupTracing, Appended
    <3>2. Appended(1) \in [len : 0..2, cap : Nat]
      BY <2>4 DEF SetupTracing, Appended
    <3> QED BY <2>4, <3>1, <3>2 DEF SetupTracing, Goto
  <2>5. CASE StartDrain \/ DrainEnds \/ WindowCloses \/ Flush \/ ServeFails
    BY <2>5 DEF StartDrain, DrainEnds, WindowCloses, Flush, ServeFails
  <2>6. CASE Exit \/ Signal
    <3>1. CutOff \in [Requests -> {"out", "accepted", "opening", "running", "abandoned",
                                   "ok", "error", "left", "cut"}]
      BY DEF CutOff
    <3>2. CASE Exit
      BY <3>1, <3>2 DEF Exit
    <3>3. CASE Signal
      BY <3>1, <3>3 DEF Signal
    <3> QED BY <2>6, <3>2, <3>3
  <2>7. ASSUME NEW r \in Requests,
               Accept(r) \/ WithSession(r) \/ Open(r) \/ Answer(r) \/ Abandon(r) \/ TurnEnds(r)
        PROVE  TypeOK' /\ SliceIsFull'
    BY <2>7 DEF Accept, WithSession, Open, Answer, Abandon, TurnEnds
  <2>8. CASE UNCHANGED vars
    BY <2>8 DEF vars
  <2> QED
    BY <2>1, <2>2, <2>3, <2>4, <2>5, <2>6, <2>7, <2>8
    DEF Next, Process, Request, ResolvePackFails, OpenSessionsFails, ListenFails,
        StopServing, DrainTimesOut
<1> QED BY <1>1, <1>2, PTL DEF Spec
-----------------------------------------------------------------------------
(***************************************************************************)
(* Sessions.                                                               *)
(***************************************************************************)

\* A request's options are its own or the shared ones without a session, and
\* the store they need is settled before the first request.
Separate ==
    /\ stage \in StartUp \cup {"listen"} => \A r \in Requests : pc[r] = "out"
    /\ \A r \in Requests : pc[r] = "opening" =>
         IF SessionOf[r] = None THEN view[r] = "base" ELSE view[r] = "own" /\ store
    /\ TurnsRunInTheirSession

\* However requests interleave between append and Open, each turn runs in the
\* session its request named, or in none.
THEOREM SessionsApart == Spec => []TurnsRunInTheirSession
<1> USE DEF TurnsRunInTheirSession, StartUp
<1>1. Init => Separate
  BY DEF Init, Separate
<1>2. TypeOK /\ SliceIsFull /\ Separate /\ [Next]_vars => Separate'
  <2> SUFFICES ASSUME TypeOK, SliceIsFull, Separate, [Next]_vars PROVE Separate'
    OBVIOUS
  <2> USE DEF Separate, requests, process
  <2>1. ASSUME NEW point, Fail(point), point # "exited" PROVE Separate'
    BY <2>1 DEF Fail
  <2>2. CASE LoadConfig \/ ResolvePack \/ BuildOptions \/ SetupTracing \/ ParseTools
             \/ OpenSessions \/ Listen
    BY <2>1, <2>2 DEF LoadConfig, ResolvePack, BuildOptions, SetupTracing, ParseTools,
       OpenSessions, Listen, Goto
  <2>3. CASE StartDrain \/ DrainEnds \/ WindowCloses \/ Flush \/ ServeFails
    BY <2>3 DEF StartDrain, DrainEnds, WindowCloses, Flush, ServeFails
  <2>4. CASE Exit \/ Signal
    BY <2>4 DEF Exit, Signal, CutOff, Active, TypeOK
  <2>5. ASSUME NEW r \in Requests, Accept(r) PROVE Separate'
    BY <2>5 DEF Accept, TypeOK
  <2>6. ASSUME NEW r \in Requests, WithSession(r) PROVE Separate'
    <3>1. ~(opts.len + 2 <= opts.cap)
      BY DEF SliceIsFull, TypeOK
    <3>2. \A q \in Requests : q # r => pc'[q] = pc[q] /\ view'[q] = view[q]
      BY <2>6 DEF WithSession, TypeOK
    <3>3. pc'[r] = "opening" =>
            IF SessionOf[r] = None THEN view'[r] = "base" ELSE view'[r] = "own" /\ store
      BY <2>6, <3>1 DEF WithSession, TypeOK
    <3>4. pc'[r] \in {"opening", "error"}
      BY <2>6 DEF WithSession, TypeOK
    <3>5. stage \notin StartUp \cup {"listen"} /\ UNCHANGED <<stage, store, talk>>
      BY <2>6 DEF WithSession, Up
    <3> QED BY <3>2, <3>3, <3>4, <3>5
  <2>7. ASSUME NEW r \in Requests, Open(r) PROVE Separate'
    BY <2>7 DEF Open, TypeOK, Up
  <2>8. ASSUME NEW r \in Requests, Answer(r) \/ Abandon(r) \/ TurnEnds(r) PROVE Separate'
    BY <2>8 DEF Answer, Abandon, TurnEnds, TypeOK, Up
  <2>9. CASE UNCHANGED vars
    BY <2>9 DEF vars
  <2> QED
    BY <2>1, <2>2, <2>3, <2>4, <2>5, <2>6, <2>7, <2>8, <2>9
    DEF Next, Process, Request, ResolvePackFails, OpenSessionsFails, ListenFails,
        StopServing, DrainTimesOut
<1>3. Separate => TurnsRunInTheirSession
  BY DEF Separate
<1> QED BY <1>1, <1>2, <1>3, TypeCorrect, PTL DEF Spec
-----------------------------------------------------------------------------
(***************************************************************************)
(* Termination.                                                            *)
(***************************************************************************)
Idle == \A r \in Requests : ~Active(r)

\* What holds on the way out: run returns nil only once the turns are done, and
\* returns while some are running only when the window is over or the server
\* failed; from the deferred call on, the spans are flushed; only a streaming turn
\* is ever left behind.
Leaving ==
    /\ stage \in StartUp \cup {"listen"} => \A r \in Requests : pc[r] = "out"
    /\ stage \in {"flushing", "leaving"} =>
         Idle \/ (exit # "ok" /\ (timer = "over" \/ serveErr))
    /\ stage = "leaving" => tracer # "running"
    /\ CutOnlyAfterTheWindow
    /\ SpansFlushed
    /\ stage # "exited" => \A r \in Requests : pc[r] # "cut"
    /\ \A r \in Requests : pc[r] = "abandoned" => r \in Streaming

\* The way run ends fits the timer and the server error in every reachable state.
LEMMA LeavingHolds == Spec => []Leaving
<1> USE DEF StartUp, CutOnlyAfterTheWindow, SpansFlushed, Idle, Active
<1>1. Init => Leaving
  BY DEF Init, Leaving
<1>2. TypeOK /\ Leaving /\ [Next]_vars => Leaving'
  <2> SUFFICES ASSUME TypeOK, Leaving, [Next]_vars PROVE Leaving'
    OBVIOUS
  <2> USE DEF Leaving, requests, process
  <2>1. ASSUME NEW point \in StartUp \cup {"listen"}, Fail(point) PROVE Leaving'
    BY <2>1 DEF Fail
  <2>2. CASE LoadConfig \/ ResolvePack \/ BuildOptions \/ SetupTracing \/ ParseTools
             \/ OpenSessions \/ Listen
    BY <2>1, <2>2 DEF LoadConfig, ResolvePack, BuildOptions, SetupTracing, ParseTools,
       OpenSessions, Listen, Goto
  <2>3. CASE ResolvePackFails \/ OpenSessionsFails \/ ListenFails
    BY <2>1, <2>3 DEF ResolvePackFails, OpenSessionsFails, ListenFails
  <2>4. CASE StartDrain \/ DrainEnds \/ WindowCloses \/ ServeFails
    BY <2>4 DEF StartDrain, DrainEnds, WindowCloses, ServeFails
  <2>5. CASE StopServing \/ DrainTimesOut
    BY <2>5 DEF StopServing, DrainTimesOut, Fail
  <2>6. CASE Flush
    BY <2>6 DEF Flush
  <2>7. CASE Exit \/ Signal
    BY <2>7 DEF Exit, Signal, CutOff, TypeOK
  <2>8. ASSUME NEW r \in Requests,
               Accept(r) \/ WithSession(r) \/ Open(r) \/ Answer(r) \/ Abandon(r) \/ TurnEnds(r)
        PROVE  Leaving'
    <3>1. \A q \in Requests : q # r => pc'[q] = pc[q]
      BY <2>8 DEF Accept, WithSession, Open, Answer, Abandon, TurnEnds, TypeOK
    <3>2. /\ pc'[r] # "cut" /\ Up /\ UNCHANGED <<stage, exit, timer, serveErr, tracer>>
          /\ pc'[r] = "abandoned" => r \in Streaming
      BY <2>8 DEF Accept, WithSession, Open, Answer, Abandon, TurnEnds, TypeOK, Up
    <3>3. Active(r) \/ stage = "serving" \/ pc'[r] = "left"
      BY <2>8 DEF Accept, WithSession, Open, Answer, Abandon, TurnEnds, TypeOK
    <3> QED BY <3>1, <3>2, <3>3 DEF Up
  <2>9. CASE UNCHANGED vars
    BY <2>9 DEF vars
  <2> QED
    BY <2>2, <2>3, <2>4, <2>5, <2>6, <2>7, <2>8, <2>9 DEF Next, Process, Request
<1> QED BY <1>1, <1>2, TypeCorrect, PTL DEF Spec

\* A signal alone cuts no turn off: one is cut only after the drain window, or when
\* the server failed, and then run reports an error.
THEOREM TurnsDrain == Spec => []CutOnlyAfterTheWindow
BY LeavingHolds, PTL DEF Leaving

\* No path out of run leaves spans behind.
THEOREM NoSpanLeftBehind == Spec => []SpansFlushed
BY LeavingHolds, PTL DEF Leaving

\* Within the drain window the exporter is shut down under no turn but a streaming
\* one whose handler left it behind.
THEOREM ExporterOutlivesTurns == Spec => FlushedAfterTheTurns
<1>1. Leaving /\ [Next]_vars =>
        [tracer = "running" /\ tracer' = "flushed" =>
            \/ \A r \in Requests :
                 Active(r) \/ pc[r] = "abandoned" => r \in Streaming /\ pc[r] = "abandoned"
            \/ timer = "over"
            \/ serveErr]_vars
  <2> SUFFICES ASSUME Leaving, Next, tracer = "running", tracer' = "flushed"
               PROVE  Idle \/ timer = "over" \/ serveErr
    BY DEF Idle, Leaving, vars, process
  <2>1. Flush
    BY DEF Next, Process, Request, LoadConfig, ResolvePack, ResolvePackFails, BuildOptions,
       SetupTracing, ParseTools, OpenSessions, OpenSessionsFails, Listen, ListenFails,
       StartDrain, StopServing, DrainEnds, WindowCloses, DrainTimesOut, Exit, Signal,
       ServeFails, Accept, WithSession, Open, Answer, Abandon, TurnEnds, Fail, process
  <2> QED BY <2>1 DEF Flush, Leaving
<1> QED BY <1>1, LeavingHolds, PTL DEF Spec, FlushedAfterTheTurns
=============================================================================

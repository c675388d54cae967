------------------------------ MODULE Runtime ------------------------------
(***************************************************************************)
(* The container process (cmd/vertex-runtime): run starts up stage by      *)
(* stage, runServer serves turns until a signal or a server error, drains  *)
(* them for a limited time, and the deferred call flushes the traces.      *)
(* Every request shares the option slice that start-up built, and the one  *)
(* that names a session appends its own options to it.                     *)
(***************************************************************************)
EXTENDS Naturals, FiniteSets

CONSTANTS
    Requests,   \* the requests callers may send
    Streaming,  \* those that go to the streaming endpoint
    SessionOf,  \* the session a request names, or None
    Settings,   \* the environments the container may be started in
    None

ASSUME RuntimeAssumption ==
    /\ Streaming \subseteq Requests
    /\ Settings \subseteq [pack : {"present", "missing"}, named : BOOLEAN,
                           bindings : {"none", "llm", "malformed"}, located : BOOLEAN,
                           tracing : {"off", "on", "malformed"},
                           tools : {"valid", "malformed"}, engine : BOOLEAN]

VARIABLES
    cfg,       \* the environment the container was started in
    stage,     \* the point run has reached
    opts,      \* length and capacity of the shared option slice
    spare,     \* the session whose options lie behind its end, in its spare capacity
    store,     \* whether there is a session store
    tracer,    \* the trace exporter: "off", "running" or "flushed"
    signalled, \* SIGTERM or SIGINT arrived
    serveErr,  \* the server ended with an error
    timer,     \* the drain window: "off", "running" or "over"
    exit,      \* what run returns: "none" while it has not, "ok" or "error"
    pc,        \* where each request is; "abandoned" once its handler left its turn behind
    view,      \* the options of its turn: "base", "own" or "shared"
    talk       \* the session its conversation was opened in

process == <<stage, opts, store, tracer, exit>>
requests == <<pc, view, talk>>
vars == <<cfg, process, spare, signalled, serveErr, timer, requests>>

Sessions == {SessionOf[r] : r \in Requests}

StartUp == {"config", "pack", "options", "tracing", "tools", "sessions"}

TypeOK ==
    /\ cfg \in Settings
    /\ stage \in StartUp \cup {"listen", "serving", "draining", "flushing", "leaving", "exited"}
    /\ opts \in [len : 0..2, cap : Nat]
    /\ spare \in Sessions \cup {None}
    /\ tracer \in {"off", "running", "flushed"}
    /\ timer \in {"off", "running", "over"}
    /\ exit \in {"none", "ok", "error", "killed"}
    /\ store \in BOOLEAN /\ signalled \in BOOLEAN /\ serveErr \in BOOLEAN
    /\ pc \in [Requests -> {"out", "accepted", "opening", "running", "abandoned",
                             "ok", "error", "left", "cut"}]
    /\ view \in [Requests -> {"none", "base", "own", "shared"}]
    /\ talk \in [Requests -> Sessions \cup {None}]

Init ==
    /\ cfg \in Settings
    /\ stage = "config"
    /\ opts = [len |-> 0, cap |-> 0]
    /\ spare = None
    /\ store = FALSE
    /\ tracer = "off"
    /\ signalled = FALSE
    /\ serveErr = FALSE
    /\ timer = "off"
    /\ exit = "none"
    /\ pc = [r \in Requests |-> "out"]
    /\ view = [r \in Requests |-> "none"]
    /\ talk = [r \in Requests |-> None]
-----------------------------------------------------------------------------
(***************************************************************************)
(* Start-up: the stages of run, each of which may end it.                  *)
(***************************************************************************)

\* Start-up reaches its next stage.
Goto(next) ==
    /\ stage' = next
    /\ UNCHANGED <<cfg, exit, spare, signalled, serveErr, timer, requests>>

\* A bug: a failing stage leaves the process on the spot.
FailExiting(point) ==
    /\ stage = point
    /\ stage' = "exited"
    /\ exit' = "error"
    /\ UNCHANGED <<cfg, opts, store, tracer, spare, signalled, serveErr, timer, requests>>

\* A stage fails: run returns its error, through the deferred calls.
Fail(point) ==
    /\ stage = point
    /\ stage' = "flushing"
    /\ exit' = "error"
    /\ UNCHANGED <<cfg, opts, store, tracer, spare, signalled, serveErr, timer, requests>>

\* loadConfig: one pack source is required, and the tracing switch has to parse.
LoadConfig ==
    \/ /\ stage = "config" /\ cfg.pack # "missing" /\ cfg.tracing # "malformed"
       /\ Goto("pack")
       /\ UNCHANGED <<opts, store, tracer>>
    \/ (cfg.pack = "missing" \/ cfg.tracing = "malformed") /\ Fail("config")

\* resolvePackFile, prompt.LoadPack and resolveAgentName: a staged pack is fetched,
\* the file written and parsed, and the pack has to say which agent this is.
ResolvePack ==
    /\ stage = "pack" /\ cfg.named
    /\ Goto("options")
    /\ UNCHANGED <<opts, store, tracer>>

ResolvePackFails == Fail("pack")

\* A bug: room for more options is made in advance.
BuildOptionsWithRoom ==
    /\ stage = "options"
    /\ cfg.bindings = "llm" => cfg.located
    /\ cfg.bindings # "malformed"
    /\ opts' = [len |-> IF cfg.bindings = "llm" THEN 1 ELSE 0, cap |-> 4]
    /\ Goto("tracing")
    /\ UNCHANGED <<store, tracer>>

\* buildSDKOptions: one option for a primary binding, in a slice it fills, or none.
BuildOptions ==
    \/ /\ stage = "options"
       /\ cfg.bindings = "llm" => cfg.located
       /\ cfg.bindings # "malformed"
       /\ LET n == IF cfg.bindings = "llm" THEN 1 ELSE 0 IN opts' = [len |-> n, cap |-> n]
       /\ Goto("tracing")
       /\ UNCHANGED <<store, tracer>>
    \/ cfg.bindings = "malformed" /\ Fail("options")
    \/ cfg.bindings = "llm" /\ ~cfg.located /\ Fail("options")

\* append of n elements: in place when the capacity allows, else into an array of
\* twice the capacity, or of what is needed when that is more.
Appended(n) ==
    [len |-> opts.len + n,
     cap |-> IF opts.len + n <= opts.cap THEN opts.cap
             ELSE IF opts.len + n > 2 * opts.cap THEN opts.len + n
             ELSE 2 * opts.cap]

\* A bug: the exporter's options are attached here and by the caller.
SetupTracingTwice ==
    /\ stage = "tracing"
    /\ Goto("tools")
    /\ UNCHANGED store
    /\ \/ UNCHANGED <<opts, tracer>>
       \/ cfg.tracing = "on" /\ opts' = Appended(2) /\ tracer' = "running"

\* setupTracing: an exporter that cannot be made leaves tracing off.
SetupTracing ==
    /\ stage = "tracing"
    /\ Goto("tools")
    /\ UNCHANGED store
    /\ \/ UNCHANGED <<opts, tracer>>
       \/ cfg.tracing = "on" /\ opts' = Appended(1) /\ tracer' = "running"

ParseTools ==
    \/ /\ stage = "tools" /\ cfg.tools = "valid"
       /\ Goto("sessions")
       /\ UNCHANGED <<opts, store, tracer>>
    \/ cfg.tools = "malformed" /\ Fail("tools")

\* openSessionStore: without the engine's full name there is no store.
OpenSessions ==
    /\ stage = "sessions"
    /\ store' = (cfg.engine /\ cfg.located)
    /\ Goto("listen")
    /\ UNCHANGED <<opts, tracer>>

OpenSessionsFails == cfg.engine /\ cfg.located /\ Fail("sessions")
-----------------------------------------------------------------------------
(***************************************************************************)
(* runServer.                                                              *)
(***************************************************************************)
Listen ==
    /\ stage = "listen"
    /\ Goto("serving")
    /\ UNCHANGED <<opts, store, tracer>>

ListenFails == Fail("listen")

\* The request's handler has not returned: its connection is active.
Active(r) == pc[r] \in {"accepted", "opening", "running"}

\* The answers that are still owed when the process ends.
CutOff == [r \in Requests |-> IF Active(r) THEN "cut" ELSE pc[r]]

\* runServer catches signals from its first line to its return; before and after
\* that, one ends the process at once.
Signal ==
    /\ signalled' = TRUE
    /\ \/ /\ stage \in StartUp \cup {"flushing", "leaving"}
          /\ stage' = "exited"
          /\ exit' = "killed"
          /\ pc' = CutOff
       \/ /\ stage \in {"listen", "serving", "draining"}
          /\ UNCHANGED <<stage, exit, pc>>
    /\ UNCHANGED <<cfg, opts, store, tracer, spare, serveErr, timer, view, talk>>

\* Serve returns an error; nothing is accepted any more.
ServeFails ==
    /\ stage = "serving" /\ ~serveErr
    /\ serveErr' = TRUE
    /\ UNCHANGED <<cfg, process, spare, signalled, timer, requests>>

\* A bug: the traces are flushed when the signal arrives.
StartDrainFlushing ==
    /\ stage = "serving" /\ signalled
    /\ stage' = "draining"
    /\ timer' = "running"
    /\ tracer' = IF tracer = "running" THEN "flushed" ELSE tracer
    /\ UNCHANGED <<cfg, opts, store, exit, spare, signalled, serveErr, requests>>

\* select, the signal's case; it may be chosen when Serve has failed as well.
StartDrain ==
    /\ stage = "serving" /\ signalled
    /\ stage' = "draining"
    /\ timer' = "running"
    /\ UNCHANGED <<cfg, opts, store, tracer, exit, spare, signalled, serveErr, requests>>

\* select, the server error's case: run returns without draining.
StopServing == serveErr /\ Fail("serving")

\* Shutdown returns once no connection is active; it knows nothing of a turn whose
\* handler has left.
DrainEnds ==
    /\ stage = "draining"
    /\ \A r \in Requests : ~Active(r)
    /\ stage' = "flushing"
    /\ exit' = "ok"
    /\ UNCHANGED <<cfg, opts, store, tracer, spare, signalled, serveErr, timer, requests>>

WindowCloses ==
    /\ timer = "running" /\ stage = "draining"
    /\ timer' = "over"
    /\ UNCHANGED <<cfg, process, spare, signalled, serveErr, requests>>

\* A bug: the drain's context has no deadline of its own.
DrainTimesOutNever == FALSE /\ UNCHANGED vars

\* A bug: the drain's context is derived from the one the signal has cancelled.
DrainTimesOutAtOnce == Fail("draining")

DrainTimesOut == timer = "over" /\ Fail("draining")

\* The deferred tracing shutdown.
Flush ==
    /\ stage = "flushing"
    /\ stage' = "leaving"
    /\ tracer' = IF tracer = "running" THEN "flushed" ELSE tracer
    /\ UNCHANGED <<cfg, opts, store, exit, spare, signalled, serveErr, timer, requests>>

\* The process ends, and what still runs with it.
Exit ==
    /\ stage = "leaving"
    /\ stage' = "exited"
    /\ pc' = CutOff
    /\ UNCHANGED <<cfg, opts, store, tracer, exit, spare, signalled, serveErr, timer, view, talk>>
-----------------------------------------------------------------------------
(***************************************************************************)
(* Requests, in the handler goroutines of net/http.                        *)
(***************************************************************************)
Up == stage \in {"serving", "draining", "flushing", "leaving"}

Accept(r) ==
    /\ stage = "serving" /\ ~serveErr
    /\ pc[r] = "out"
    /\ pc' = [pc EXCEPT ![r] = "accepted"]
    /\ UNCHANGED <<cfg, process, spare, signalled, serveErr, timer, view, talk>>

\* withSession: a request without a session uses the shared slice as it is, one
\* with a session the result of append, and without a store that is an error.
WithSession(r) ==
    /\ Up
    /\ pc[r] = "accepted"
    /\ \/ /\ SessionOf[r] = None
          /\ view' = [view EXCEPT ![r] = "base"]
          /\ pc' = [pc EXCEPT ![r] = "opening"]
          /\ UNCHANGED spare
       \/ /\ SessionOf[r] # None /\ store
          /\ pc' = [pc EXCEPT ![r] = "opening"]
          /\ IF opts.len + 2 <= opts.cap
             THEN spare' = SessionOf[r] /\ view' = [view EXCEPT ![r] = "shared"]
             ELSE view' = [view EXCEPT ![r] = "own"] /\ UNCHANGED spare
       \/ /\ SessionOf[r] # None /\ ~store
          /\ pc' = [pc EXCEPT ![r] = "error"]
          /\ UNCHANGED <<spare, view>>
    /\ UNCHANGED <<cfg, process, signalled, serveErr, timer, talk>>

\* sdk.Open reads the options.
Open(r) ==
    /\ Up
    /\ pc[r] = "opening"
    /\ pc' = [pc EXCEPT ![r] = "running"]
    /\ talk' = [talk EXCEPT ![r] = IF view[r] = "base" THEN None
                                   ELSE IF view[r] = "own" THEN SessionOf[r]
                                   ELSE spare]
    /\ UNCHANGED <<cfg, process, spare, signalled, serveErr, timer, view>>

\* The turn ends and is answered, or fails on the way: the input has no message,
\* the conversation cannot be opened.  Nothing says how long it takes.
Answer(r) ==
    /\ Up
    /\ Active(r)
    /\ \E how \in {"ok", "error"} :
        /\ how = "ok" => pc[r] = "running"
        /\ pc' = [pc EXCEPT ![r] = how]
    /\ UNCHANGED <<cfg, process, spare, signalled, serveErr, timer, view, talk>>

\* writeStream returns when a write fails, the caller being gone, and leaves the
\* turn's goroutine behind.
Abandon(r) ==
    /\ Up
    /\ r \in Streaming /\ pc[r] = "running"
    /\ pc' = [pc EXCEPT ![r] = "abandoned"]
    /\ UNCHANGED <<cfg, process, spare, signalled, serveErr, timer, view, talk>>

\* That goroutine ends some time later, on the cancelled context or the end of
\* the conversation's stream.
TurnEnds(r) ==
    /\ Up
    /\ pc[r] = "abandoned"
    /\ pc' = [pc EXCEPT ![r] = "left"]
    /\ UNCHANGED <<cfg, process, spare, signalled, serveErr, timer, view, talk>>

Process ==
    \/ LoadConfig \/ ResolvePack \/ ResolvePackFails \/ BuildOptions \/ SetupTracing
    \/ ParseTools \/ OpenSessions \/ OpenSessionsFails \/ Listen \/ ListenFails
    \/ StartDrain \/ StopServing \/ DrainEnds \/ WindowCloses \/ DrainTimesOut
    \/ Flush \/ Exit

Request ==
    \E r \in Requests :
        Accept(r) \/ WithSession(r) \/ Open(r) \/ Answer(r) \/ Abandon(r) \/ TurnEnds(r)

Next == Process \/ Request \/ Signal \/ ServeFails

Spec == Init /\ [][Next]_vars

\* run goes on while it can, and the clock runs.  No turn has to end, no signal
\* has to arrive.
FairSpec == Spec /\ WF_vars(Process)
-----------------------------------------------------------------------------
\* Every turn runs in the session its request named, or in none if it named none:
\* requests that append to one slice at the same time do not see each other's
\* session, and no session is left out because there is no store.
TurnsRunInTheirSession ==
    \A r \in Requests :
        pc[r] \in {"running", "abandoned", "ok", "left"} =>
            talk[r] = SessionOf[r] /\ (SessionOf[r] # None => store)

\* A turn is cut off only when it outlasts the drain window or the server failed:
\* a signal alone takes no answer away from a caller.
CutOnlyAfterTheWindow ==
    (\E r \in Requests : pc[r] = "cut") => exit # "ok" /\ (timer = "over" \/ serveErr)

\* However run ends, the exporter it started has been told to flush and shut down:
\* also when start-up fails half-way.
SpansFlushed == stage = "exited" /\ exit # "killed" => tracer # "running"

\* The spans of a turn that is still running when the exporter is shut down are
\* lost.  Before the drain window is over, and unless the server failed, that
\* happens only to a streaming turn whose caller hung up: Shutdown waits for
\* handlers, and writeStream does not wait for its turn when a write fails.
FlushedAfterTheTurns ==
    [][tracer = "running" /\ tracer' = "flushed" =>
        \/ \A r \in Requests :
             Active(r) \/ pc[r] = "abandoned" => r \in Streaming /\ pc[r] = "abandoned"
        \/ timer = "over"
        \/ serveErr]_vars

\* A signal ends the process, even with a turn that never ends.
SignalStops == signalled ~> stage = "exited"
=============================================================================

------------------------------- MODULE Deploy -------------------------------
(***************************************************************************)
(* The deploy adapter (internal/vertex): the commands Plan, Apply, Status  *)
(* and Destroy over three pieces of state no single transaction covers:    *)
(*                                                                         *)
(*   - the adapter state the CLI keeps between commands (stored);          *)
(*   - the engines that exist at the Agent Runtime control plane (live);   *)
(*   - the staged packs in Cloud Storage (bucket).                         *)
(*                                                                         *)
(* A command is a sequence of remote calls; one action is one call with    *)
(* the bookkeeping the code does before its next call.  Between any two    *)
(* actions the process can die, a call can fail after it took effect, and  *)
(* somebody can delete an engine in the console.                           *)
(***************************************************************************)
EXTENDS Integers, FiniteSets

CONSTANTS
    Agents,          \* agent names; numbers, for the order sort.Strings gives them
    Ids,             \* engine resource names, assigned by the server
    Packs,           \* packs, identified by their content (and so by their hash)
    AgentsOf,        \* the agents a pack deploys
    PackSize,        \* a pack's serialized size
    Prints,          \* values of the fingerprinted part of a config
    Envs,            \* values of Config.Env, which the fingerprint leaves out
    Buckets,         \* values of Config.StagingBucket
    Configs,         \* the configs the operator may deploy with
    DefaultPackInlineLimitBytes,  \* the inline limit of a config that sets none
    InFlightAgents,  \* agents an initial state may record as in-flight
    Commands,        \* the commands the operator may run
    FaultKinds,      \* the faults the environment may inject
    MaxFaults,       \* and how many of them
    None, Nameless, Gone, Vanished  \* model values, see below

(***************************************************************************)
(* A staged pack is keyed by bucket and pack hash (staging.go).            *)
(***************************************************************************)
URIs == Buckets \X Packs

(***************************************************************************)
(* What an engine runs: the part of its spec the properties tell apart.    *)
(* Everything it needs travels as container environment (engine.go).       *)
(***************************************************************************)
Engine == [agent : Agents, pack : Packs, print : Prints, env : Envs,
           uri : URIs \cup {None}]

Request == [pack : Packs, config : Configs]

(***************************************************************************)
(* State of state.go.  An agent maps to the resource name of its engine,   *)
(* to Nameless (an in-flight record, which has no resource name) or to     *)
(* None (no record).                                                       *)
(***************************************************************************)
State == [pack : Packs \cup {None}, print : Prints \cup {None},
          uri : URIs \cup {None},
          engines : [Agents -> Ids \cup {None, Nameless}]]

newState == [pack |-> None, print |-> None, uri |-> None,
             engines |-> [a \in Agents |-> None]]

ASSUME ConstantsAssumption ==
    /\ Agents \subseteq Int
    /\ AgentsOf \in [Packs -> SUBSET Agents]
    /\ PackSize \in [Packs -> Nat]
    /\ DefaultPackInlineLimitBytes \in Nat \ {0}
    /\ Configs \subseteq [print : Prints, env : Envs, limit : Int,
                          bucket : Buckets \cup {None}, buildable : BOOLEAN]
    /\ InFlightAgents \subseteq Agents
    /\ MaxFaults \in Nat

ASSUME SentinelsAssumption ==
    /\ None \notin Ids \cup {Nameless} \cup Packs \cup Prints \cup Buckets \cup URIs
    /\ Nameless \notin Ids
    /\ Gone \notin Engine
    /\ Vanished \notin Engine \cup {Gone}
-----------------------------------------------------------------------------
VARIABLES
    stored,  \* the adapter state the CLI holds; "" and newState() are the same
    live,    \* resource name -> what it runs, Gone, or Vanished: deleted by hand
    bucket,  \* the staged packs that are present
    op,      \* the command running, or the last one
    req,     \* its pack and config
    pc,      \* "idle", or the point a running command has reached
    next,    \* the state an apply is building (applyEngines' next)
    todo,    \* the agents the current loop still has to visit
    seen,    \* what probing found: "yes", "no", "unknown" or "unprobed"
    result,  \* how the last command ended, "none" while one runs
    faults   \* faults injected so far

vars == <<stored, live, bucket, op, req, pc, next, todo, seen, result, faults>>

TypeOK ==
    /\ stored \in State
    /\ live \in [Ids -> Engine \cup {Gone, Vanished}]
    /\ bucket \subseteq URIs
    /\ op \in {"none", "plan", "apply", "status", "destroy"}
    /\ req \in Request
    /\ pc \in {"idle", "stage", "deploy", "recreate", "remove", "probe", "destroy"}
    /\ next \in State
    /\ todo \subseteq Agents
    /\ seen \in [Agents -> {"unprobed", "yes", "no", "unknown"}]
    /\ result \in {"none", "ok", "error", "crashed"}
    /\ faults \in 0..MaxFaults
-----------------------------------------------------------------------------
Exists(i) == live[i] \in Engine

Recorded(s) == {a \in Agents : s.engines[a] # None}
Named(s) == {a \in Agents : s.engines[a] \in Ids}
IdsOf(s) == {s.engines[a] : a \in Named(s)}

\* A resource name the server can assign: one nothing refers to.  The server
\* never reuses a name; a name that no record holds and no engine has is as
\* good as a new one.
Fresh(i) == ~Exists(i) /\ i \notin IdsOf(stored) \cup IdsOf(next)

\* A limit of zero, or less, is no limit of its own.
inlineLimit(c) == IF c.limit > 0 THEN c.limit ELSE DefaultPackInlineLimitBytes

\* decidePackDelivery: a pack exactly at the limit is still inline.
Inline(r) == PackSize[r.pack] <= inlineLimit(r.config)

stagedPackURI(r) == <<r.config.bucket, r.pack>>

\* enumerateAgents: the agents to deploy.
Desired == AgentsOf[req.pack]

\* buildEngine and buildEngineEnv: the full desired spec of one agent.
buildEngine(a) ==
    [agent |-> a, pack |-> req.pack, print |-> req.config.print,
     env |-> req.config.env, uri |-> next.uri]

\* Loops visit agents in sorted order.
IsNext(a) == a \in todo /\ \A b \in todo : a <= b

Fault(k) == k \in FaultKinds /\ faults < MaxFaults /\ faults' = faults + 1
NoFault == UNCHANGED faults

\* The control plane after engine i was deleted; deleting nothing is no error.
Deleted(i) == [live EXCEPT ![i] = IF Exists(i) THEN Gone ELSE @]

\* A command starts from the state the CLI hands it.
Begin(command, r) ==
    /\ pc = "idle"
    /\ command \in Commands
    /\ op' = command
    /\ req' = r
    /\ seen' = [a \in Agents |-> "unprobed"]
    /\ result' = "none"
    /\ UNCHANGED <<stored, live, bucket, faults>>

\* A command ends; the CLI keeps the state s, and the process is gone.
Return(s, how) ==
    /\ stored' = s
    /\ result' = how
    /\ pc' = "idle"
    /\ next' = newState
    /\ todo' = {}
    /\ UNCHANGED <<op, req>>
-----------------------------------------------------------------------------
(***************************************************************************)
(* Apply.  Parsing and validating the request change nothing and are not   *)
(* actions; gatherApplyInput hands over the parsed prior state.            *)
(***************************************************************************)
StartApply(r) ==
    /\ Begin("apply", r)
    /\ pc' = "stage"
    /\ next' = stored
    /\ todo' = {}

\* applyEngines builds the new state before any engine call: the hashes are
\* the new ones from the start, the engines are the recorded ones.
Staged(uri) ==
    /\ next' = [pack |-> req.pack, print |-> req.config.print, uri |-> uri,
                engines |-> stored.engines]
    /\ pc' = "deploy"
    /\ todo' = Desired
    /\ UNCHANGED <<stored, live, op, req, seen, result, faults>>

\* A bug: the staged URI is recorded without waiting for the upload.
StagePackWithoutUpload ==
    /\ pc = "stage"
    /\ Staged(IF Inline(req) \/ req.config.bucket = None THEN None
              ELSE stagedPackURI(req))
    /\ UNCHANGED bucket

\* A bug: the missing bucket is not checked for.
StagePackAnywhere ==
    /\ pc = "stage"
    /\ \/ Inline(req) /\ Staged(None) /\ UNCHANGED bucket
       \/ /\ ~Inline(req)
          /\ Staged(stagedPackURI(req))
          /\ bucket' = bucket \cup {stagedPackURI(req)}

StagePack ==
    /\ pc = "stage"
    /\ \/ Inline(req) /\ Staged(None) /\ UNCHANGED bucket
       \/ /\ ~Inline(req)
          /\ req.config.bucket # None
          /\ Staged(stagedPackURI(req))
          /\ bucket' = IF stored.uri = stagedPackURI(req) THEN bucket
                       ELSE bucket \cup {stagedPackURI(req)}

\* A pack over the limit with no bucket: refused before any engine is touched,
\* and the prior state is returned.
StagePackRefused ==
    /\ pc = "stage"
    /\ ~Inline(req)
    /\ req.config.bucket = None
    /\ Return(stored, "error")
    /\ UNCHANGED <<live, bucket, seen, faults>>

\* The upload fails.  A commit that reports failure may have stored the object.
StagePackFails ==
    /\ pc = "stage"
    /\ ~Inline(req)
    /\ req.config.bucket # None
    /\ stored.uri # stagedPackURI(req)
    /\ Fault("api")
    /\ bucket' \in {bucket, bucket \cup {stagedPackURI(req)}}
    /\ Return(stored, "error")
    /\ UNCHANGED <<live, seen>>

\* The next agent's engine is to be created: it has no usable record, or the
\* update just found nothing there.
Creating(a) ==
    /\ IsNext(a)
    /\ req.config.buildable
    /\ \/ pc = "deploy" /\ stored.engines[a] \notin Ids
       \/ pc = "recreate"

\* The next agent's engine is to be updated, under its recorded name.
Updating(a) ==
    /\ IsNext(a)
    /\ req.config.buildable
    /\ pc = "deploy"
    /\ stored.engines[a] \in Ids

\* Agent a is deployed as engine i: record it and go on.
Deployed(a, i) ==
    /\ live' = [live EXCEPT ![i] = buildEngine(a)]
    /\ next' = [next EXCEPT !.engines[a] = i]
    /\ todo' = todo \ {a}
    /\ pc' = "deploy"
    /\ UNCHANGED <<stored, bucket, op, req, seen, result, faults>>

\* A bug: the state is only completed once every agent is deployed.
CreateEngineUnrecorded(a) ==
    /\ Creating(a)
    /\ \E i \in Ids :
        /\ Fresh(i)
        /\ live' = [live EXCEPT ![i] = buildEngine(a)]
    /\ todo' = todo \ {a}
    /\ pc' = "deploy"
    /\ UNCHANGED <<stored, next, bucket, op, req, seen, result, faults>>

\* A bug: an engine nobody refers to is adopted, whichever agent it serves.
CreateEngineAdopting(a) ==
    /\ Creating(a)
    /\ \E i \in Ids :
        \/ Fresh(i) /\ Deployed(a, i)
        \/ /\ Exists(i)
           /\ i \notin IdsOf(stored) \cup IdsOf(next)
           /\ next' = [next EXCEPT !.engines[a] = i]
           /\ todo' = todo \ {a}
           /\ pc' = "deploy"
           /\ UNCHANGED <<stored, live, bucket, op, req, seen, result, faults>>

CreateEngine(a) ==
    /\ Creating(a)
    /\ \E i \in Ids : Fresh(i) /\ Deployed(a, i)

\* A bug: a redeploy always creates, the way a first deploy does.
UpdateEngineByCreating(a) ==
    /\ Updating(a)
    /\ \E i \in Ids : Fresh(i) /\ Deployed(a, i)

\* A bug: the update is skipped when the pack is the recorded one.
UpdateEngineIfPackChanged(a) ==
    /\ Updating(a)
    /\ Exists(stored.engines[a])
    /\ live' = IF stored.pack = req.pack THEN live
               ELSE [live EXCEPT ![stored.engines[a]] = buildEngine(a)]
    /\ todo' = todo \ {a}
    /\ UNCHANGED <<stored, bucket, op, req, pc, next, seen, result, faults>>

UpdateEngine(a) ==
    /\ Updating(a)
    /\ Exists(stored.engines[a])
    /\ Deployed(a, stored.engines[a])

\* A bug: an engine that is not there fails the apply, which keeps its record.
UpdateFindsNothingAndFails(a) ==
    /\ Updating(a)
    /\ ~Exists(stored.engines[a])
    /\ Return(next, "error")
    /\ UNCHANGED <<live, bucket, seen, faults>>

\* ErrEngineNotFound: state outlived the engine, so it is created anew.
UpdateFindsNothing(a) ==
    /\ Updating(a)
    /\ ~Exists(stored.engines[a])
    /\ pc' = "recreate"
    /\ UNCHANGED <<stored, live, bucket, op, req, next, todo, seen, result, faults>>

\* A bug: an error returns the state the apply started from.
DeployFailedForgetting(a) ==
    /\ Return(stored, "error")
    /\ UNCHANGED <<bucket, seen>>

\* Any error of applyOneEngine: the agent's record is dropped and the apply
\* stops.
DeployFailed(a) ==
    /\ Return([next EXCEPT !.engines[a] = None], "error")
    /\ UNCHANGED <<bucket, seen>>

\* buildEngine rejects the config (a reserved env name, a label collision)
\* before any call is made for the agent.
BuildFails(a) ==
    /\ pc = "deploy"
    /\ IsNext(a)
    /\ ~req.config.buildable
    /\ NoFault
    /\ UNCHANGED live
    /\ DeployFailed(a)

\* The names are also the project's quota: with none left, a create is refused.
CreateRefused(a) ==
    /\ Creating(a)
    /\ \A i \in Ids : ~Fresh(i)
    /\ NoFault
    /\ UNCHANGED live
    /\ DeployFailed(a)

\* The create call or the wait for its operation fails; either way the engine
\* may exist afterwards, under a name nobody received.
CreateFails(a) ==
    /\ Creating(a)
    /\ Fault("api")
    /\ live' \in {live} \cup {[live EXCEPT ![i] = buildEngine(a)] : i \in {j \in Ids : Fresh(j)}}
    /\ DeployFailed(a)

\* The update call or the wait for its operation fails; the engine is still
\* there and may or may not have been updated.
UpdateFails(a) ==
    /\ Updating(a)
    /\ Fault("api")
    /\ live' \in {live, IF Exists(stored.engines[a])
                        THEN [live EXCEPT ![stored.engines[a]] = buildEngine(a)]
                        ELSE live}
    /\ DeployFailed(a)

\* A bug: engines of retired agents are removed before the new ones are up.
StartRemovingEarly ==
    /\ pc = "deploy"
    /\ pc' = "remove"
    /\ todo' = Recorded(next) \ Desired
    /\ UNCHANGED <<stored, live, bucket, op, req, next, seen, result, faults>>

\* deleteRemoved: the recorded agents that have left the pack.
StartRemoving ==
    /\ pc = "deploy"
    /\ todo = {}
    /\ pc' = "remove"
    /\ todo' = Recorded(next) \ Desired
    /\ UNCHANGED <<stored, live, bucket, op, req, next, seen, result, faults>>

RemoveEngine(a) ==
    /\ pc = "remove"
    /\ IsNext(a)
    /\ next.engines[a] \in Ids
    /\ live' = Deleted(next.engines[a])
    /\ next' = [next EXCEPT !.engines[a] = None]
    /\ todo' = todo \ {a}
    /\ UNCHANGED <<stored, bucket, op, req, pc, seen, result, faults>>

\* The first failing delete stops the apply; the engine's record is kept.
RemoveFails(a) ==
    /\ pc = "remove"
    /\ IsNext(a)
    /\ next.engines[a] \in Ids
    /\ Fault("api")
    /\ live' \in {live, Deleted(next.engines[a])}
    /\ Return(next, "error")
    /\ UNCHANGED <<bucket, seen>>

\* An in-flight record has no name; deleteRemoved calls DeleteEngine with the
\* empty one, and the API rejects it as malformed.
RemoveRefused(a) ==
    /\ pc = "remove"
    /\ IsNext(a)
    /\ next.engines[a] = Nameless
    /\ Return(next, "error")
    /\ UNCHANGED <<live, bucket, seen, faults>>

FinishApply ==
    /\ pc = "remove"
    /\ todo = {}
    /\ Return(next, "ok")
    /\ UNCHANGED <<live, bucket, seen, faults>>
-----------------------------------------------------------------------------
(***************************************************************************)
(* Plan and Status look up every named engine and change nothing else.     *)
(* What they report is a function of the stored state and of what the      *)
(* lookups saw; the operators after the actions define it.                 *)
(***************************************************************************)
StartProbing ==
    /\ pc' = "probe"
    /\ todo' = Named(stored)
    /\ UNCHANGED next

\* validatePackDelivery refuses a pack that would have to be staged nowhere.
StartPlan(r) ==
    /\ Inline(r) \/ r.config.bucket # None
    /\ Begin("plan", r)
    /\ StartProbing

StartStatus ==
    /\ Begin("status", req)
    /\ StartProbing

Saw(a, answer) ==
    /\ pc = "probe"
    /\ IsNext(a)
    /\ seen' = [seen EXCEPT ![a] = answer]
    /\ todo' = todo \ {a}
    /\ UNCHANGED <<stored, live, bucket, op, req, pc, next, result>>

Probe(a) ==
    /\ Saw(a, IF Exists(stored.engines[a]) THEN "yes" ELSE "no")
    /\ NoFault

\* A bug: a lookup that failed is taken for an engine that is gone.
ProbeFailsAsAbsent(a) ==
    /\ Saw(a, "no")
    /\ Fault("lookup")

\* Only ErrEngineNotFound is evidence of absence.
ProbeFails(a) ==
    /\ Saw(a, "unknown")
    /\ Fault("lookup")

\* The client cannot be made: Plan falls back to the stored state, Status fails.
NoClient ==
    /\ pc = "probe"
    /\ todo = Named(stored)
    /\ todo # {}
    /\ Fault("lookup")
    /\ Return(stored, IF op = "plan" THEN "ok" ELSE "error")
    /\ UNCHANGED <<live, bucket, seen>>

FinishProbing ==
    /\ pc = "probe"
    /\ todo = {}
    /\ Return(stored, "ok")
    /\ UNCHANGED <<live, bucket, seen, faults>>

\* reconcilePriorState: the records a plan goes by, and the drift it reports.
Kept == {a \in Recorded(stored) : seen[a] # "no"}
Drift == {a \in Recorded(stored) : seen[a] = "no"}

engineChange(a) ==
    IF a \notin Kept THEN "create"
    ELSE IF stored.engines[a] = Nameless THEN "update"
    ELSE IF stored.pack # req.pack \/ stored.print # req.config.print THEN "update"
    ELSE "nochange"

\* planEngineChanges: one change per desired agent, a DELETE per retired one.
planEngineChanges ==
    {<<a, engineChange(a)>> : a \in Desired}
        \cup {<<a, "delete">> : a \in Kept \ Desired}

engineStatus(a) ==
    IF stored.engines[a] = Nameless THEN "unhealthy"
    ELSE IF seen[a] = "no" THEN "missing"
    ELSE IF seen[a] = "yes" THEN "healthy"
    ELSE "unhealthy"

\* A bug: only a missing engine degrades the deployment.
aggregateStatusMissingOnly ==
    IF Recorded(stored) = {} THEN "not_deployed"
    ELSE IF \E a \in Recorded(stored) : engineStatus(a) = "missing" THEN "degraded"
    ELSE "deployed"

aggregateStatus ==
    IF Recorded(stored) = {} THEN "not_deployed"
    ELSE IF \E a \in Recorded(stored) : engineStatus(a) # "healthy" THEN "degraded"
    ELSE "deployed"
-----------------------------------------------------------------------------
(***************************************************************************)
(* Destroy.  While it runs, result holds firstErr: "none" or "error".  It  *)
(* returns no state; after a success the CLI may drop the one it has.      *)
(***************************************************************************)
StartDestroy ==
    /\ Begin("destroy", req)
    /\ pc' = "destroy"
    /\ todo' = Recorded(stored)
    /\ UNCHANGED next

Destroying(a) == pc = "destroy" /\ IsNext(a)

\* A bug: the first failing delete ends the pass.
DestroyEngineFailsAndStops(a) ==
    /\ Destroying(a)
    /\ stored.engines[a] \in Ids
    /\ Fault("api")
    /\ live' \in {live, Deleted(stored.engines[a])}
    /\ Return(stored, "error")
    /\ UNCHANGED <<bucket, seen>>

\* A bug: a failing delete is reported as an event only.
DestroyEngineFailsUnnoticed(a) ==
    /\ Destroying(a)
    /\ stored.engines[a] \in Ids
    /\ Fault("api")
    /\ live' \in {live, Deleted(stored.engines[a])}
    /\ todo' = todo \ {a}
    /\ UNCHANGED <<stored, bucket, op, req, pc, next, seen, result>>

\* A bug: deleting an engine that is already gone is an error that ends the pass.
DestroyEngineNotIdempotent(a) ==
    /\ Destroying(a)
    /\ stored.engines[a] \in Ids
    /\ IF Exists(stored.engines[a])
       THEN /\ live' = Deleted(stored.engines[a])
            /\ todo' = todo \ {a}
            /\ UNCHANGED <<stored, op, req, pc, next, result>>
       ELSE Return(stored, "error") /\ UNCHANGED live
    /\ UNCHANGED <<bucket, seen, faults>>

\* An in-flight record is reported and skipped; a delete succeeds.
DestroyEngine(a) ==
    /\ Destroying(a)
    /\ \/ stored.engines[a] = Nameless /\ UNCHANGED live
       \/ stored.engines[a] \in Ids /\ live' = Deleted(stored.engines[a])
    /\ todo' = todo \ {a}
    /\ UNCHANGED <<stored, bucket, op, req, pc, next, seen, result, faults>>

\* A failed delete does not abort the rest; the error is remembered.
DestroyEngineFails(a) ==
    /\ Destroying(a)
    /\ stored.engines[a] \in Ids
    /\ Fault("api")
    /\ live' \in {live, Deleted(stored.engines[a])}
    /\ todo' = todo \ {a}
    /\ result' = "error"
    /\ UNCHANGED <<stored, bucket, op, req, pc, next, seen>>

\* The caller's callback fails, before or after the delete.  Destroy returns
\* errors.Unwrap of an error that wraps two errors, which is nil: it reports
\* success, whatever was left undone or had failed before.
DestroyCallbackFails(a) ==
    /\ Destroying(a)
    /\ Fault("callback")
    /\ live' \in {live} \cup {Deleted(i) : i \in Ids \cap {stored.engines[a]}}
    /\ \E s \in {stored, newState} : Return(s, "ok")
    /\ UNCHANGED <<bucket, seen>>

FinishDestroy ==
    /\ pc = "destroy"
    /\ todo = {}
    /\ \/ result = "none" /\ \E s \in {stored, newState} : Return(s, "ok")
       \/ result = "error" /\ Return(stored, "error")
    /\ UNCHANGED <<live, bucket, seen, faults>>
-----------------------------------------------------------------------------
(***************************************************************************)
(* The environment.                                                        *)
(***************************************************************************)

\* The process dies between two calls; the CLI still has the state it had.
Crash ==
    /\ pc # "idle"
    /\ Fault("crash")
    /\ Return(stored, "crashed")
    /\ UNCHANGED <<live, bucket, seen>>

\* Somebody deletes an engine in the console.
OutOfBandDelete(i) ==
    /\ Exists(i)
    /\ Fault("outofband")
    /\ live' = [live EXCEPT ![i] = Vanished]
    /\ UNCHANGED <<stored, bucket, op, req, pc, next, todo, seen, result>>

Init ==
    /\ \E inflight \in SUBSET InFlightAgents :
         stored = [newState EXCEPT !.engines =
                     [a \in Agents |-> IF a \in inflight THEN Nameless ELSE None]]
    /\ live = [i \in Ids |-> Gone]
    /\ bucket = {}
    /\ op = "none"
    /\ req \in Request
    /\ pc = "idle"
    /\ next = newState
    /\ todo = {}
    /\ seen = [a \in Agents |-> "unprobed"]
    /\ result = "none"
    /\ faults = 0

\* The operator runs a command.
Operator ==
    \/ \E r \in Request : StartApply(r) \/ StartPlan(r)
    \/ StartStatus
    \/ StartDestroy

\* The adapter's next step when nothing goes wrong.
Step ==
    \/ StagePack
    \/ StagePackRefused
    \/ StartRemoving
    \/ FinishApply
    \/ FinishProbing
    \/ FinishDestroy
    \/ \E a \in Agents :
        \/ CreateEngine(a)
        \/ UpdateEngine(a)
        \/ UpdateFindsNothing(a)
        \/ BuildFails(a)
        \/ CreateRefused(a)
        \/ RemoveEngine(a)
        \/ RemoveRefused(a)
        \/ Probe(a)
        \/ DestroyEngine(a)

\* Its next step when something does, and what happens around it.
Trouble ==
    \/ StagePackFails
    \/ NoClient
    \/ Crash
    \/ \E a \in Agents :
        \/ CreateFails(a)
        \/ UpdateFails(a)
        \/ RemoveFails(a)
        \/ ProbeFails(a)
        \/ DestroyEngineFails(a)
        \/ DestroyCallbackFails(a)
    \/ \E i \in Ids : OutOfBandDelete(i)

Next == Operator \/ Step \/ Trouble

Spec == Init /\ [][Next]_vars

\* A started process runs until it ends or dies, and the operator keeps issuing
\* commands; nothing forces a fault.  That every remote call, and the wait for
\* its operation, returns is assumed here: the client sets no deadline.
FairSpec == Spec /\ WF_vars(Step) /\ WF_vars(Operator)
-----------------------------------------------------------------------------
(***************************************************************************)
(* Safety.                                                                 *)
(***************************************************************************)

\* What engine a is to run under request r with its pack staged at uri.
EngineFor(r, a, uri) ==
    [agent |-> a, pack |-> r.pack, print |-> r.config.print,
     env |-> r.config.env, uri |-> uri]

OwnEngines(s) ==
    \A a \in Named(s) :
        /\ Exists(s.engines[a]) => live[s.engines[a]].agent = a
        /\ \A b \in Named(s) : s.engines[a] = s.engines[b] => a = b

\* A record names an engine of its own agent, and no two agents share one:
\* otherwise an update would put one agent's configuration on another's engine
\* and a delete would take down an agent that stays.
RecordsOwnEngines == OwnEngines(stored) /\ OwnEngines(next)

\* An engine reads its pack when a container starts, possibly long after the
\* apply: the object it points at holds its own pack and is present, also when
\* the apply skipped the upload because the state already had the URI.
StagedPackPresent ==
    /\ stored.uri # None => stored.uri \in bucket
    /\ \A i \in Ids : Exists(i) /\ live[i].uri # None =>
        live[i].uri \in bucket /\ live[i].uri[2] = live[i].pack

\* A deployed agent: recorded under a name at which its desired spec runs, or
\* ran until somebody deleted the engine behind the adapter's back.
IsDeployed(s, r, a) ==
    /\ s.engines[a] \in Ids
    /\ live[s.engines[a]] \in {EngineFor(r, a, s.uri), Vanished}

\* An apply that reports success leaves exactly the agents of the pack on
\* record, each deployed with the requested pack and config: no update was
\* skipped, no retired agent is left, no engine is recorded under a stale name.
AppliedMeansDeployed ==
    op = "apply" /\ result = "ok" =>
        /\ Recorded(stored) = Desired
        /\ \A a \in Desired : IsDeployed(stored, req, a)
        /\ stored.pack = req.pack /\ stored.print = req.config.print

\* An apply that stops at an agent returns a state in which every agent visited
\* before it is deployed, and every other agent has the record it had.
PartialApplyKeepsProgress ==
    [][result' = "error" /\ pc \in {"deploy", "recreate"} =>
        \E failed \in todo :
            /\ \A a \in Desired \ todo : IsDeployed(stored, req, a)'
            /\ \A a \in (Agents \ Desired) \cup (todo \ {failed}) :
                 stored'.engines[a] = stored.engines[a]]_vars

\* An apply that succeeds keeps the resource name of every engine it found:
\* consumers hold on to that name across deploys.
SuccessfulApplyKeepsNames ==
    [][op = "apply" /\ result' = "ok" =>
        \A a \in Desired \cap Named(stored) :
            live'[stored.engines[a]] \in Engine
                => stored'.engines[a] = stored.engines[a]]_vars

\* Engines that run, and bill, with no record that would let a later command
\* find them.
Orphans == {i \in Ids : Exists(i) /\ i \notin IdsOf(stored) \cup IdsOf(next)}

\* The engine whose record an apply drops because buildEngine refuses the spec of
\* its agent: a running one, when the config of a redeploy has become unbuildable.
Refused ==
    {i \in Ids : pc = "deploy" /\ ~req.config.buildable
                  /\ \E a \in Agents : IsNext(a) /\ stored.engines[a] = i}

\* A step in which no call fails and nobody interferes orphans no engine, at
\* whatever point of whichever command and whatever went wrong before, but for
\* one: applyEngines deletes the record of an agent whose spec cannot be built.
OrphansNeedTrouble ==
    [][faults' = faults => Orphans' \subseteq Orphans \cup Refused]_vars

\* An apply deletes an engine only after every agent of the pack is deployed,
\* and only one whose agent left the pack: no failure on the way takes away an
\* agent that was serving.
DeletesOnlyRetired ==
    [][\A i \in Ids : op = "apply" /\ Exists(i) /\ live'[i] = Gone =>
        /\ live[i].agent \notin Desired
        /\ \A a \in Desired : IsDeployed(next, req, a)]_vars

\* Absence is reported (as drift, as a planned create, as a missing resource)
\* only of an engine that really is gone, however lookups fail.
AbsenceConfirmed ==
    pc = "idle" =>
        /\ op = "plan" => \A a \in Drift : ~Exists(stored.engines[a])
        /\ op = "status" => \A a \in Recorded(stored) :
             engineStatus(a) = "missing" => ~Exists(stored.engines[a])

\* A status of "deployed" means every recorded engine was found.
StatusDeployedMeansFound ==
    op = "status" /\ result = "ok" /\ aggregateStatus = "deployed" =>
        \A a \in Recorded(stored) :
            stored.engines[a] \in Ids /\ live[stored.engines[a]] # Gone

\* An agent the plan calls up to date, whose engine it saw, runs the requested
\* pack and fingerprinted config.
UpToDateIsCurrent ==
    op = "plan" /\ result = "ok" =>
        \A a \in Desired \cap Named(stored) :
            LET e == live[stored.engines[a]] IN
            /\ <<a, "nochange">> \in planEngineChanges
            /\ Exists(stored.engines[a])
            => e.pack = req.pack /\ e.print = req.config.print

\* A destroy that reports success has deleted every engine the state names.
DestroyedMeansGone ==
    [][op = "destroy" /\ pc = "destroy" /\ result' = "ok" =>
        \A a \in Named(stored) : live'[stored.engines[a]] \notin Engine]_vars

\* Destroy attempts every recorded engine before it returns an error: one that
\* cannot be deleted does not strand the rest.
DestroyAttemptsAll ==
    [][op = "destroy" /\ pc = "destroy" /\ result' = "error" /\ pc' = "idle" => todo = {}]_vars

\* What the operator sees of a command, the engines it touches and the state it
\* leaves, is what DeployContract promises.  The callback's failure is not in the
\* promise: what Destroy reports after one is a run of its own.
Contract == INSTANCE DeployContract WITH
    Requests <- Request,
    running <- pc # "idle",
    result <- IF pc = "idle" THEN result ELSE "none"
ImplementsContract == Contract!Safety
-----------------------------------------------------------------------------
(***************************************************************************)
(* What the repository says of the adapter and the code does not do.  Each *)
(* is violated, by the run README.md names.                                *)
(***************************************************************************)

\* apply.go: state is returned when an apply fails partway, because engines that
\* were created must be recorded or the next apply orphans them.
ReturnedApplyOrphansNothing ==
    [][op = "apply" /\ result' = "error" =>
        \A i \in IdsOf(stored) : live'[i] \in Engine => i \in IdsOf(stored')]_vars

\* resource-lifecycle.md: when the process is interrupted during a creation, the
\* engine is recorded as in-flight, not left orphaned and invisible.
InterruptedCreateRecorded ==
    pc = "idle" => \A i \in Ids : Exists(i) => live[i].agent \in Recorded(stored)
-----------------------------------------------------------------------------
(***************************************************************************)
(* Liveness, under FairSpec.                                               *)
(***************************************************************************)

\* An operator who from some point on only re-applies one valid request gets it
\* deployed for good, whatever failed, crashed or was deleted before.
ReapplyingConverges ==
    \A r \in Request :
        (r.config.buildable /\ (Inline(r) \/ r.config.bucket # None))
        => (<>[](op = "apply" /\ req = r) =>
              <>[](/\ Recorded(stored) = AgentsOf[r.pack]
                   /\ \A a \in AgentsOf[r.pack] :
                        /\ stored.engines[a] \in Ids
                        /\ live[stored.engines[a]] = EngineFor(r, a, stored.uri)))

\* An operator who from some point on only destroys gets every recorded engine
\* deleted.
DestroyingConverges ==
    <>[](op = "destroy") => <>[](\A a \in Named(stored) : ~Exists(stored.engines[a]))
=============================================================================

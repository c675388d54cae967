# Verification of promptarena-deploy-vertex

TLA+ models, model-checking runs and machine-checked proofs for the adapter that
deploys PromptKit packs to Vertex AI Agent Runtime (`src/internal/vertex`) and for
the container that serves them (`src/cmd/vertex-runtime`).

Modules are checked with TLC (`tlc -config X.cfg M`) and proved with TLAPS
(`tlapm M.tla`). `PROJECT.json` lists the runs, the mutants that show that every
property can fail, the source lines each definition models, the findings, the
hazards and the theorems.

## The system

Two programs share nothing at run time but the environment variables the first
gives the second, and a staged pack in Cloud Storage.

**The adapter** is a plugin of the `promptarena` CLI. Each command is one call: the
CLI hands over the pack, the config and the adapter state it kept, and persists the
state the call returns.

| Part | Source | State | Operations |
|---|---|---|---|
| Plan | `provider.go`, `plan.go`, `reconcile.go` | none | look up every recorded engine, diff hashes and records |
| Apply | `apply.go` | the state being built (`next`) | stage the pack; per agent create, update or recreate; delete retired agents |
| Status | `lifecycle.go` | none | look up every recorded engine, aggregate |
| Destroy | `lifecycle.go` | first error | delete every recorded engine, report through a callback |
| Adapter state | `state.go`, `hash.go` | pack and config hash, staged URI, agent to resource name, in-flight flag | parse, marshal |
| Staging | `staging.go`, `storage_real.go`, `pack.go` | objects in a bucket | upload keyed by pack hash |
| Control-plane client | `client.go`, `client_real.go`, `agentcard_patch.go` | the engines (remote) | create, update, get, delete, each a long-running operation; best-effort agent card patch |
| Dry-run client | `client_dryrun.go` | a map | the same, in memory |
| Spec building | `engine.go`, `config.go`, `labels*.go`, `bindings.go`, `resolve.go`, `arena.go`, `agentcard.go`, `endpoint.go` | none | validation, label sanitizing, binding resolution, environment |
| Diagnostics, schema, `main.go` | | none | warnings, a constant, plugin start |

**The runtime** is one process per container.

| Part | Source | State | Operations |
|---|---|---|---|
| Process | `main.go`, `server.go`, `config.go`, `pack.go`, `agent.go`, `providers.go`, `otel.go`, `sessionstore_real.go` | option slice, tracer, server | start-up in stages, serve, drain on a signal, flush |
| Turns | `turn.go`, `handlers.go` | per request: options, conversation | unary endpoint |
| Streaming | `turn.go`, `handlers.go` | two goroutines, two channels | streaming endpoint |
| Session store | `sessionstore.go` | none locally; sessions and events at the API | Load, AppendMessages, Save, Fork |
| Tools | `toolspecs.go` | none | mock and HTTP executors handed to the SDK |

What is hard here: an apply is a sequence of slow remote calls, each of which may
fail after it took effect, and the process may die between them, while engines
bill on; the adapter's record can be stale; requests of the runtime interleave in a
shared slice and in shared sessions through non-atomic check-then-create and
count-then-append; a streaming request is two goroutines, a caller who may leave,
and a context cancelled by a third party; the drain races with signals and server
errors. `PROJECT.json` "hazards" lists each at its line, with the properties that
would catch it.

What makes each part correct:

- *Apply*: records name their own agents' engines and no engine is shared; success
  means every agent of the pack runs exactly what was asked; failure keeps what was
  achieved; names are stable; only retired agents are deleted, and only at the end;
  nothing is orphaned but by a fault (or, in this code, by a config that can no longer
  be built); retrying converges.
- *Plan, Status*: absence is only reported of what is gone; "up to date" and
  "deployed" mean it.
- *Destroy*: attempts everything, reports what failed, converges.
- *Process*: turns run in their session; a signal cuts off no turn within the drain
  window; spans are flushed, after the turns they belong to; the process stops.
- *Streaming*: a truncated answer never looks complete; no goroutine is left behind.
- *Session store*: acknowledged turns are there once, in order, for later turns.
- *Spec building and the container's configuration*, which only meet through the
  environment: what validation and plan accept can be deployed, what was deployed
  starts, and the container runs the agent, model, tools, tracing and labels that the
  operator wrote, whatever else is in its environment.

## Modules

| Module | Models | Extends |
|---|---|---|
| `Deploy` | the four commands, the control plane, the bucket, the CLI's state | |
| `MCDeploy` | two agents, two packs, configs, faults, for TLC | `Deploy` |
| `DeployContract` | what the adapter promises the operator (abstract) | |
| `DeployProofs` | theorems about `Deploy` | `Deploy`, `TLAPS` |
| `DeployProgressProofs` | what an apply achieves: theorems that build on the above | `DeployProofs` |
| `DeployContractProofs` | `Deploy` implements `DeployContract`; what plan, status and destroy report | `DeployProgressProofs` |
| `Filter`, `FilterProofs` | the loop that keeps some elements of a list, and what can be said of it | |
| `Labels` | label sanitizing, collisions, the managed labels | `Filter` |
| `EngineSpec` | validation, bindings, tools, environment and labels of an engine | `Labels` |
| `ContainerConfig` | what start-up makes of an environment | |
| `Handoff` | edits, applies and container starts: composes `EngineSpec` and `ContainerConfig` | `EngineSpec`, instance of `ContainerConfig` |
| `MCHandoff` | the inputs, for TLC | `Handoff` |
| `HandoffProofs` | theorems about `Handoff` | `Handoff`, `FilterProofs` |
| `StreamContract` | what the streaming endpoint promises its caller (abstract) | |
| `Stream` | handler and turn goroutines; implements `StreamContract` | |
| `StreamProofs` | theorems about `Stream`, the refinement among them | `Stream`, `TLAPS` |
| `SessionStore`, `MCSessionStore` | concurrent use of sessions | `Filter` |
| `SessionStoreProofs` | theorems about `SessionStore` | `SessionStore`, `FilterProofs` |
| `Runtime`, `MCRuntime` | the container process and its requests | |
| `RuntimeProofs` | theorems about `Runtime` | `Runtime`, `TLAPS` |

Operators whose comment starts with "A bug:" are not part of any specification.
They are plausible mistakes in the code next to them; substituting one for the
definition it precedes must make the property it is listed with fail.

### Deploy

One action is one remote call with the bookkeeping up to the next one; parsing,
validation and making a client, which fail before anything happened, are not
actions. Variables: `stored` is what the CLI holds (the empty string and
`newState()` are the same); as it does not change while a command runs it is also
the command's prior state. `live` maps resource names to what runs there, `bucket`
is the set of staged packs, `next` is `applyEngines`' `next`, `todo` what the current
loop has yet to visit (agents are numbers, because the loops visit names in sorted
order), `seen` what the lookups of plan and status returned, `result` how the command
ended (while a destroy runs: `firstErr`).

- `StagePack*` is `stagePack`, with the skipped upload; `CreateEngine`,
  `UpdateEngine`, `UpdateFindsNothing`, `CreateFails`, `UpdateFails`, `BuildFails`,
  `CreateRefused` are the outcomes of `applyOneEngine`; `DeployFailed` is the loop's
  error path, which drops the agent's record; `RemoveEngine`, `RemoveFails`,
  `RemoveRefused` are `deleteRemoved`.
- `Probe`, `ProbeFails`, `NoClient` are the lookups; `engineChange`,
  `planEngineChanges`, `engineStatus`, `aggregateStatus` are the reports.
- `DestroyEngine`, `DestroyEngineFails`, `DestroyCallbackFails`, `FinishDestroy` are
  `Destroy` and `destroyOneEngine`.
- `Crash` and `OutOfBandDelete` are the environment.

Abstractions. A pack is its identity (and so its hash), its agents and its size; a
config is the part `planConfigFingerprint` covers, `Env` (which it does not), the
staging bucket, the inline limit (any integer: `inlineLimit` puts the default for zero
and less) and whether `buildEngine` accepts it. The server
never reuses a resource name; a name no record and no engine has is as good as new,
so `Fresh` reuses those. `Ids` doubles as the project's quota. An in-flight record is
one without a resource name; no code writes one, but initial states may hold one, as
written by another version. Failed calls may have taken effect. The API rejects the
empty name. Assumed of the CLI, which is not in this repository: it runs one command
at a time, persists the state an apply returns even with an error, keeps the old one
after a crash, and may drop it after a destroy that succeeded. Not modelled: the
agent card's patch, `ImageDigest`, versions, unknown fields, the dry run.

### DeployContract

What an operator can count on who sees the state the CLI keeps and the engines that
run, and nothing in between: a running command changes at most one engine at a time
(`Touch`: an apply deploys a wanted agent under its recorded name or a free one,
retires recorded engines of agents that left once the others serve, a destroy deletes
recorded engines), and each way a command ends (`ApplySucceeds`, `ApplyFails`,
`DestroySucceeds`, `Stops`) says what the new state is to the old one and to what runs.
Staging, the loops, lookups, `next` and the causes of failures are hidden. `Deploy`
implements it (`ImplementsContract`), mapping `running` to `pc # "idle"` and `result` to
"none" while a command runs.

### Labels, EngineSpec, ContainerConfig and Handoff

Both programs are pure between a config and an engine's environment, and between that
environment and a serving container, so both are operators with the names of the Go
functions; `EngineSpec` takes an input (deploy config, arena config, pack),
`ContainerConfig`'s `run` an environment. A label is a sequence of characters, since what
sanitizing does to characters is the point; binding names and agent names are numbers in
the order `sort.Strings` gives them; JSON is the value it encodes; everything else is a
model value. An environment is a function from the names of the variables to their
values, and every name appears twice, as it does in the code: once in `engine.go`'s
constants, once in the runtime's.

`Handoff` adds what makes the composition interesting: the input changes between
applies, an apply stops after any agent, so that engines of two inputs run side by side,
and a container starts at any time, on a host that injects the platform's names or on
one that does not. `Apply` is guarded by everything the adapter refuses
(`ApplyAccepts`: `gatherApplyInput`, `stagePack`, `buildEngine`) and by what the API
refuses according to the code's own comments (`ServiceTakes`): the platform's names
(`engine.go:13`) and more labels than a resource may have (`labels.go:9`), which
validation counts without the three managed ones. A pack's `typed` says whether it
decodes in full, which the agent cards need, or only as far as the narrow view goes that
a plan reads. What happens to the
engine's name and to the state is `Deploy`'s subject and is left out here, and so is the
difference between a refused and a failed call.

Left out of the spec: description, service account, resource limits, instance counts
(validated, then copied), the content of the agent card; of a tool's spec everything but the mode, the
URL and whether the container's types fit it. That the pack in the environment can be
fetched and parsed is `Runtime`'s `ResolvePack`.

A Go function that returns a value and whether there is one (`primaryBinding`,
`buildSDKOptions`) returns a set of at most one element; a start-up that returns an
error is a container whose `serving` is false. `WellFormed` is what decoding makes sure
of: `project` and `location` are strings, labels are strings of characters that
`strings.ToLower` is defined on, lists are lists. `LabelAssumption` says that the
adapter's own label keys and value are labels.

### Stream and StreamContract

One request. `writer` is the handler (`newStreamHandler`, `writeStream`), `turn` the
goroutine (`newStreamFunc`, `streamTurn`); `Send` is the rendezvous on the unbuffered
channel `out`, `errs` the error channel's one place; `CloseErrs` and `CloseOut` are
the deferred calls in the order Go runs them. The conversation's stream belongs to
the SDK: it yields up to `MaxChunks` texts, an error at any time, or ends. `net/http`
cancels the context after the connection is lost or the handler has returned.
`StreamContract` is what the caller may rely on: a status before any line, the texts
in order, and an end that means completion, or a told failure. For "completion" to mean
something the contract has the turn's `produced` texts and its `outcome`: `Finish` needs
a turn that ended well with every text in the body, `Fail` one that failed, with every
text in the body of a caller who is still there. `Stream` has both under the same names,
`outcome` being what `streamTurn` returned.

### SessionStore

Each request serves one turn: `Load`, then `AppendMessages` or `Save` (the SDK may
call `Save` again), or it forks a session. One action is one API request:
`GetSession`, `CreateSession`, `WaitForSession`, `AppendEvent`. A message is
identified by its request and its position in the turn; a role is `user`,
`assistant` or `tool`, which the session cannot carry (a message without text
cannot be carried either and counts as such). `loadMessages` is the loop of
`Filter`'s `Only` over the events. `Foreign` is an event somebody else
wrote, whose author has no role. Listing is atomic, which is sound as events only
grow. `AlreadyExists` means the session exists.

### Runtime

`stage` is the point `run` has reached; `Fail(point)` is any `return err`, through the
deferred flush. `opts` is the length and capacity of the option slice every request
shares and `spare` what lies in its spare capacity, so that `withSession`'s `append`
either copies or writes in place, as Go's does. A signal outside `runServer` kills
the process; inside it starts the drain. Turns may take for ever. A request in
`Streaming` is two goroutines (`Stream` has them in detail), and its handler may leave
when a write fails (`Abandon`) while its turn goes on, "abandoned", until `TurnEnds`.
`Shutdown` waits for connections with a request being served (`Active`), so not for such
a turn.

## Runs

| Run | Expect | Question |
|---|---|---|
| `deploy_faults` | pass | any commands with any two faults: eleven safety and action properties |
| `deploy_converges` | pass | re-applying and destroying converge; a successful destroy destroyed; `DeployContract` is implemented |
| `handoff` | pass | validation, plan and apply agree; containers start and run what was written; labels are kept |
| `warned_primary` | violation | `WarnedPrimaryIsUsed` |
| `failed_update_orphans` | violation | `ReturnedApplyOrphansNothing` |
| `interrupted_create` | violation | `InterruptedCreateRecorded` |
| `partial_apply_up_to_date` | violation | `UpToDateIsCurrent` |
| `destroy_callback` | violation | `DestroyedMeansGone`, when the callback may fail |
| `stream` | pass | outcome told, contract refined, goroutines end |
| `session_store` | pass | three concurrent requests, two sessions, one failing call |
| `save_appends` | violation | `SaveAppendsWhatIsMissing` |
| `runtime` | pass | process and requests, from start-up to exit |

Bounds and why they are enough.

- *Deploy*: two agents (the loops' order and a failure before, at and after an agent
  need two), one pack with both and one with the second alone (an agent retires,
  comes back, and stays), one pack inline and one staged, a config without a bucket
  and one that cannot be built, packs at the inline limit and over it, also when
  the limit is zero and so the default; four names: two recorded, and two for orphans or
  recreations, after which creation is refused. Two faults in `deploy_faults`, so that
  one can hit the recovery from the other, one in `deploy_converges`, whose liveness
  graph is larger per state. Names are symmetric except in the run with liveness.
- *Stream*: four texts; the state machine does not depend on how many, and the
  theorems hold for every number.
- *SessionStore*: three requests (a reader, and two writers who race), two sessions (a
  source and a fork), three calls in all, one failure; the two requests with equal
  turns are symmetric.
- *Runtime*: three requests, two with different sessions and one without, and one of them
  streaming; fifteen environments, one for each way a stage ends.
- *Handoff*: the initial input is a good one with one aspect varied, and every pair
  of values within the aspect: all lists of two bindings out of eighteen, ill-formed
  ones among them; all label keys of up to four characters and all pairs of short ones
  with a label length of three, so that cutting, the added letter and collisions meet,
  and sets of three and six labels with at most five on a resource, so that validation's
  count and the service's differ; an inline tool of every mode with every pair of eight
  manifests; operator variables with every tracing section; packs with and without
  members, entry, id, that decode in full or not, of both sizes and with both the given
  and the default inline limit. The aspects do not read each other's fields,
  but for tracing with variables and size with bucket, which are varied together. One
  edit, to an input that differs in every aspect, is enough for engines of two inputs.
- *warned_primary*: lists of two llm bindings in every order of the names.

Fairness. `Handoff` has none: all its properties are safety. `Deploy`: a started process takes its next step or dies, and the operator
goes on issuing commands; faults are never fair, and `MaxFaults` bounds them, so
convergence means "once faults stop". That a command's remote calls and the waits for
their operations return is assumed, not shown: `client_real.go` gives `op.Wait` no
deadline (80, 126, 171), and an operation that never completes holds its command. `Stream`: the Go scheduler runs both
goroutines, the SDK's stream yields something or ends (it is bounded by its own
timeouts), `net/http` cancels when it has to; nobody hangs up of necessity.
`Runtime`: `run` goes on while it can and the clock runs; no turn has to end.

`CHECK_DEADLOCK FALSE` is used where the modelled thing ends: a request, a set of
requests that made their calls, a process.

## Findings

The six violation runs are disagreements between code and its own text; each is
quoted in `PROJECT.json`.

1. A failed *update* drops the record of an engine that is still there
   (`apply.go:132`); the next apply creates a second one. The same line orphans an
   engine without any failing call when a redeploy's config makes `buildEngine` refuse
   the agent (`apply.go:154-157`): `OrphansNeedTrouble` has it as the one exception
   (`Refused`).
2. No code records an in-flight engine; an interrupted create is orphaned.
3. A partial apply stores the new hashes; the next plan calls agents up to date that
   run the old pack. (Apply itself updates regardless, so re-applying heals it:
   `ReapplyingConverges`.)
4. `Destroy` returns `errors.Unwrap` of a two-`%w` error, which is nil: a failing
   callback is a success (`lifecycle.go:92`).
5. `Save` counts instead of comparing: a tool result in the turn makes it append the
   last message again, and two requests in one session can make it drop a turn.
6. The warning about a missing "default" binding names the llm binding whose name sorts
   first (`bindings.go:128`); plan, apply and the container use the first of the list.
   `bindings.go:106` and the repository's `README.md:62` say the warning names the one that will be used.

Met while modelling and not run: `plan` does look up engines although
`resource-lifecycle.md:18` says it performs no GCP calls; a plan lists a
`pack_object` creation also when apply skips the upload; `Config.Env` reaches the
engine but not the fingerprint; an in-flight record of a retired agent makes every
apply fail at `DeleteEngine("")`; `applyEngines` starts from `newState()`, so unknown
fields and `image_digest` of the prior state are not carried over, although
`state.go:26` preserves them over a parse and marshal. Sixty-four labels of the
operator are valid, and with the three managed ones exceed the limit of 64 that
`labels.go:11` quotes: the service refuses each engine, after the pack was staged
(`PlannedIsDeployable` names it as a cause, for any 62 or more). Agents whose names sanitize equally get the same
`promptkit-agent` label, by which `labels.go:17` wants to find them again. `gatherApplyInput` performs
"the same validation as Plan" (`apply.go:25`) but for the llm binding, the pack's id
and the agent cards, for which the whole pack has to decode and not only the part a plan
reads (`agentcard.go:21`), and neither looks
at reserved variables or labels, which are refused when the first engine is built, after
the pack was staged. One malformed tool file "should not block the agent"
(`arena.go:106`), but a manifest that is YAML and does not fit the container's types goes
through the adapter and stops every container (`ContainersStart` names it as the one
cause). A streaming turn
whose handler left on a failed write (`handlers.go:133`) can still be running when the
drain finds no connection and the exporter is shut down (`main.go:52`), so its spans are
lost; `FlushedAfterTheTurns` excepts it. `vertex_endpoint` is accepted and handed over, and the container ignores it.
A dry run has a fresh in-memory control plane in every command, so its status and
destroy know no engine.

## Proofs

TLAPS proves the following for every value of the constants that satisfies the named
assumptions (`ConstantsAssumption` and `SentinelsAssumption`: the types of the
parameters and that the sentinel values are distinct from the data; `StreamAssumption`;
`RuntimeAssumption`; `SessionAssumption`; `LabelAssumption` and `HandoffAssumption`:
hosts only inject the platform's names, the adapter's own names have the reserved
prefix, and inputs are decoded ones). No fact is assumed beside them, but that
`AdapterKeepsContract` and `DestroysAreComplete` exclude failing callbacks, because of
finding 4.

### Deploy

- `DeployProofs`. `TypeCorrect`. `ControlCorrect`: where a command stands and how `next`
  differs from `stored`; the other proofs rest on it. `Ownership`: `RecordsOwnEngines`
  is not inductive, because an apply holds two states: a record of `next` and one of
  `stored` may name one engine, and must do so for the same agent (`NamesApart`).
  `StagedPacksArePresent`: the strengthening `Staging` says that the state under
  construction points at a pack that is present and, while engines are being built
  from it, is the requested one. `NoUnprovokedOrphans`: `Tracking` says that `next`
  forgets a recorded engine only once that engine is gone, and that a destroy without
  an error so far has deleted all it visited. The exception the theorem names, `Refused`,
  is the engine of the agent at hand when its spec cannot be built.
- `DeployProgressProofs`. `ApplyDelivers`: with `Progress`, every agent an apply has
  visited is deployed under the name `next` records, which updates and deletes of
  other agents cannot disturb because of `Ownership`; so an apply that reports
  success has deployed the pack. `OnlyRetiredAreDeleted` and `PartialApplyIsKept`
  follow from the same invariant, `NamesAreStable` from `Tracking`.
- `DeployContractProofs`. `AdapterKeepsContract`: every step of `Deploy` is a step of
  `DeployContract` or changes nothing an operator sees. One lemma per kind of step
  (deploying, retiring, destroying, the ways of ending) maps it; they rest on the
  invariants above and on `Bookkeeping`, that the records of agents outside the pack
  are the stored ones or gone. `AbsenceIsEvidence` and `DeployedWasSeen` follow from
  `Sightings`: what a lookup saw stays true until the command ends, as nothing creates
  engines meanwhile and a deletion by hand leaves a mark. `DestroyIsThorough` follows
  from where the destroy's loop can stop, and `DestroysAreComplete` from `Tracking`:
  when no callback fails, a destroy ends well only in `FinishDestroy`, with nothing left
  to visit and no error so far.

### From the config to the container

- `FilterProofs`. What `Only` does to the empty sequence and to one with an element more,
  and from it that its elements are the kept ones, and that it keeps prefixes. `Only` is
  a recursive function, which exists because the naturals are well-founded; as a
  theorem cannot take an operator as a parameter here, induction (`Induction`,
  `SequenceInduction`) is stated of sets: a set of sequences that holds the empty one
  and, with a sequence, all its extensions by one element holds them all. `LeastIsMin`
  and `GreatestIsMax` say that the extremes of a finite set of numbers exist.
- `HandoffProofs`. The one inductive invariant is `Provenance`: each engine was built
  whole from one applied input and each container started from such an engine's
  environment and one host, through edits and half applies. The rest is calculation.
  `BuiltEnvironment` works out the merging order of `buildEngineEnv`, `LoadedConfig` the
  fallbacks of `loadConfig`, where the reserved prefix and the platform's names keep the
  three writers apart; that gives `EnvironmentsApart`. `Configured` adds the pack, the
  bindings and the tools a container finds, which gives `AppliedContainersStart`: of the
  reasons a container has to stop, only a tool that does not decode is left.
  `PrimariesAgree` compares how the two programs choose among the bindings, though one
  sees roles the other has filled in (`ServesTheRightAgent`). `FirstManifestCounts` is
  about the first manifest of a name (`DeclaredToolsRun`). `SanitizedText` and
  `SanitizedKey` follow any string through lower-casing, replacing, trimming, cutting and
  the added letter, and end in text the service takes (`LabelsHold`, which needs of
  validation that no two keys become one and none becomes empty, and of the service that
  it refuses too many labels). `PlansAreDeployable` is what the checks of three commands
  amount to; that labels validation counts leave room with three fewer is
  `ThreeManagedLabels`, where user keys may fall onto managed ones. `WellFormed` asks for
  finitely many labels.

### Sessions

- `SessionStoreProofs`. `Books` and `Counted` (a request that writes has counted a call,
  one that has not begun has not) give `FailuresAreTheAPIs` and `SessionsComeFromWrites`.
  `TypeCorrect` needs what `Only` returns. The other proofs are about the steps of one
  request seen by the others, so `Steps` first sorts the actions by effect (`Moves`:
  opening, refusing, calling, asking, storing, returning), of which only one adds an
  event, to one session, at its end (`StoreGrows`). `Turns` says that what an append or a
  save has yet to write is the end of its own turn, and that the state the SDK hands to
  `Save` is a conversation no longer than the one the session replays now, and the turn;
  `Authors` and `ForkSpeaks` whose messages a session can hold.
  - `AppendsAreRemembered`: `Acked`, that the messages an append no longer has to write
    are in the session, and stay there.
  - `AppendsAreKept`: `AppendKept`, that the request's own messages in the session are
    exactly those it no longer has to write. It has to speak of the turn's first k
    messages and of the rest at once, as neither alone survives a step.
  - `ForksAreCopies`: `ForkKept`, that what a fork has stored and what it has yet to store
    together begin the source's conversation, which can only have grown since.
  - `SavesRepeatNothing`: `SaveKept`. That no message is there twice does not survive
    another writer's step; what does is a count: the session's messages and the rest to
    write are at least as many as the saved state has, so a later save of it drops at
    least what is there already.

### The container's process

- `StreamProofs`. The inductive invariant `IInv` accounts for every text: what was
  produced is what the handler took, but for the one on offer and the one a
  cancelled turn gave up (`Accounted`), and says where the two goroutines can be at
  once (`Control`, `Flags`). From it `OutcomeTold`, and `ImplementsContract`: each
  step of `Stream` is a step of `StreamContract` or leaves what the caller sees alone.
- `RuntimeProofs`. `TypeCorrect` with `SliceIsFull`: start-up leaves no spare capacity,
  so `append` copies, which gives `SessionsApart`. `Leaving` ties the way `run` ends to
  the timer and the server error, which gives `TurnsDrain`, `NoSpanLeftBehind` and
  `ExporterOutlivesTurns`: at a flush within the window every turn is over but those of
  streaming requests whose handler left.

So every invariant and every action property of a passing run is a theorem. Only
model-checked are the liveness properties (`ReapplyingConverges`, `DestroyingConverges`, `GoroutinesEnd`, `SignalStops`, and the fair part of
`HonoursContract`), which need ENABLED and fairness and are out of the prover's reach,
and the six violations, which are counterexamples. The bounds on calls, edits and
faults are the runs' only: the theorems hold for any number.

## Not modelled, and why

The dry-run client, the content of agent cards, endpoints, diagnostics and the schema
hold no state that outlives a command and decide nothing the properties speak of. What a tool executor
does with a call is data the SDK runs. The CLI and its JSON-RPC, the SDK's conversations,
OpenTelemetry and Google's APIs are external and appear by how the code uses them.
Concurrent commands of two operators are outside: the adapter has no lock and promises
nothing about them. A staged object that somebody deletes is outside too: nothing says
what should happen, and the skipped upload of `staging.go:59` will not restore it.

## Plan

1. (done) `Deploy` with its faults, liveness and first proofs; `Stream` with its
   contract; `SessionStore`; `Runtime`.
2. (done) The pure parts and their composition over the environment (`Labels`,
   `EngineSpec`, `ContainerConfig`, `Handoff`); the abstract deployment
   (`DeployContract`) and the proof that `Deploy` implements it; the reports of plan and
   status; what can be proved of `SessionStore`.
3. (done) Filtering as a function that can be proved about (`Filter`), and with it the
   invariants and action properties of `SessionStore` and `Handoff` for any requests and
   inputs; that a destroy which reports success has destroyed.
4. (done) What the service refuses beside the adapter (`ServiceTakes`), packs that decode
   in part, default inline limits, streaming turns that outlive their handler, and a
   `StreamContract` whose end of the body means a complete turn.
5. Open: conditional forms of what the code breaks (a plan's "up to date" when no apply
   has failed since, a save when every message can be carried and nobody else writes);
   that sanitizing a sanitized label changes nothing; a bucket whose objects can be
   deleted; the unary endpoint beside the streaming one, with a caller who leaves; the
   dry run.

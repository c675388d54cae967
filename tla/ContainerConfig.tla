--------------------------- MODULE ContainerConfig ---------------------------
(***************************************************************************)
(* What a container (cmd/vertex-runtime) makes of the environment it is    *)
(* started in: the start-up of run, as a function.  env maps the names of  *)
(* the variables that are set to their values; JSON is the value it        *)
(* encodes.  A variable that is empty counts as one that is not set, and   *)
(* is left out of env.                                                     *)
(***************************************************************************)
EXTENDS Integers, Sequences, FiniteSets, FiniteSetsExt

CONSTANTS
    DefaultBindingName,
    None

envPackJSON == "PROMPTPACK_PACK_JSON"
envPackURI == "PROMPTPACK_PACK_URI"
envAgentName == "PROMPTPACK_AGENT"
envProviders == "PROMPTPACK_PROVIDERS"
envProject == "PROMPTPACK_PROJECT"
envLocation == "PROMPTPACK_LOCATION"
envTracingEnabled == "PROMPTPACK_TRACING_ENABLED"
envToolSpecs == "PROMPTPACK_TOOL_SPECS"
envOTLPEndpoint == "OTEL_EXPORTER_OTLP_ENDPOINT"
envProjectFallback == "GOOGLE_CLOUD_PROJECT"
envLocationFallback == "GOOGLE_CLOUD_LOCATION"
envEngineID == "GOOGLE_CLOUD_AGENT_ENGINE_ID"
envEngineLocation == "GOOGLE_CLOUD_AGENT_ENGINE_LOCATION"

\* The first of the names that is set.
firstEnv(env, names) ==
    LET set == {n \in DOMAIN names : names[n] \in DOMAIN env}
    IN  IF set = {} THEN None ELSE env[names[Min(set)]]

\* The list a variable encodes; one that is not set is an empty one.
Listed(env, name) == IF name \in DOMAIN env THEN env[name] ELSE <<>>

\* loadConfig wants a pack source, and a truth value where it reads one.
loadable(env) ==
    /\ {envPackJSON, envPackURI} \cap DOMAIN env # {}
    /\ firstEnv(env, <<envTracingEnabled>>) \in {None, "true", "false"}

\* A bug: the platform's names are read first.
loadConfigPlatformFirst(env) ==
    [pack |-> IF envPackJSON \in DOMAIN env THEN env[envPackJSON] ELSE env[envPackURI].pack,
     agent |-> firstEnv(env, <<envAgentName>>),
     bindings |-> Listed(env, envProviders),
     project |-> firstEnv(env, <<envProjectFallback, envProject>>),
     location |-> firstEnv(env, <<envEngineLocation, envLocationFallback, envLocation>>),
     engineID |-> firstEnv(env, <<envEngineID>>),
     endpoint |-> firstEnv(env, <<envOTLPEndpoint>>),
     tracing |-> firstEnv(env, <<envTracingEnabled>>) = "true",
     toolSpecs |-> Listed(env, envToolSpecs)]

\* loadConfig and resolvePackFile: an inline pack before a staged one.
loadConfig(env) ==
    [pack |-> IF envPackJSON \in DOMAIN env THEN env[envPackJSON] ELSE env[envPackURI].pack,
     agent |-> firstEnv(env, <<envAgentName>>),
     bindings |-> Listed(env, envProviders),
     project |-> firstEnv(env, <<envProject, envProjectFallback>>),
     location |-> firstEnv(env, <<envLocation, envEngineLocation, envLocationFallback>>),
     engineID |-> firstEnv(env, <<envEngineID>>),
     endpoint |-> firstEnv(env, <<envOTLPEndpoint>>),
     tracing |-> firstEnv(env, <<envTracingEnabled>>) = "true",
     toolSpecs |-> Listed(env, envToolSpecs)]

\* A bug: the entry of the pack comes first.
resolveAgentNameEntryFirst(cfg) ==
    IF cfg.pack.members # {} /\ cfg.pack.entry # None THEN cfg.pack.entry
    ELSE cfg.agent

\* The variable, else the entry of the pack, else its only prompt.
resolveAgentName(cfg) ==
    IF cfg.agent # None THEN cfg.agent
    ELSE IF cfg.pack.entry # None THEN cfg.pack.entry
    ELSE IF Cardinality(cfg.pack.prompts) = 1 THEN CHOOSE a \in cfg.pack.prompts : TRUE
    ELSE None

\* A bug: the list's last llm binding is taken.
primaryBindingLast(bindings) ==
    LET llm == {n \in DOMAIN bindings : bindings[n].role \in {"", "llm"}}
        default == {n \in llm : bindings[n].name = DefaultBindingName}
        candidates == IF default # {} THEN default ELSE llm
    IN  {bindings[n] : n \in {m \in candidates : \A o \in candidates : m >= o}}

\* The binding that supplies the model, if there is one: a set of at most one.
primaryBinding(bindings) ==
    LET llm == {n \in DOMAIN bindings : bindings[n].role \in {"", "llm"}}
        default == {n \in llm : bindings[n].name = DefaultBindingName}
        candidates == IF default # {} THEN default ELSE llm
    IN  {bindings[n] : n \in {m \in candidates : \A o \in candidates : m <= o}}

\* buildSDKOptions: the model the conversations use; none leaves it to the pack.
buildSDKOptions(cfg) ==
    {[type |-> primary.type, model |-> primary.model,
      project |-> cfg.project, location |-> cfg.location] : primary \in primaryBinding(cfg.bindings)}

\* It is an error to have a binding and nowhere to call its model.
Reachable(cfg) ==
    primaryBinding(cfg.bindings) # {} => None \notin {cfg.project, cfg.location}

\* setupTracing: the endpoint spans go to, None when tracing stays off.
setupTracing(cfg) == IF cfg.tracing THEN cfg.endpoint ELSE None

\* parseToolSpecs decodes every spec, or fails.
parseToolSpecs(cfg) == \A t \in DOMAIN cfg.toolSpecs : cfg.toolSpecs[t].decodes

\* registerToolExecutors: a tool gets an executor in the modes there are.
Supported(spec) == spec.mode = "mock" \/ (spec.mode = "live" /\ spec.url # None)

registerToolExecutors(specs) ==
    [t \in {u \in DOMAIN specs : Supported(specs[u])} |-> specs[t]]

\* engineName: what sessions hang from.
engineName(cfg) ==
    IF None \in {cfg.engineID, cfg.project, cfg.location} THEN None
    ELSE <<cfg.project, cfg.location, cfg.engineID>>

\* Whether run gets to where it serves.
Starts(env) ==
    /\ loadable(env)
    /\ LET cfg == loadConfig(env) IN
        /\ resolveAgentName(cfg) # None
        /\ Reachable(cfg)
        /\ parseToolSpecs(cfg)

\* run, up to where it serves or returns an error.
run(env) ==
    LET cfg == loadConfig(env) IN
    IF ~Starts(env) THEN [serving |-> FALSE]
    ELSE [serving |-> TRUE, agent |-> resolveAgentName(cfg), llm |-> buildSDKOptions(cfg),
          tracing |-> setupTracing(cfg), tools |-> registerToolExecutors(cfg.toolSpecs),
          engine |-> engineName(cfg)]
=============================================================================

------------------------------ MODULE EngineSpec ------------------------------
(***************************************************************************)
(* What the adapter (internal/vertex) makes of a pack, a deploy config and *)
(* an arena config: what each command accepts, and the environment and     *)
(* labels of the engine of each agent.  Everything here is pure: a command *)
(* that refuses its input has changed nothing.                             *)
(*                                                                         *)
(* An input i has i.config, i.arena (None when the CLI sends none) and     *)
(* i.pack.  JSON travels as the value it encodes.                          *)
(***************************************************************************)
EXTENDS Labels

CONSTANTS
    Agents,              \* agent names; numbers, for the order sort.Strings gives them
    NameOf,              \* their characters
    DefaultBindingName,  \* binding names are numbers too, 0 is the empty name
    GCSBuckets,          \* bucket settings with the gs:// scheme
    URLs,                \* endpoints with an http:// or https:// scheme
    ReservedNames,       \* variable names with the PROMPTPACK_ prefix
    DefaultPackInlineLimitBytes,  \* the inline limit of a config that sets none
    None

(***************************************************************************)
(* config.go.  No observability section is one with tracing off and no     *)
(* endpoint.                                                               *)
(***************************************************************************)
validateObservability(c) ==
    /\ c.tracing => c.endpoint # ""
    /\ c.endpoint # "" => c.endpoint \in URLs

\* Only "prebuilt" is implemented, and it is the default.
validateImageMode(c) == c.imageMode \in {"", "prebuilt"} /\ c.image # ""

validateScaling(c) ==
    /\ c.min # None => c.min >= 0
    /\ c.max # None => c.max >= 1
    /\ c.min # None /\ c.max # None => c.min <= c.max
    /\ c.concurrency # None => c.concurrency >= 1

validateStructure(c) ==
    /\ c.project # "" /\ c.location # ""
    /\ validateImageMode(c)
    /\ c.bucket \in GCSBuckets \cup {""}
    /\ validateObservability(c)
    /\ validateScaling(c)
-----------------------------------------------------------------------------
(***************************************************************************)
(* Provider bindings (bindings.go, resolve.go).                            *)
(***************************************************************************)
RoleLLM == "llm"
validRoles == {RoleLLM, "embedding", "tts", "stt", "image", "inference"}

usesArena(b) == b.arena # None
usesInline(b) == b.type # "" \/ b.model # ""

\* Exactly one source, and an inline one complete.
validateBindingSource(b) ==
    /\ usesArena(b) # usesInline(b)
    /\ usesInline(b) => b.type # "" /\ b.model # ""

validateBindings(bs) ==
    /\ bs # <<>>
    /\ \A n \in DOMAIN bs :
        /\ bs[n].name # 0
        /\ \A m \in DOMAIN bs : bs[m].name = bs[n].name => m = n
        /\ bs[n].role \in validRoles \cup {""}
        /\ validateBindingSource(bs[n])

\* The name the warning gives for the primary provider: none when some binding is
\* named "default", else the first in the order of the names.
bindingWarnings(bs) ==
    LET llm == {n \in DOMAIN bs : bs[n].role \in {"", RoleLLM}}
        default == {n \in DOMAIN bs : bs[n].name = DefaultBindingName}
    IN  IF default # {} \/ llm = {} THEN None ELSE Min({bs[n].name : n \in llm})

\* A provider the arena config defines, loaded ones before specs.
provider(arena, id) ==
    IF arena = None THEN None
    ELSE IF id \in DOMAIN arena.loaded THEN arena.loaded[id]
    ELSE IF id \in DOMAIN arena.specs THEN arena.specs[id]
    ELSE None

Resolvable(i) ==
    \A n \in DOMAIN i.config.providers :
        LET b == i.config.providers[n] IN usesArena(b) => provider(i.arena, b.arena) # None

\* A bug: the empty role is passed on.
resolveBindingsRoleless(i) ==
    [n \in DOMAIN i.config.providers |->
        LET b == i.config.providers[n]
            source == IF usesArena(b) THEN provider(i.arena, b.arena) ELSE b
        IN  [name |-> b.name, role |-> b.role, type |-> source.type, model |-> source.model]]

\* Concrete type and model for every binding, in the order of the list.
resolveBindings(i) ==
    [n \in DOMAIN i.config.providers |->
        LET b == i.config.providers[n]
            source == IF usesArena(b) THEN provider(i.arena, b.arena) ELSE b
        IN  [name |-> b.name, role |-> IF b.role = "" THEN RoleLLM ELSE b.role,
             type |-> source.type, model |-> source.model]]

\* The binding that supplies the model, if there is one: a set of at most one.
primaryBinding(resolved) ==
    LET llm == {n \in DOMAIN resolved : resolved[n].role = RoleLLM}
        default == {n \in llm : resolved[n].name = DefaultBindingName}
        candidates == IF default # {} THEN default ELSE llm
    IN  {resolved[n] : n \in {m \in candidates : \A o \in candidates : m <= o}}
-----------------------------------------------------------------------------
(***************************************************************************)
(* Tools (arena.go): declared inline under tool_specs, or in manifests the *)
(* CLI read from files, in the order it lists them.                        *)
(***************************************************************************)

\* parseToolManifest: spec.name, else metadata.name; None when it does not parse,
\* names no tool or has no spec.
manifestName(m) ==
    IF ~m.parses \/ m.spec = None THEN None
    ELSE IF m.specName # None THEN m.specName ELSE m.metaName

\* A bug: a later manifest replaces an earlier one.
mergeLoadedToolsLast(manifests) ==
    [t \in {manifestName(manifests[n]) : n \in DOMAIN manifests} \ {None} |->
        manifests[Max({n \in DOMAIN manifests : manifestName(manifests[n]) = t})].spec]

\* The tools of the manifests: the first one that names a tool defines it.
mergeLoadedTools(manifests) ==
    [t \in {manifestName(manifests[n]) : n \in DOMAIN manifests} \ {None} |->
        manifests[Min({n \in DOMAIN manifests : manifestName(manifests[n]) = t})].spec]

\* Inline tools win over manifests.
encodeToolSpecs(arena) ==
    IF arena = None THEN <<>> ELSE Over(arena.tools, mergeLoadedTools(arena.manifests))
-----------------------------------------------------------------------------
(***************************************************************************)
(* The pack (pack.go) and the environment of an engine (engine.go).        *)
(***************************************************************************)
enumerateAgents(pack) == IF pack.members # {} THEN pack.members ELSE pack.prompts

\* A limit of zero, or less, is no limit of its own.
inlineLimit(c) == IF c.limit > 0 THEN c.limit ELSE DefaultPackInlineLimitBytes

decidePackDelivery(i) == i.pack.size <= inlineLimit(i.config)

stagedPackURI(i) == [bucket |-> i.config.bucket, pack |-> i.pack]

\* A bug: the tools have a name of their own here.
envToolSpecsRenamed == "PROMPTPACK_TOOLS"

envPackJSON == "PROMPTPACK_PACK_JSON"
envPackURI == "PROMPTPACK_PACK_URI"
envAgentName == "PROMPTPACK_AGENT"
envProviders == "PROMPTPACK_PROVIDERS"
envProject == "PROMPTPACK_PROJECT"
envLocation == "PROMPTPACK_LOCATION"
envTracingEnabled == "PROMPTPACK_TRACING_ENABLED"
envToolSpecs == "PROMPTPACK_TOOL_SPECS"
envOTLPEndpoint == "OTEL_EXPORTER_OTLP_ENDPOINT"

packEnv(i) ==
    IF decidePackDelivery(i) THEN [v \in {envPackJSON} |-> i.pack]
    ELSE [v \in {envPackURI} |-> stagedPackURI(i)]

tracingEnv(i) ==
    IF ~i.config.tracing THEN <<>>
    ELSE [v \in {envTracingEnabled, envOTLPEndpoint} |->
            IF v = envTracingEnabled THEN "true" ELSE i.config.endpoint]

toolsEnv(i) ==
    LET specs == encodeToolSpecs(i.arena)
    IN  IF DOMAIN specs = {} THEN <<>> ELSE [v \in {envToolSpecs} |-> specs]

agentEnv(i, agentName) ==
    [v \in {envAgentName, envProviders, envProject, envLocation} |->
        CASE v = envAgentName -> agentName
          [] v = envProviders -> resolveBindings(i)
          [] v = envProject -> i.config.project
          [] v = envLocation -> i.config.location]

\* A bug: the operator's variables are put in last.
buildEngineEnvOperatorLast(i, agentName) ==
    Over(i.config.env,
         Over(tracingEnv(i), Over(packEnv(i), Over(toolsEnv(i), agentEnv(i, agentName)))))

\* The operator's variables are put in after what names the agent and its tools,
\* before tracing and the pack.
buildEngineEnv(i, agentName) ==
    Over(packEnv(i),
         Over(tracingEnv(i), Over(i.config.env, Over(toolsEnv(i), agentEnv(i, agentName)))))

\* The engine agentName is to be; "from" is kept for the properties.
buildEngine(i, agentName) ==
    [from |-> i, env |-> buildEngineEnv(i, agentName),
     labels |-> buildLabels(i.config.labels, i.pack.id, NameOf[agentName])]
-----------------------------------------------------------------------------
(***************************************************************************)
(* What the commands accept.                                               *)
(***************************************************************************)

\* A bug: the labels are left to the apply.
ValidateConfigNoLabels(i) ==
    validateStructure(i.config) /\ validateBindings(i.config.providers)

ValidateConfig(i) ==
    /\ validateStructure(i.config)
    /\ validateBindings(i.config.providers)
    /\ validateLabels(i.config.labels)

Plan(i) ==
    /\ validateStructure(i.config)
    /\ Resolvable(i)
    /\ primaryBinding(resolveBindings(i)) # {}
    /\ enumerateAgents(i.pack) # {}
    /\ decidePackDelivery(i) \/ i.config.bucket # ""

\* The agent cards are made from the pack as PromptKit types it; everything else
\* here, and the whole plan, reads only the few fields of pack.go.
buildAgentCards(pack) == pack.typed

gatherApplyInput(i) ==
    /\ validateStructure(i.config)
    /\ Resolvable(i)
    /\ enumerateAgents(i.pack) # {}
    /\ i.pack.id # None
    /\ buildAgentCards(i.pack)

\* A bug: any name may be set.
BuildableUnreserved(i) == validateLabels(i.config.labels)

\* What buildEngineEnv and buildLabels refuse, once the pack is staged.
Buildable(i) ==
    /\ DOMAIN i.config.env \cap ReservedNames = {}
    /\ validateLabels(i.config.labels)

\* An apply that is refused nowhere: not before the pack is staged, not there, not
\* when the first engine is built.
ApplyAccepts(i) ==
    /\ gatherApplyInput(i)
    /\ decidePackDelivery(i) \/ i.config.bucket # ""
    /\ Buildable(i)
=============================================================================

------------------------------- MODULE Handoff -------------------------------
(***************************************************************************)
(* From a deploy config to a running container.  The operator edits the    *)
(* input and applies it; the apply gives engines their environment; the    *)
(* platform starts containers in it, at any time, on any host, also long   *)
(* after the input was edited again and while an apply that stopped half   *)
(* way has left engines of two inputs.  The two programs share no code:    *)
(* what one writes is what the other must read.                            *)
(*                                                                         *)
(* How an apply fails, and what becomes of the engines, is the subject of  *)
(* Deploy; this module is about what they are told.                        *)
(***************************************************************************)
EXTENDS EngineSpec

CONSTANTS
    Inputs,       \* the inputs the operator starts with
    EditedInputs, \* the inputs the operator may change to
    MaxEdits,     \* and how often
    Hosts         \* what a platform adds to the environment of a container

Container == INSTANCE ContainerConfig

\* The names the platform injects; a create or an update that sets one is refused.
PlatformNames == {"GOOGLE_CLOUD_PROJECT", "GOOGLE_CLOUD_LOCATION",
                  "GOOGLE_CLOUD_AGENT_ENGINE_ID", "GOOGLE_CLOUD_AGENT_ENGINE_LOCATION"}

\* What the control plane accepts of an engine that the adapter does not look at:
\* none of its own names is set, and the labels, the managed ones included, are not
\* more than a resource may have.
ServiceTakes(i) ==
    /\ DOMAIN i.config.env \cap PlatformNames = {}
    /\ \A a \in enumerateAgents(i.pack) :
        IsLabelSet(buildLabels(i.config.labels, i.pack.id, NameOf[a]))

\* An input as it is decoded: texts are strings, lists are lists.
WellFormed(i) ==
    /\ None \notin {i.config.project, i.config.location}
    /\ i.pack.id # None => i.pack.id \in Seq(DOMAIN Lower)
    /\ IsFiniteSet(DOMAIN i.config.labels)
    /\ \A k \in DOMAIN i.config.labels :
        k \in Seq(DOMAIN Lower) /\ i.config.labels[k] \in Seq(DOMAIN Lower)
    /\ i.arena # None => DOMAIN i.arena.manifests \subseteq Nat \ {0}

ASSUME HandoffAssumption ==
    /\ Agents \subseteq Int /\ None \notin Agents
    /\ NameOf \in [Agents -> Seq(DOMAIN Lower)]
    /\ \A i \in Inputs \cup EditedInputs : WellFormed(i)
    /\ MaxEdits \in Nat
    /\ \A host \in Hosts : DOMAIN host \subseteq PlatformNames
    /\ {envPackJSON, envPackURI, envAgentName, envProviders, envProject, envLocation,
        envTracingEnabled, envToolSpecs} \subseteq ReservedNames
    /\ None # "true"

VARIABLES
    input,     \* the pack, the deploy config and the arena config, as they are now
    engine,    \* what each agent's engine was last given, or None
    container, \* what its last container made of it, or None
    edits      \* edits so far

vars == <<input, engine, container, edits>>

Init ==
    /\ input \in Inputs
    /\ engine = [a \in Agents |-> None]
    /\ container = [a \in Agents |-> None]
    /\ edits = 0

Edit ==
    /\ edits < MaxEdits
    /\ edits' = edits + 1
    /\ input' \in EditedInputs
    /\ UNCHANGED <<engine, container>>

\* Agents get their engines in sorted order; the apply may stop after any of them,
\* and the agents that left the pack lose theirs once all are done.
Apply ==
    LET desired == enumerateAgents(input.pack) IN
    /\ ApplyAccepts(input) /\ ServiceTakes(input)
    /\ \E done \in SUBSET desired :
        /\ \A a \in done, b \in desired : b <= a => b \in done
        /\ engine' = [a \in Agents |->
                        IF a \in done THEN buildEngine(input, a)
                        ELSE IF done = desired THEN None ELSE engine[a]]
    /\ container' = [a \in Agents |-> IF engine'[a] = None THEN None ELSE container[a]]
    /\ UNCHANGED <<input, edits>>

\* A container of a's engine starts; "of" is kept for the properties.
Start(a) ==
    /\ engine[a] # None
    /\ \E host \in Hosts :
        container' = [container EXCEPT
                        ![a] = [of |-> engine[a].from,
                                got |-> Container!run(Over(engine[a].env, host))]]
    /\ UNCHANGED <<input, engine, edits>>

Next == Edit \/ Apply \/ \E a \in Agents : Start(a)

Spec == Init /\ [][Next]_vars
-----------------------------------------------------------------------------
(***************************************************************************)
(* Safety.                                                                 *)
(***************************************************************************)

\* A config that ValidateConfig finds valid and a plan accepts deploys, but for what
\* neither of them looks at: a pack without an id, or one that does not decode in
\* full; a variable of the operator under a reserved name, his or the platform's,
\* which is found out after the pack was staged; and, as validateLabels counts the
\* operator's labels alone, more of them than the managed ones leave room for.
PlannedIsDeployable ==
    ValidateConfig(input) /\ Plan(input) =>
        \/ ApplyAccepts(input) /\ ServiceTakes(input)
        \/ input.pack.id = None \/ ~input.pack.typed
        \/ DOMAIN input.config.env \cap (ReservedNames \cup PlatformNames) # {}
        \/ Cardinality(DOMAIN input.config.labels) + 3 > maxLabelCount

Running(a) == container[a] # None /\ container[a].got.serving

\* Whatever an apply accepted starts, on every host: the only input the adapter lets
\* through and the container refuses is a tool that does not decode.
ContainersStart ==
    \A a \in Agents : container[a] # None /\ ~container[a].got.serving =>
        LET specs == encodeToolSpecs(container[a].of.arena)
        IN  \E t \in DOMAIN specs : ~specs[t].decodes

IsLLM(b) == b.role \in {"", RoleLLM}

\* The binding documented as the primary: an llm binding named "default", or with
\* none so named the first llm binding of the list.
IsPrimary(bs, n) ==
    /\ IsLLM(bs[n])
    /\ \A m \in DOMAIN bs : IsLLM(bs[m]) =>
        IF bs[n].name = DefaultBindingName
        THEN bs[m].name = DefaultBindingName => n <= m
        ELSE bs[m].name # DefaultBindingName /\ n <= m

\* The type and model the operator gave binding b, himself or through the arena.
SourceOf(i, b) == IF b.arena = None THEN b ELSE provider(i.arena, b.arena)

\* A container serves the agent of its engine, also in a pack with another entry,
\* with the type and model of the primary binding.  The container finds the primary
\* in a list the adapter wrote: it is the one the adapter found.
ServesAgentWithModel ==
    \A a \in Agents : Running(a) =>
        LET i == container[a].of
            bs == i.config.providers
            got == container[a].got
            planned == primaryBinding(resolveBindings(i))
        IN  /\ got.agent = a
            /\ {<<m.type, m.model>> : m \in got.llm} = {<<p.type, p.model>> : p \in planned}
            /\ \A m \in got.llm : \E n \in DOMAIN bs :
                /\ IsPrimary(bs, n)
                /\ m.type = SourceOf(i, bs[n]).type
                /\ m.model = SourceOf(i, bs[n]).model

\* Every tool the arena declares in a mode the container supports can run there, as
\* it was declared: inline, or else by the first manifest that names it.  Nothing
\* else can run.
ToolsReachTheContainer ==
    \A a \in Agents : Running(a) /\ container[a].of.arena # None =>
        LET inline == container[a].of.arena.tools
            manifests == container[a].of.arena.manifests
            tools == container[a].got.tools
            Names(n, t) == n \in DOMAIN manifests /\ manifestName(manifests[n]) = t
        IN  /\ \A t \in DOMAIN inline : Container!Supported(inline[t]) => t \in DOMAIN tools
            /\ \A n \in DOMAIN manifests : \A t \in {manifestName(manifests[n])} \ {None} :
                    t \in DOMAIN tools \/ t \in DOMAIN inline
                    \/ \E m \in 1..n : Names(m, t) /\ ~Container!Supported(manifests[m].spec)
            /\ \A t \in DOMAIN tools :
                IF t \in DOMAIN inline THEN tools[t] = inline[t]
                ELSE \E n \in DOMAIN manifests :
                    /\ Names(n, t) /\ tools[t] = manifests[n].spec
                    /\ \A m \in 1..(n - 1) : ~Names(m, t)

\* What the operator sets and what the adapter sets stay apart: spans go to the
\* configured endpoint and nowhere when tracing is off, calls and sessions to the
\* configured project and location whatever the host says, and no variable of the
\* operator is lost, but for an endpoint the tracing section replaces.
EnvironmentsStayApart ==
    \A a \in Agents :
        /\ Running(a) =>
            LET c == container[a].of.config
                got == container[a].got
            IN  /\ got.tracing = IF c.tracing THEN c.endpoint ELSE None
                /\ \A m \in got.llm : m.project = c.project /\ m.location = c.location
                /\ got.engine # None => <<got.engine[1], got.engine[2]>> = <<c.project, c.location>>
        /\ engine[a] # None =>
            LET c == engine[a].from.config
            IN  \A v \in DOMAIN c.env :
                    engine[a].env[v] = c.env[v] \/ (c.tracing /\ v = envOTLPEndpoint)

\* Whatever the operator writes, an engine's labels keep to the constraints labels.go
\* states: on each key and value because the adapter sanitizes them, on their number
\* because the service refuses more.  No label is lost to another of the operator's,
\* and the ones the engine can be found by are there.
LabelsKept ==
    \A a \in Agents : engine[a] # None =>
        LET i == engine[a].from
            labels == engine[a].labels
            managed == managedLabels(i.pack.id, NameOf[a])
        IN  /\ IsLabelSet(labels)
            /\ \A k \in DOMAIN labels : IsLabelKey(k) /\ IsLabelText(labels[k])
            /\ \A k \in DOMAIN managed : labels[k] = managed[k]
            /\ \A k \in DOMAIN i.config.labels :
                \/ sanitizeLabelKey(k) \in DOMAIN managed
                \/ labels[sanitizeLabelKey(k)] = sanitizeLabelValue(i.config.labels[k])
-----------------------------------------------------------------------------
(***************************************************************************)
(* What the repository says and the code does not do.                      *)
(***************************************************************************)

\* bindings.go and configure.md: the warning names the binding that will be used as
\* the primary provider.
WarnedPrimaryIsUsed ==
    \A a \in Agents : Running(a) =>
        LET i == container[a].of
            bs == i.config.providers
        IN  ValidateConfig(i) /\ bindingWarnings(bs) # None =>
                \E n \in DOMAIN bs :
                    /\ bs[n].name = bindingWarnings(bs)
                    /\ \A m \in container[a].got.llm :
                        /\ m.type = SourceOf(i, bs[n]).type
                        /\ m.model = SourceOf(i, bs[n]).model
=============================================================================

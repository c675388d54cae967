---------------------------- MODULE HandoffProofs ----------------------------
(***************************************************************************)
(* Theorems about Handoff, for any packs, deploy configs, arena configs    *)
(* and hosts.                                                              *)
(***************************************************************************)
EXTENDS Handoff, FilterProofs, FiniteSetTheorems

\* An input an apply went through with.
Applied(i) ==
    /\ i \in Inputs \cup EditedInputs
    /\ ApplyAccepts(i) /\ ServiceTakes(i)

\* Every engine was built from one applied input, every container from what the
\* engine of its agent was given and from its host, whatever was edited, applied or
\* cut short in between.  (The second and third conjunct say that both are functions.)
Provenance ==
    /\ input \in Inputs \cup EditedInputs
    /\ engine \in [Agents -> {engine[a] : a \in Agents}]
    /\ container \in [Agents -> {container[a] : a \in Agents}]
    /\ \A a \in Agents : engine[a] # None =>
        \E i : Applied(i) /\ a \in enumerateAgents(i.pack) /\ engine[a] = buildEngine(i, a)
    /\ \A a \in Agents : container[a] # None =>
        \E i : \E host \in Hosts :
            /\ Applied(i)
            /\ container[a] = [of |-> i, got |-> Container!run(Over(buildEngineEnv(i, a), host))]

\* No step mixes inputs within one engine or one container.
LEMMA ProvenanceHolds == Spec => []Provenance
<1>1. Init => Provenance
  BY DEF Init, Provenance
<1>2. Provenance /\ [Next]_vars => Provenance'
  <2> SUFFICES ASSUME Provenance, [Next]_vars PROVE Provenance'
    OBVIOUS
  <2>1. CASE Edit \/ UNCHANGED vars
    BY <2>1 DEF Edit, vars, Provenance
  <2>2. CASE Apply
    <3>1. PICK done \in SUBSET enumerateAgents(input.pack) :
            engine' = [a \in Agents |->
                        IF a \in done THEN buildEngine(input, a)
                        ELSE IF done = enumerateAgents(input.pack) THEN None ELSE engine[a]]
      BY <2>2 DEF Apply
    <3>2. Applied(input)
      BY <2>2 DEF Apply, Applied, Provenance
    <3>3. container' = [a \in Agents |-> IF engine'[a] = None THEN None ELSE container[a]]
      BY <2>2 DEF Apply
    <3>4. ASSUME NEW a \in Agents, engine'[a] # None
          PROVE  \E i : /\ Applied(i) /\ a \in enumerateAgents(i.pack)
                       /\ engine'[a] = buildEngine(i, a)
      BY <3>1, <3>2, <3>4 DEF Provenance
    <3>5. ASSUME NEW a \in Agents, container'[a] # None
          PROVE  container[a] # None /\ container'[a] = container[a]
      BY <3>3, <3>5
    <3>6. input' \in Inputs \cup EditedInputs
      BY <2>2 DEF Apply, Provenance
    <3> QED BY <3>1, <3>3, <3>4, <3>5, <3>6 DEF Provenance
  <2>3. ASSUME NEW a \in Agents, Start(a) PROVE Provenance'
    <3>1. PICK host \in Hosts :
            container' = [container EXCEPT
                            ![a] = [of |-> engine[a].from,
                                    got |-> Container!run(Over(engine[a].env, host))]]
      BY <2>3 DEF Start
    <3>2. PICK i : Applied(i) /\ engine[a] = buildEngine(i, a)
      BY <2>3 DEF Start, Provenance
    <3>3. engine[a].from = i /\ engine[a].env = buildEngineEnv(i, a)
      BY <3>2 DEF buildEngine
    <3>4. container'[a] = [of |-> i, got |-> Container!run(Over(buildEngineEnv(i, a), host))]
      BY <3>1, <3>3 DEF Provenance
    <3>5. \A b \in Agents \ {a} : container'[b] = container[b]
      BY <3>1 DEF Provenance
    <3>6. container' \in [Agents -> {container'[b] : b \in Agents}]
      BY <3>1 DEF Provenance
    <3> QED BY <2>3, <3>2, <3>4, <3>5, <3>6 DEF Provenance, Start
  <2> QED BY <2>1, <2>2, <2>3 DEF Next
<1> QED BY <1>1, <1>2, PTL DEF Spec
-----------------------------------------------------------------------------
\* Reading a variable out of one environment laid over another.
LEMMA OverlayReads ==
  ASSUME NEW f, NEW g
  PROVE  /\ DOMAIN Over(f, g) = DOMAIN f \cup DOMAIN g
         /\ \A v \in DOMAIN f : Over(f, g)[v] = f[v]
         /\ \A v \in DOMAIN g \ DOMAIN f : Over(f, g)[v] = g[v]
  BY DEF Over

\* What a container finds in the environment the adapter built for an applied input:
\* the adapter's settings under the adapter's names, nothing of the operator's under
\* them, a pack, and the operator's variables but for a replaced endpoint.
LEMMA BuiltEnvironment ==
  ASSUME NEW i, NEW a, Applied(i), NEW env, env = buildEngineEnv(i, a)
  PROVE  /\ {envProject, envLocation, envAgentName, envProviders} \subseteq DOMAIN env
         /\ env[envProject] = i.config.project /\ env[envLocation] = i.config.location
         /\ env[envAgentName] = a /\ env[envProviders] = resolveBindings(i)
         /\ {envPackJSON, envPackURI} \cap DOMAIN env # {}
         /\ IF DOMAIN encodeToolSpecs(i.arena) = {} THEN envToolSpecs \notin DOMAIN env
            ELSE envToolSpecs \in DOMAIN env /\ env[envToolSpecs] = encodeToolSpecs(i.arena)
         /\ i.config.tracing =>
              /\ {envTracingEnabled, envOTLPEndpoint} \subseteq DOMAIN env
              /\ env[envTracingEnabled] = "true" /\ env[envOTLPEndpoint] = i.config.endpoint
         /\ ~i.config.tracing => envTracingEnabled \notin DOMAIN env
         /\ \A v \in DOMAIN i.config.env :
              env[v] = i.config.env[v] \/ (i.config.tracing /\ v = envOTLPEndpoint)
<1> DEFINE pack == packEnv(i)
           tracing == tracingEnv(i)
           tools == toolsEnv(i)
           own == agentEnv(i, a)
           e1 == Over(tools, own)
           e2 == Over(i.config.env, e1)
           e3 == Over(tracing, e2)
<1>1. env = Over(pack, e3)
  BY DEF buildEngineEnv
<1>2. \A v \in ReservedNames : v \notin DOMAIN i.config.env
  BY DEF Applied, ApplyAccepts, Buildable
<1>3. DOMAIN pack \in {{envPackJSON}, {envPackURI}}
  BY DEF packEnv
<1>4. /\ i.config.tracing =>
           /\ DOMAIN tracing = {envTracingEnabled, envOTLPEndpoint}
           /\ tracing[envTracingEnabled] = "true" /\ tracing[envOTLPEndpoint] = i.config.endpoint
      /\ ~i.config.tracing => DOMAIN tracing = {}
  BY DEF tracingEnv, envTracingEnabled, envOTLPEndpoint
<1>5. IF DOMAIN encodeToolSpecs(i.arena) = {} THEN DOMAIN tools = {}
      ELSE DOMAIN tools = {envToolSpecs} /\ tools[envToolSpecs] = encodeToolSpecs(i.arena)
  BY DEF toolsEnv
<1>6. /\ DOMAIN own = {envAgentName, envProviders, envProject, envLocation}
      /\ own[envProject] = i.config.project /\ own[envLocation] = i.config.location
      /\ own[envAgentName] = a /\ own[envProviders] = resolveBindings(i)
  BY DEF agentEnv, envAgentName, envProviders, envProject, envLocation
<1>7. /\ DOMAIN e1 = DOMAIN tools \cup DOMAIN own
      /\ \A v \in DOMAIN tools : e1[v] = tools[v]
      /\ \A v \in DOMAIN own \ DOMAIN tools : e1[v] = own[v]
  BY OverlayReads
<1>8. /\ DOMAIN e2 = DOMAIN i.config.env \cup DOMAIN e1
      /\ \A v \in DOMAIN i.config.env : e2[v] = i.config.env[v]
      /\ \A v \in DOMAIN e1 \ DOMAIN i.config.env : e2[v] = e1[v]
  BY OverlayReads
<1>9. /\ DOMAIN e3 = DOMAIN tracing \cup DOMAIN e2
      /\ \A v \in DOMAIN tracing : e3[v] = tracing[v]
      /\ \A v \in DOMAIN e2 \ DOMAIN tracing : e3[v] = e2[v]
  BY OverlayReads
<1>10. /\ DOMAIN env = DOMAIN pack \cup DOMAIN e3
       /\ \A v \in DOMAIN e3 \ DOMAIN pack : env[v] = e3[v]
  <2> HIDE DEF pack, e3
  <2>1. DOMAIN env = DOMAIN pack \cup DOMAIN e3
    BY <1>1, OverlayReads
  <2>2. \A v \in DOMAIN e3 \ DOMAIN pack : env[v] = e3[v]
    BY <1>1 DEF Over
  <2> QED BY <2>1, <2>2
<1> HIDE DEF pack, tracing, tools, own, e1, e2, e3
<1>11. ASSUME NEW v \in {envProject, envLocation, envAgentName, envProviders}
       PROVE  v \in DOMAIN env /\ env[v] = own[v]
  <2>1. v \in ReservedNames /\ v \in DOMAIN own \ DOMAIN tools
    BY <1>5, <1>6, HandoffAssumption
    DEF envProject, envLocation, envAgentName, envProviders, envToolSpecs
  <2>2. v \notin DOMAIN tracing /\ v \notin DOMAIN pack
    BY <1>3, <1>4 DEF envProject, envLocation, envAgentName, envProviders, envTracingEnabled,
       envOTLPEndpoint, envPackJSON, envPackURI
  <2> QED BY <1>2, <1>7, <1>8, <1>9, <1>10, <2>1, <2>2
<1>12. ASSUME i.config.tracing
       PROVE  /\ {envTracingEnabled, envOTLPEndpoint} \subseteq DOMAIN env
              /\ env[envTracingEnabled] = "true" /\ env[envOTLPEndpoint] = i.config.endpoint
  BY <1>3, <1>4, <1>9, <1>10, <1>12
  DEF envPackJSON, envPackURI, envTracingEnabled, envOTLPEndpoint
<1>13. ASSUME ~i.config.tracing PROVE envTracingEnabled \notin DOMAIN env
  <2>1. envTracingEnabled \notin DOMAIN pack \cup DOMAIN tools \cup DOMAIN own
    BY <1>3, <1>5, <1>6
    DEF envPackJSON, envPackURI, envAgentName, envProviders, envProject, envLocation,
        envTracingEnabled, envToolSpecs
  <2> QED BY <1>2, <1>4, <1>7, <1>8, <1>9, <1>10, <1>13, <2>1, HandoffAssumption
<1>14. ASSUME NEW v \in DOMAIN i.config.env
       PROVE  env[v] = i.config.env[v] \/ (i.config.tracing /\ v = envOTLPEndpoint)
  <2>1. v \notin DOMAIN pack /\ v # envTracingEnabled
    BY <1>2, <1>3, HandoffAssumption
  <2> QED BY <1>4, <1>8, <1>9, <1>10, <2>1
<1>15. {envPackJSON, envPackURI} \cap DOMAIN env # {}
  BY <1>3, <1>10
<1>16. IF DOMAIN encodeToolSpecs(i.arena) = {} THEN envToolSpecs \notin DOMAIN env
       ELSE envToolSpecs \in DOMAIN env /\ env[envToolSpecs] = encodeToolSpecs(i.arena)
  <2>1. envToolSpecs \notin DOMAIN pack \cup DOMAIN tracing \cup DOMAIN own
    BY <1>3, <1>4, <1>6
    DEF envPackJSON, envPackURI, envAgentName, envProviders, envProject, envLocation,
        envTracingEnabled, envOTLPEndpoint, envToolSpecs
  <2>2. envToolSpecs \notin DOMAIN i.config.env
    BY <1>2, HandoffAssumption
  <2> QED BY <1>5, <1>7, <1>8, <1>9, <1>10, <2>1, <2>2
<1>17. /\ {envProject, envLocation, envAgentName, envProviders} \subseteq DOMAIN env
       /\ env[envProject] = i.config.project /\ env[envLocation] = i.config.location
       /\ env[envAgentName] = a /\ env[envProviders] = resolveBindings(i)
  BY <1>6, <1>11
<1> QED BY <1>12, <1>13, <1>14, <1>15, <1>16, <1>17
-----------------------------------------------------------------------------
\* The first position is the first of all.
LEMMA OneIsFirst ==
  ASSUME NEW S, S \subseteq Nat \ {0}, 1 \in S
  PROVE  Container!Min(S) = 1
<1>1. \E x \in S : \A y \in S : x =< y
  OBVIOUS
<1> DEFINE first == CHOOSE x \in S : \A y \in S : x =< y
<1>2. first \in S /\ \A y \in S : first =< y
  BY <1>1
<1>3. Container!Min(S) = first
  BY DEF Container!Min
<1> HIDE DEF first
<1> QED BY <1>2, <1>3

\* Of names to try, the first is read when it is set.
LEMMA FirstNameRead ==
  ASSUME NEW env, NEW names, DOMAIN names \subseteq Nat \ {0}, 1 \in DOMAIN names,
         names[1] \in DOMAIN env
  PROVE  Container!firstEnv(env, names) = env[names[1]]
<1> DEFINE set == {n \in DOMAIN names : names[n] \in DOMAIN env}
<1>1. set \subseteq Nat \ {0} /\ 1 \in set
  OBVIOUS
<1>2. Container!Min(set) = 1
  BY <1>1, OneIsFirst
<1> QED BY <1>1, <1>2 DEF Container!firstEnv

\* A variable that is not set reads as none.
LEMMA UnsetNameRead ==
  ASSUME NEW env, NEW n, n \notin DOMAIN env
  PROVE  Container!firstEnv(env, <<n>>) = None
  BY DEF Container!firstEnv

\* What a container configures itself with, from an environment a host added to.
LEMMA LoadedConfig ==
  ASSUME NEW i, NEW a, Applied(i), NEW host \in Hosts,
         NEW env, env = Over(buildEngineEnv(i, a), host),
         NEW cfg, cfg = Container!loadConfig(env)
  PROVE  /\ cfg.project = i.config.project /\ cfg.location = i.config.location
         /\ cfg.agent = a /\ cfg.bindings = resolveBindings(i)
         /\ cfg.toolSpecs = IF DOMAIN encodeToolSpecs(i.arena) = {} THEN <<>>
                            ELSE encodeToolSpecs(i.arena)
         /\ i.config.tracing => cfg.tracing /\ cfg.endpoint = i.config.endpoint
         /\ ~i.config.tracing => ~cfg.tracing
         /\ Container!loadable(env)
<1> DEFINE built == buildEngineEnv(i, a)
<1>1. /\ DOMAIN env = DOMAIN built \cup DOMAIN host
      /\ \A v \in DOMAIN built : env[v] = built[v]
  BY OverlayReads
<1>2. /\ {envProject, envLocation, envAgentName, envProviders} \subseteq DOMAIN built
      /\ built[envProject] = i.config.project /\ built[envLocation] = i.config.location
      /\ built[envAgentName] = a /\ built[envProviders] = resolveBindings(i)
      /\ {envPackJSON, envPackURI} \cap DOMAIN built # {}
      /\ IF DOMAIN encodeToolSpecs(i.arena) = {} THEN envToolSpecs \notin DOMAIN built
         ELSE envToolSpecs \in DOMAIN built /\ built[envToolSpecs] = encodeToolSpecs(i.arena)
      /\ i.config.tracing =>
           /\ {envTracingEnabled, envOTLPEndpoint} \subseteq DOMAIN built
           /\ built[envTracingEnabled] = "true" /\ built[envOTLPEndpoint] = i.config.endpoint
      /\ ~i.config.tracing => envTracingEnabled \notin DOMAIN built
  BY BuiltEnvironment
<1> HIDE DEF built
<1>3. /\ Container!envProject = envProject /\ Container!envLocation = envLocation
      /\ Container!envTracingEnabled = envTracingEnabled
      /\ Container!envOTLPEndpoint = envOTLPEndpoint
      /\ Container!envAgentName = envAgentName /\ Container!envProviders = envProviders
      /\ Container!envToolSpecs = envToolSpecs
      /\ Container!envPackJSON = envPackJSON /\ Container!envPackURI = envPackURI
  BY DEF Container!envAgentName, envAgentName, Container!envProviders, envProviders,
     Container!envToolSpecs, envToolSpecs, Container!envPackJSON, envPackJSON,
     Container!envPackURI, envPackURI,
     Container!envProject, envProject, Container!envLocation, envLocation,
     Container!envTracingEnabled, envTracingEnabled, Container!envOTLPEndpoint, envOTLPEndpoint
<1>4. cfg.project = i.config.project
  <2> DEFINE names == <<Container!envProject, Container!envProjectFallback>>
  <2>1. cfg.project = Container!firstEnv(env, names)
    BY DEF Container!loadConfig
  <2>2. DOMAIN names \subseteq Nat \ {0} /\ 1 \in DOMAIN names /\ names[1] = envProject
    BY <1>3
  <2> HIDE DEF names
  <2>3. Container!firstEnv(env, names) = env[envProject]
    BY <1>1, <1>2, <2>2, FirstNameRead
  <2> QED BY <1>1, <1>2, <2>1, <2>3
<1>5. cfg.location = i.config.location
  <2> DEFINE names == <<Container!envLocation, Container!envEngineLocation,
                        Container!envLocationFallback>>
  <2>1. cfg.location = Container!firstEnv(env, names)
    BY DEF Container!loadConfig
  <2>2. DOMAIN names \subseteq Nat \ {0} /\ 1 \in DOMAIN names /\ names[1] = envLocation
    BY <1>3
  <2> HIDE DEF names
  <2>3. Container!firstEnv(env, names) = env[envLocation]
    BY <1>1, <1>2, <2>2, FirstNameRead
  <2> QED BY <1>1, <1>2, <2>1, <2>3
<1>6. /\ cfg.tracing = (Container!firstEnv(env, <<envTracingEnabled>>) = "true")
      /\ cfg.endpoint = Container!firstEnv(env, <<envOTLPEndpoint>>)
  BY <1>3 DEF Container!loadConfig
<1>7. ASSUME i.config.tracing
      PROVE  /\ cfg.tracing /\ cfg.endpoint = i.config.endpoint
             /\ Container!firstEnv(env, <<envTracingEnabled>>) = "true"
  <2>1. ASSUME NEW v \in {envTracingEnabled, envOTLPEndpoint}
        PROVE  Container!firstEnv(env, <<v>>) = built[v]
    <3> DEFINE names == <<v>>
    <3>1. DOMAIN names \subseteq Nat \ {0} /\ 1 \in DOMAIN names /\ names[1] = v
      OBVIOUS
    <3> HIDE DEF names
    <3>2. Container!firstEnv(env, names) = env[v]
      BY <1>1, <1>2, <1>7, <3>1, FirstNameRead
    <3> QED BY <1>1, <1>2, <1>7, <3>2 DEF names
  <2>2. /\ Container!firstEnv(env, <<envTracingEnabled>>) = "true"
        /\ Container!firstEnv(env, <<envOTLPEndpoint>>) = i.config.endpoint
    BY <1>2, <1>7, <2>1
  <2> QED BY <1>6, <2>2
<1>8. ASSUME ~i.config.tracing
      PROVE  ~cfg.tracing /\ Container!firstEnv(env, <<envTracingEnabled>>) = None
  <2>1. envTracingEnabled \notin DOMAIN host
    BY HandoffAssumption DEF PlatformNames, envTracingEnabled
  <2>2. Container!firstEnv(env, <<envTracingEnabled>>) = None
    BY <1>1, <1>2, <1>8, <2>1, UnsetNameRead
  <2> QED BY <1>6, <2>2, HandoffAssumption
<1>9. cfg.agent = a
  <2> DEFINE names == <<envAgentName>>
  <2>1. cfg.agent = Container!firstEnv(env, names)
    BY <1>3 DEF Container!loadConfig
  <2>2. DOMAIN names \subseteq Nat \ {0} /\ 1 \in DOMAIN names /\ names[1] = envAgentName
    OBVIOUS
  <2> HIDE DEF names
  <2>3. Container!firstEnv(env, names) = env[envAgentName]
    BY <1>1, <1>2, <2>2, FirstNameRead
  <2> QED BY <1>1, <1>2, <2>1, <2>3
<1>10. cfg.bindings = resolveBindings(i)
  <2>1. cfg.bindings = Container!Listed(env, envProviders)
    BY <1>3 DEF Container!loadConfig
  <2> QED BY <1>1, <1>2, <2>1 DEF Container!Listed
<1>11. cfg.toolSpecs = IF DOMAIN encodeToolSpecs(i.arena) = {} THEN <<>>
                       ELSE encodeToolSpecs(i.arena)
  <2>1. cfg.toolSpecs = Container!Listed(env, envToolSpecs)
    BY <1>3 DEF Container!loadConfig
  <2>2. envToolSpecs \notin DOMAIN host
    BY HandoffAssumption DEF PlatformNames, envToolSpecs
  <2> QED BY <1>1, <1>2, <2>1, <2>2 DEF Container!Listed
<1>12. Container!loadable(env)
  <2>1. Container!firstEnv(env, <<envTracingEnabled>>) \in {None, "true", "false"}
    BY <1>6, <1>7, <1>8
  <2> QED BY <1>1, <1>2, <1>3, <2>1 DEF Container!loadable
<1> QED BY <1>4, <1>5, <1>7, <1>8, <1>9, <1>10, <1>11, <1>12

\* A container that runs took its settings from its configuration.
LEMMA RunFollowsConfig ==
  ASSUME NEW env, NEW cfg, cfg = Container!loadConfig(env),
         NEW got, got = Container!run(env), got.serving
  PROVE  /\ got.agent = Container!resolveAgentName(cfg)
         /\ got.llm = Container!buildSDKOptions(cfg)
         /\ got.tools = Container!registerToolExecutors(cfg.toolSpecs)
         /\ got.tracing = IF cfg.tracing THEN cfg.endpoint ELSE None
         /\ \A m \in got.llm : m.project = cfg.project /\ m.location = cfg.location
         /\ got.engine # None => <<got.engine[1], got.engine[2]>> = <<cfg.project, cfg.location>>
<1>0. Container!Starts(env)
  BY DEF Container!run
<1>1. /\ got.tracing = Container!setupTracing(cfg)
      /\ got.agent = Container!resolveAgentName(cfg)
      /\ got.llm = Container!buildSDKOptions(cfg)
      /\ got.tools = Container!registerToolExecutors(cfg.toolSpecs)
      /\ got.engine = Container!engineName(cfg)
  BY <1>0 DEF Container!run
<1>2. \A m \in got.llm : m.project = cfg.project /\ m.location = cfg.location
  BY <1>1 DEF Container!buildSDKOptions
<1>3. got.engine # None => <<got.engine[1], got.engine[2]>> = <<cfg.project, cfg.location>>
  BY <1>1 DEF Container!engineName
<1>4. got.tracing = IF cfg.tracing THEN cfg.endpoint ELSE None
  BY <1>1 DEF Container!setupTracing
<1> QED BY <1>1, <1>2, <1>3, <1>4

\* Every container, of whatever version of the project, on whatever host, traces
\* where its operator said, or nowhere, calls models in his project and location,
\* and keeps his variables.
THEOREM EnvironmentsApart == Spec => []EnvironmentsStayApart
<1>1. Provenance => EnvironmentsStayApart
  <2> SUFFICES ASSUME Provenance, NEW a \in Agents
               PROVE  /\ Running(a) =>
                          LET c == container[a].of.config
                              got == container[a].got
                          IN  /\ got.tracing = IF c.tracing THEN c.endpoint ELSE None
                              /\ \A m \in got.llm : m.project = c.project /\ m.location = c.location
                              /\ got.engine # None =>
                                   <<got.engine[1], got.engine[2]>> = <<c.project, c.location>>
                      /\ engine[a] # None =>
                          LET c == engine[a].from.config
                          IN  \A v \in DOMAIN c.env :
                                engine[a].env[v] = c.env[v] \/ (c.tracing /\ v = envOTLPEndpoint)
    BY DEF EnvironmentsStayApart
  <2>1. ASSUME Running(a)
        PROVE  LET c == container[a].of.config
                   got == container[a].got
               IN  /\ got.tracing = IF c.tracing THEN c.endpoint ELSE None
                   /\ \A m \in got.llm : m.project = c.project /\ m.location = c.location
                   /\ got.engine # None =>
                        <<got.engine[1], got.engine[2]>> = <<c.project, c.location>>
    <3>0. PICK i :
            /\ Applied(i)
            /\ \E host \in Hosts : container[a] =
                 [of |-> i, got |-> Container!run(Over(buildEngineEnv(i, a), host))]
      BY <2>1 DEF Provenance, Running
    <3>1. PICK host \in Hosts :
            container[a] = [of |-> i, got |-> Container!run(Over(buildEngineEnv(i, a), host))]
      BY <3>0
    <3> DEFINE env == Over(buildEngineEnv(i, a), host)
               cfg == Container!loadConfig(env)
               got == Container!run(env)
    <3>2. container[a].of = i /\ container[a].got = got /\ got.serving
      BY <2>1, <3>1 DEF Running
    <3>3. /\ cfg.project = i.config.project /\ cfg.location = i.config.location
          /\ i.config.tracing => cfg.tracing /\ cfg.endpoint = i.config.endpoint
          /\ ~i.config.tracing => ~cfg.tracing
      BY <3>0, LoadedConfig
    <3>4. /\ got.tracing = IF cfg.tracing THEN cfg.endpoint ELSE None
          /\ \A m \in got.llm : m.project = cfg.project /\ m.location = cfg.location
          /\ got.engine # None => <<got.engine[1], got.engine[2]>> = <<cfg.project, cfg.location>>
      BY <3>2, RunFollowsConfig
    <3> HIDE DEF cfg, got
    <3> QED BY <3>2, <3>3, <3>4
  <2>2. ASSUME engine[a] # None
        PROVE  LET c == engine[a].from.config
               IN  \A v \in DOMAIN c.env :
                     engine[a].env[v] = c.env[v] \/ (c.tracing /\ v = envOTLPEndpoint)
    <3>1. PICK i : Applied(i) /\ engine[a] = buildEngine(i, a)
      BY <2>2 DEF Provenance
    <3>2. engine[a].from = i /\ engine[a].env = buildEngineEnv(i, a)
      BY <3>1 DEF buildEngine
    <3> QED BY <3>1, <3>2, BuiltEnvironment
  <2> QED BY <2>1, <2>2
<1> QED BY <1>1, ProvenanceHolds, PTL
-----------------------------------------------------------------------------
\* An engine has at most three labels more than the operator gave it.
LEMMA ThreeManagedLabels ==
  ASSUME NEW given, NEW packID, NEW agentName, IsFiniteSet(DOMAIN given)
  PROVE  /\ Cardinality(DOMAIN buildLabels(given, packID, agentName)) \in Nat
         /\ Cardinality(DOMAIN buildLabels(given, packID, agentName))
              <= Cardinality(DOMAIN given) + 3
<1> DEFINE managed == {LabelPack, LabelAgent, LabelManagedBy}
           user == {sanitizeLabelKey(k) : k \in DOMAIN given}
           sanitized == [k \in DOMAIN given |-> sanitizeLabelKey(k)]
<1>1. DOMAIN buildLabels(given, packID, agentName) = managed \cup user
  <2>1. /\ DOMAIN managedLabels(packID, agentName) = managed
        /\ DOMAIN userLabels(given) = user
    BY DEF managedLabels, userLabels
  <2> HIDE DEF managed, user
  <2> QED BY <2>1, OverlayReads DEF buildLabels
<1>2. sanitized \in Surjection(DOMAIN given, user)
  BY DEF Surjection
<1> HIDE DEF user, sanitized
<1>3. /\ IsFiniteSet(user) /\ Cardinality(user) <= Cardinality(DOMAIN given)
      /\ Cardinality(DOMAIN given) \in Nat
  BY <1>2, FS_Surjection, FS_CardinalityType
<1>4. ASSUME NEW S, IsFiniteSet(S), NEW x
      PROVE  /\ IsFiniteSet(S \cup {x})
             /\ Cardinality(S) \in Nat /\ Cardinality(S \cup {x}) \in Nat
             /\ Cardinality(S \cup {x}) <= Cardinality(S) + 1
  <2>1. IsFiniteSet(S \cup {x})
    BY <1>4, FS_AddElement
  <2>2. Cardinality(S) \in Nat /\ Cardinality(S \cup {x}) \in Nat
    BY <1>4, <2>1, FS_CardinalityType
  <2>3. Cardinality(S \cup {x}) = IF x \in S THEN Cardinality(S) ELSE Cardinality(S) + 1
    BY <1>4, FS_AddElement
  <2> QED BY <2>1, <2>2, <2>3
<1> DEFINE one == user \cup {LabelPack}
           two == one \cup {LabelAgent}
           three == two \cup {LabelManagedBy}
<1>5. managed \cup user = three
  OBVIOUS
<1> HIDE DEF managed, three
<1>6. IsFiniteSet(one) /\ Cardinality(one) \in Nat /\ Cardinality(one) <= Cardinality(user) + 1
      /\ Cardinality(user) \in Nat
  BY <1>3, <1>4
<1> HIDE DEF one
<1>7. IsFiniteSet(two) /\ Cardinality(two) \in Nat /\ Cardinality(two) <= Cardinality(one) + 1
  BY <1>4, <1>6
<1> HIDE DEF two
<1>8. Cardinality(three) \in Nat /\ Cardinality(three) <= Cardinality(two) + 1
  BY <1>4, <1>7 DEF three
<1> QED BY <1>1, <1>3, <1>5, <1>6, <1>7, <1>8

\* A plan of a valid config: what an apply or the service refuses after that is what
\* neither of the two looks at: the pack's id and the fields the plan does not read,
\* reserved variables, and the room the managed labels need.
THEOREM PlansAreDeployable == Spec => []PlannedIsDeployable
<1>1. ASSUME Provenance, ValidateConfig(input), Plan(input),
             input.pack.id # None, input.pack.typed,
             DOMAIN input.config.env \cap (ReservedNames \cup PlatformNames) = {},
             ~(Cardinality(DOMAIN input.config.labels) + 3 > maxLabelCount)
      PROVE  ApplyAccepts(input) /\ ServiceTakes(input)
  <2>1. ApplyAccepts(input)
    BY <1>1 DEF ValidateConfig, Plan, ApplyAccepts, gatherApplyInput, buildAgentCards, Buildable
  <2>2. IsFiniteSet(DOMAIN input.config.labels)
    BY <1>1, HandoffAssumption DEF Provenance, WellFormed
  <2>3. Cardinality(DOMAIN input.config.labels) + 3 <= maxLabelCount
    BY <1>1, <2>2, FS_CardinalityType, LabelAssumption
  <2>4. ASSUME NEW a \in enumerateAgents(input.pack)
        PROVE  IsLabelSet(buildLabels(input.config.labels, input.pack.id, NameOf[a]))
    BY <2>2, <2>3, ThreeManagedLabels, FS_CardinalityType, LabelAssumption DEF IsLabelSet
  <2> QED BY <1>1, <2>1, <2>4 DEF ServiceTakes
<1>2. Provenance => PlannedIsDeployable
  BY <1>1 DEF PlannedIsDeployable
<1> QED BY <1>2, ProvenanceHolds, PTL
-----------------------------------------------------------------------------
(***************************************************************************)
(* What a container serves with.                                           *)
(***************************************************************************)

\* A container was configured by the input of its engine, and serves what that
\* configuration says or did not start for a reason that is in it.
LEMMA Configured ==
  ASSUME Provenance, NEW a \in Agents, container[a] # None
  PROVE  \E cfg :
           LET i == container[a].of
               got == container[a].got
           IN  /\ Applied(i)
               /\ cfg.agent = a /\ cfg.bindings = resolveBindings(i)
               /\ cfg.toolSpecs = IF DOMAIN encodeToolSpecs(i.arena) = {} THEN <<>>
                                  ELSE encodeToolSpecs(i.arena)
               /\ cfg.project = i.config.project /\ cfg.location = i.config.location
               /\ got.serving =>
                    /\ got.agent = Container!resolveAgentName(cfg)
                    /\ got.llm = Container!buildSDKOptions(cfg)
                    /\ got.tools = Container!registerToolExecutors(cfg.toolSpecs)
               /\ ~got.serving =>
                    \/ Container!resolveAgentName(cfg) = None
                    \/ ~Container!Reachable(cfg)
                    \/ ~Container!parseToolSpecs(cfg)
<1>1. PICK i : Applied(i) /\ \E host \in Hosts : container[a] =
                 [of |-> i, got |-> Container!run(Over(buildEngineEnv(i, a), host))]
  BY DEF Provenance
<1>2. PICK host \in Hosts :
        container[a] = [of |-> i, got |-> Container!run(Over(buildEngineEnv(i, a), host))]
  BY <1>1
<1> DEFINE env == Over(buildEngineEnv(i, a), host)
           cfg == Container!loadConfig(env)
           got == Container!run(env)
<1>3. container[a].of = i /\ container[a].got = got
  BY <1>2
<1>4. /\ cfg.project = i.config.project /\ cfg.location = i.config.location
      /\ cfg.agent = a /\ cfg.bindings = resolveBindings(i)
      /\ cfg.toolSpecs = IF DOMAIN encodeToolSpecs(i.arena) = {} THEN <<>>
                         ELSE encodeToolSpecs(i.arena)
      /\ Container!loadable(env)
  BY <1>1, LoadedConfig
<1>5. got.serving =>
        /\ got.agent = Container!resolveAgentName(cfg)
        /\ got.llm = Container!buildSDKOptions(cfg)
        /\ got.tools = Container!registerToolExecutors(cfg.toolSpecs)
  BY RunFollowsConfig
<1>6. ~got.serving =>
        \/ Container!resolveAgentName(cfg) = None
        \/ ~Container!Reachable(cfg)
        \/ ~Container!parseToolSpecs(cfg)
  <2>1. ~got.serving => ~Container!Starts(env)
    BY DEF Container!run
  <2> QED BY <1>4, <2>1 DEF Container!Starts
<1> HIDE DEF cfg, got
<1> QED BY <1>1, <1>3, <1>4, <1>5, <1>6

\* Whatever was applied starts, on every host, unless one of its tools does not decode.
THEOREM AppliedContainersStart == Spec => []ContainersStart
<1>1. Provenance => ContainersStart
  <2> SUFFICES ASSUME Provenance, NEW a \in Agents, container[a] # None, ~container[a].got.serving
               PROVE  LET specs == encodeToolSpecs(container[a].of.arena)
                      IN  \E t \in DOMAIN specs : ~specs[t].decodes
    BY DEF ContainersStart
  <2> DEFINE i == container[a].of
  <2>1. PICK cfg :
          /\ Applied(i)
          /\ cfg.agent = a
          /\ cfg.toolSpecs = IF DOMAIN encodeToolSpecs(i.arena) = {} THEN <<>>
                             ELSE encodeToolSpecs(i.arena)
          /\ cfg.project = i.config.project /\ cfg.location = i.config.location
          /\ \/ Container!resolveAgentName(cfg) = None
             \/ ~Container!Reachable(cfg)
             \/ ~Container!parseToolSpecs(cfg)
    BY Configured
  <2>2. Container!resolveAgentName(cfg) # None
    BY <2>1, HandoffAssumption DEF Container!resolveAgentName
  <2>3. Container!Reachable(cfg)
    BY <2>1, HandoffAssumption DEF Container!Reachable, Applied, WellFormed
  <2>4. PICK t \in DOMAIN cfg.toolSpecs : ~cfg.toolSpecs[t].decodes
    BY <2>1, <2>2, <2>3 DEF Container!parseToolSpecs
  <2>5. cfg.toolSpecs = encodeToolSpecs(i.arena)
    <3>1. DOMAIN <<>> = {}
      OBVIOUS
    <3> QED BY <2>1, <2>4, <3>1
  <2> QED BY <2>4, <2>5
<1> QED BY <1>1, ProvenanceHolds, PTL
-----------------------------------------------------------------------------
\* Both programs take the same binding for the primary, in the list one writes and the
\* other reads, and it is the documented one.
LEMMA PrimariesAgree ==
  ASSUME NEW i, NEW m \in Container!primaryBinding(resolveBindings(i))
  PROVE  \E n \in DOMAIN i.config.providers :
           /\ IsPrimary(i.config.providers, n)
           /\ m = resolveBindings(i)[n]
<1> DEFINE bs == i.config.providers
           rs == resolveBindings(i)
           llm == {n \in DOMAIN rs : rs[n].role \in {"", "llm"}}
           default == {n \in llm : rs[n].name = DefaultBindingName}
           candidates == IF default # {} THEN default ELSE llm
<1>1. DOMAIN rs = DOMAIN bs
  BY DEF resolveBindings
<1>2. ASSUME NEW n \in DOMAIN bs
      PROVE  rs[n].name = bs[n].name /\ (rs[n].role \in {"", "llm"} <=> IsLLM(bs[n]))
  BY DEF resolveBindings, IsLLM, RoleLLM
<1>3. PICK n \in candidates : m = rs[n] /\ \A o \in candidates : n <= o
  BY DEF Container!primaryBinding
<1> HIDE DEF rs
<1>4. n \in DOMAIN bs /\ IsLLM(bs[n])
  BY <1>1, <1>2, <1>3
<1>5. ASSUME NEW o \in DOMAIN bs, IsLLM(bs[o])
      PROVE  IF bs[n].name = DefaultBindingName
             THEN bs[o].name = DefaultBindingName => n <= o
             ELSE bs[o].name # DefaultBindingName /\ n <= o
  <2>1. o \in llm
    BY <1>1, <1>2, <1>5
  <2>2. CASE default # {}
    <3>1. n \in default /\ bs[n].name = DefaultBindingName
      BY <1>1, <1>2, <1>3, <2>2
    <3>2. bs[o].name = DefaultBindingName => o \in default
      BY <1>2, <2>1
    <3> QED BY <1>3, <2>2, <3>1, <3>2
  <2>3. CASE default = {}
    <3>1. bs[n].name # DefaultBindingName /\ bs[o].name # DefaultBindingName
      BY <1>1, <1>2, <1>3, <2>1, <2>3
    <3> QED BY <1>3, <2>1, <2>3, <3>1
  <2> QED BY <2>2, <2>3
<1>6. IsPrimary(bs, n)
  BY <1>4, <1>5 DEF IsPrimary
<1> QED BY <1>3, <1>4, <1>6 DEF rs

\* What the container finds, the adapter found.
LEMMA PrimariesSame ==
  ASSUME NEW i
  PROVE  Container!primaryBinding(resolveBindings(i)) = primaryBinding(resolveBindings(i))
<1> DEFINE rs == resolveBindings(i)
<1>1. \A n \in DOMAIN rs : rs[n].role \in {"", "llm"} <=> rs[n].role = RoleLLM
  BY DEF resolveBindings, RoleLLM
<1>2. {n \in DOMAIN rs : rs[n].role \in {"", "llm"}} = {n \in DOMAIN rs : rs[n].role = RoleLLM}
  BY <1>1
<1> HIDE DEF rs
<1> QED BY <1>2 DEF Container!primaryBinding, primaryBinding, rs

\* A container serves its own agent, with the type and model of the primary binding.
THEOREM ServesTheRightAgent == Spec => []ServesAgentWithModel
<1>1. Provenance => ServesAgentWithModel
  <2> SUFFICES ASSUME Provenance, NEW a \in Agents, Running(a)
               PROVE  LET i == container[a].of
                          bs == i.config.providers
                          got == container[a].got
                          planned == primaryBinding(resolveBindings(i))
                      IN  /\ got.agent = a
                          /\ {<<m.type, m.model>> : m \in got.llm}
                               = {<<p.type, p.model>> : p \in planned}
                          /\ \A m \in got.llm : \E n \in DOMAIN bs :
                              /\ IsPrimary(bs, n)
                              /\ m.type = SourceOf(i, bs[n]).type
                              /\ m.model = SourceOf(i, bs[n]).model
    BY DEF ServesAgentWithModel
  <2> DEFINE i == container[a].of
             bs == i.config.providers
             got == container[a].got
  <2>1. PICK cfg :
          /\ Applied(i)
          /\ cfg.agent = a /\ cfg.bindings = resolveBindings(i)
          /\ got.agent = Container!resolveAgentName(cfg)
          /\ got.llm = Container!buildSDKOptions(cfg)
    BY Configured DEF Running
  <2>2. got.agent = a
    BY <2>1, HandoffAssumption DEF Container!resolveAgentName
  <2>3. got.llm = {[type |-> p.type, model |-> p.model, project |-> cfg.project,
                    location |-> cfg.location] : p \in Container!primaryBinding(resolveBindings(i))}
    BY <2>1 DEF Container!buildSDKOptions
  <2>4. {<<m.type, m.model>> : m \in got.llm}
          = {<<p.type, p.model>> : p \in primaryBinding(resolveBindings(i))}
    <3> DEFINE P == primaryBinding(resolveBindings(i))
    <3>1. got.llm = {[type |-> p.type, model |-> p.model, project |-> cfg.project,
                      location |-> cfg.location] : p \in P}
      BY <2>3, PrimariesSame
    <3> HIDE DEF P, got
    <3>2. ASSUME NEW p \in P
          PROVE  \E m \in got.llm : <<m.type, m.model>> = <<p.type, p.model>>
      <4> DEFINE m == [type |-> p.type, model |-> p.model, project |-> cfg.project,
                       location |-> cfg.location]
      <4>1. m \in got.llm /\ m.type = p.type /\ m.model = p.model
        BY <3>1
      <4> QED BY <4>1
    <3>3. ASSUME NEW m \in got.llm
          PROVE  \E p \in P : <<m.type, m.model>> = <<p.type, p.model>>
      BY <3>1
    <3>4. {<<m.type, m.model>> : m \in got.llm} = {<<p.type, p.model>> : p \in P}
      BY <3>2, <3>3
    <3> QED BY <3>4 DEF P, got
  <2>5. ASSUME NEW m \in got.llm
        PROVE  \E n \in DOMAIN bs :
                 /\ IsPrimary(bs, n)
                 /\ m.type = SourceOf(i, bs[n]).type
                 /\ m.model = SourceOf(i, bs[n]).model
    <3>1. PICK p \in Container!primaryBinding(resolveBindings(i)) :
            m.type = p.type /\ m.model = p.model
      BY <2>3
    <3>2. PICK n \in DOMAIN bs : IsPrimary(bs, n) /\ p = resolveBindings(i)[n]
      BY PrimariesAgree
    <3>3. p.type = SourceOf(i, bs[n]).type /\ p.model = SourceOf(i, bs[n]).model
      BY <3>2 DEF resolveBindings, SourceOf, usesArena
    <3> QED BY <3>1, <3>2, <3>3
  <2> HIDE DEF got, i
  <2> QED BY <2>2, <2>4, <2>5 DEF got, i
<1> QED BY <1>1, ProvenanceHolds, PTL
-----------------------------------------------------------------------------
\* The tools of the manifests: of those that name a tool the first one counts.
LEMMA FirstManifestCounts ==
  ASSUME NEW manifests, DOMAIN manifests \subseteq Nat \ {0},
         NEW t \in DOMAIN mergeLoadedTools(manifests)
  PROVE  \E n \in DOMAIN manifests :
           /\ manifestName(manifests[n]) = t
           /\ mergeLoadedTools(manifests)[t] = manifests[n].spec
           /\ \A m \in DOMAIN manifests : manifestName(manifests[m]) = t => n <= m
<1> DEFINE named == {n \in DOMAIN manifests : manifestName(manifests[n]) = t}
<1>1. named \in SUBSET Nat /\ named # {}
  BY DEF mergeLoadedTools
<1>2. mergeLoadedTools(manifests)[t] = manifests[Min(named)].spec
  BY DEF mergeLoadedTools
<1>3. Min(named) \in named /\ \A m \in named : Min(named) <= m
  <2> HIDE DEF named
  <2> QED BY <1>1, LeastIsMin
<1> QED BY <1>2, <1>3

\* Every tool the arena declares in a supported mode can run in the container, as it was
\* declared, and nothing else can.
THEOREM DeclaredToolsRun == Spec => []ToolsReachTheContainer
<1>1. Provenance => ToolsReachTheContainer
  <2> SUFFICES ASSUME Provenance, NEW a \in Agents, Running(a), container[a].of.arena # None
               PROVE  LET inline == container[a].of.arena.tools
                          manifests == container[a].of.arena.manifests
                          tools == container[a].got.tools
                          Names(n, t) == n \in DOMAIN manifests /\ manifestName(manifests[n]) = t
                      IN  /\ \A t \in DOMAIN inline :
                                Container!Supported(inline[t]) => t \in DOMAIN tools
                          /\ \A n \in DOMAIN manifests :
                                \A t \in {manifestName(manifests[n])} \ {None} :
                                  \/ t \in DOMAIN tools
                                  \/ t \in DOMAIN inline
                                  \/ \E m \in 1..n :
                                      Names(m, t) /\ ~Container!Supported(manifests[m].spec)
                          /\ \A t \in DOMAIN tools :
                              IF t \in DOMAIN inline THEN tools[t] = inline[t]
                              ELSE \E n \in DOMAIN manifests :
                                  /\ Names(n, t) /\ tools[t] = manifests[n].spec
                                  /\ \A m \in 1..(n - 1) : ~Names(m, t)
    BY DEF ToolsReachTheContainer
  <2> DEFINE i == container[a].of
             inline == i.arena.tools
             manifests == i.arena.manifests
             specs == encodeToolSpecs(i.arena)
             merged == mergeLoadedTools(manifests)
             tools == container[a].got.tools
  <2>1. PICK cfg :
          /\ Applied(i)
          /\ cfg.toolSpecs = IF DOMAIN specs = {} THEN <<>> ELSE specs
          /\ tools = Container!registerToolExecutors(cfg.toolSpecs)
    BY Configured DEF Running
  <2>2. DOMAIN manifests \subseteq Nat \ {0}
    BY <2>1, HandoffAssumption DEF Applied, WellFormed
  <2>3. /\ DOMAIN specs = DOMAIN inline \cup DOMAIN merged
        /\ \A t \in DOMAIN inline : specs[t] = inline[t]
        /\ \A t \in DOMAIN merged \ DOMAIN inline : specs[t] = merged[t]
    <3>1. specs = Over(inline, merged)
      BY DEF encodeToolSpecs
    <3> HIDE DEF specs, inline, merged
    <3> QED BY <3>1 DEF Over
  <2>4. DOMAIN merged = {manifestName(manifests[n]) : n \in DOMAIN manifests} \ {None}
    BY DEF mergeLoadedTools
  <2>5. \A t \in DOMAIN merged : \E n \in DOMAIN manifests :
          /\ manifestName(manifests[n]) = t
          /\ merged[t] = manifests[n].spec
          /\ \A m \in DOMAIN manifests : manifestName(manifests[m]) = t => n <= m
    BY <2>2, FirstManifestCounts
  <2>6. /\ DOMAIN tools = {t \in DOMAIN specs : Container!Supported(specs[t])}
        /\ \A t \in DOMAIN tools : tools[t] = specs[t]
    <3>1. DOMAIN <<>> = {}
      OBVIOUS
    <3>2. CASE DOMAIN specs = {}
      BY <2>1, <3>1, <3>2 DEF Container!registerToolExecutors
    <3>3. CASE DOMAIN specs # {}
      BY <2>1, <3>3 DEF Container!registerToolExecutors
    <3> QED BY <3>2, <3>3
  <2> HIDE DEF i, inline, manifests, specs, merged, tools
  <2>7. \A t \in DOMAIN inline : Container!Supported(inline[t]) => t \in DOMAIN tools
    BY <2>3, <2>6
  <2>8. ASSUME NEW n \in DOMAIN manifests, manifestName(manifests[n]) # None,
               manifestName(manifests[n]) \notin DOMAIN tools,
               manifestName(manifests[n]) \notin DOMAIN inline
        PROVE  \E m \in 1..n :
                 /\ m \in DOMAIN manifests
                 /\ manifestName(manifests[m]) = manifestName(manifests[n])
                 /\ ~Container!Supported(manifests[m].spec)
    <3> DEFINE t == manifestName(manifests[n])
    <3>1. t \in DOMAIN merged /\ t \in DOMAIN specs /\ specs[t] = merged[t]
      BY <2>3, <2>4, <2>8
    <3>2. PICK m \in DOMAIN manifests :
            /\ manifestName(manifests[m]) = t /\ merged[t] = manifests[m].spec
            /\ \A k \in DOMAIN manifests : manifestName(manifests[k]) = t => m <= k
      BY <2>5, <3>1
    <3>3. m \in 1..n
      BY <2>2, <3>2
    <3>4. ~Container!Supported(manifests[m].spec)
      BY <2>6, <2>8, <3>1, <3>2
    <3> QED BY <3>2, <3>3, <3>4
  <2>9. ASSUME NEW t \in DOMAIN tools
        PROVE  IF t \in DOMAIN inline THEN tools[t] = inline[t]
               ELSE \E n \in DOMAIN manifests :
                      /\ manifestName(manifests[n]) = t /\ tools[t] = manifests[n].spec
                      /\ \A m \in 1..(n - 1) :
                           ~(m \in DOMAIN manifests /\ manifestName(manifests[m]) = t)
    <3>1. CASE t \in DOMAIN inline
      BY <2>3, <2>6, <3>1
    <3>2. CASE t \notin DOMAIN inline
      <4>1. t \in DOMAIN merged /\ tools[t] = merged[t]
        BY <2>3, <2>6, <3>2
      <4>2. PICK n \in DOMAIN manifests :
              /\ manifestName(manifests[n]) = t /\ merged[t] = manifests[n].spec
              /\ \A m \in DOMAIN manifests : manifestName(manifests[m]) = t => n <= m
        BY <2>5, <4>1
      <4>3. \A m \in 1..(n - 1) : ~(m \in DOMAIN manifests /\ manifestName(manifests[m]) = t)
        BY <2>2, <4>2
      <4> QED BY <3>2, <4>1, <4>2, <4>3
    <3> QED BY <3>1, <3>2
  <2> QED BY <2>7, <2>8, <2>9 DEF i, inline, manifests, tools
<1> QED BY <1>1, ProvenanceHolds, PTL
-----------------------------------------------------------------------------
(***************************************************************************)
(* Labels.                                                                 *)
(***************************************************************************)

\* Trimming leaves a part of what there was.
LEMMA TrimPart ==
  ASSUME NEW s \in Seq(Allowed)
  PROVE  Trim(s) \in Seq(Allowed) /\ Len(Trim(s)) <= Len(s)
<1> DEFINE inner == {n \in DOMAIN s : s[n] \notin Separators}
<1>1. CASE inner = {}
  <2>1. <<>> \in Seq(Allowed) /\ Len(<<>>) = 0 /\ Len(s) \in Nat
    OBVIOUS
  <2> QED BY <1>1, <2>1 DEF Trim
<1>2. CASE inner # {}
  <2> DEFINE first == Min(inner)
             last == Max(inner)
  <2>1. inner \in SUBSET (1..Len(s)) /\ inner \in SUBSET Nat /\ Len(s) \in Nat
    OBVIOUS
  <2>2. Trim(s) = SubSeq(s, first, last)
    BY <1>2 DEF Trim
  <2> HIDE DEF inner
  <2>3. first \in 1..Len(s) /\ last \in 1..Len(s)
    BY <1>2, <2>1, LeastIsMin, GreatestIsMax
  <2> HIDE DEF first, last
  <2> QED BY <2>1, <2>2, <2>3
<1> QED BY <1>1, <1>2

\* What is cut off is the end, and only as much as is too long.
LEMMA TruncatePart ==
  ASSUME NEW s \in Seq(Allowed)
  PROVE  /\ IsLabelText(Truncate(s))
         /\ s # <<>> => Truncate(s) # <<>> /\ Truncate(s)[1] = s[1]
<1>1. maxLabelLen \in Nat \ {0} /\ Len(s) \in Nat
  BY LabelAssumption
<1>2. CASE Len(s) <= maxLabelLen
  <2>1. Truncate(s) = s
    BY <1>1, <1>2 DEF Truncate
  <2> QED BY <1>2, <2>1 DEF IsLabelText
<1>3. CASE Len(s) > maxLabelLen
  <2> DEFINE cut == SubSeq(s, 1, maxLabelLen)
  <2>1. cut \in Seq(Allowed) /\ Len(cut) = maxLabelLen /\ cut[1] = s[1]
    BY <1>1, <1>3
  <2>2. Truncate(s) = cut
    BY <1>3 DEF Truncate
  <2>3. cut # <<>>
    BY <1>1, <2>1
  <2> HIDE DEF cut
  <2> QED BY <1>1, <2>1, <2>2, <2>3 DEF IsLabelText
<1> QED BY <1>1, <1>2, <1>3

\* After the replacement there are allowed characters only.
LEMMA ReplacedAllowed ==
  ASSUME NEW T, NEW s \in Seq(T)
  PROVE  ReplaceDisallowed(s) \in Seq(Allowed)
<1> DEFINE kept == {n \in DOMAIN s : s[n] \in Allowed \/ n = 1 \/ s[n - 1] \in Allowed}
           positions == [n \in DOMAIN s |-> n]
           at == Only(positions, kept)
<1>1. positions \in Seq(Nat)
  OBVIOUS
<1> HIDE DEF kept, positions
<1>2. at \in Seq(Nat \cap kept)
  BY <1>1, OnlyType
<1>3. DOMAIN at = 1..Len(at) /\ Len(at) \in Nat
  BY <1>2
<1>4. ReplaceDisallowed(s) = [m \in DOMAIN at |-> IF s[at[m]] \in Allowed THEN s[at[m]] ELSE "-"]
  BY DEF ReplaceDisallowed, at, kept, positions
<1>5. "-" \in Allowed
  BY DEF Allowed, Separators
<1> HIDE DEF at
<1> QED BY <1>3, <1>4, <1>5

\* Any string becomes a label text the service takes.
LEMMA SanitizedText ==
  ASSUME NEW s \in Seq(DOMAIN Lower)
  PROVE  IsLabelText(sanitizeLabelValue(s))
<1> DEFINE lower == [n \in DOMAIN s |-> Lower[s[n]]]
           replaced == ReplaceDisallowed(lower)
<1>1. lower \in Seq({Lower[c] : c \in DOMAIN Lower})
  OBVIOUS
<1>2. replaced \in Seq(Allowed)
  BY <1>1, ReplacedAllowed
<1>3. sanitizeLabelValue(s) = Trim(Truncate(Trim(replaced)))
  BY DEF sanitizeLabelValue
<1> HIDE DEF replaced
<1>4. Trim(replaced) \in Seq(Allowed)
  BY <1>2, TrimPart
<1>5. IsLabelText(Truncate(Trim(replaced)))
  BY <1>4, TruncatePart
<1> DEFINE cut == Truncate(Trim(replaced))
<1>6. cut \in Seq(Allowed) /\ Len(cut) <= maxLabelLen
  BY <1>5 DEF IsLabelText
<1> HIDE DEF cut
<1>7. Trim(cut) \in Seq(Allowed) /\ Len(Trim(cut)) <= Len(cut)
  BY <1>6, TrimPart
<1>8. Len(Trim(cut)) <= maxLabelLen
  BY <1>6, <1>7, LabelAssumption
<1> QED BY <1>3, <1>7, <1>8 DEF IsLabelText, cut

\* Any string of which something is left becomes a label key it takes.
LEMMA SanitizedKey ==
  ASSUME NEW s \in Seq(DOMAIN Lower), sanitizeLabelKey(s) # <<>>
  PROVE  IsLabelKey(sanitizeLabelKey(s))
<1> DEFINE out == sanitizeLabelValue(s)
           prefixed == <<"k">> \o out
<1>1. out \in Seq(Allowed) /\ IsLabelText(out)
  BY SanitizedText DEF IsLabelText
<1>2. sanitizeLabelKey(s) = IF out = <<>> \/ out[1] \in Letters THEN out ELSE Truncate(prefixed)
  BY DEF sanitizeLabelKey
<1> HIDE DEF out
<1>3. CASE out = <<>> \/ out[1] \in Letters
  BY <1>1, <1>2, <1>3 DEF IsLabelKey
<1>4. CASE ~(out = <<>> \/ out[1] \in Letters)
  <2>1. "k" \in Letters /\ "k" \in Allowed
    BY LabelAssumption DEF Allowed
  <2>2. prefixed \in Seq(Allowed) /\ prefixed # <<>> /\ prefixed[1] = "k"
    BY <1>1, <2>1
  <2> HIDE DEF prefixed
  <2> QED BY <1>2, <1>4, <2>1, <2>2, TruncatePart DEF IsLabelKey
<1> QED BY <1>3, <1>4

\* The labels of every engine that exists are within labels.go's constraints; the
\* operator's are all there, under keys of their own, and the ones the engine is found
\* by are as they must be.
THEOREM LabelsHold == Spec => []LabelsKept
<1>1. Provenance => LabelsKept
  <2> SUFFICES ASSUME Provenance, NEW a \in Agents, engine[a] # None
               PROVE  LET i == engine[a].from
                          labels == engine[a].labels
                          managed == managedLabels(i.pack.id, NameOf[a])
                      IN  /\ IsLabelSet(labels)
                          /\ \A k \in DOMAIN labels : IsLabelKey(k) /\ IsLabelText(labels[k])
                          /\ \A k \in DOMAIN managed : labels[k] = managed[k]
                          /\ \A k \in DOMAIN i.config.labels :
                              \/ sanitizeLabelKey(k) \in DOMAIN managed
                              \/ labels[sanitizeLabelKey(k)]
                                   = sanitizeLabelValue(i.config.labels[k])
    BY DEF LabelsKept
  <2>1. PICK i : Applied(i) /\ a \in enumerateAgents(i.pack) /\ engine[a] = buildEngine(i, a)
    BY DEF Provenance
  <2> DEFINE given == i.config.labels
             managed == managedLabels(i.pack.id, NameOf[a])
             user == userLabels(given)
             labels == Over(managed, user)
  <2>2. engine[a].from = i /\ engine[a].labels = labels
    BY <2>1 DEF buildEngine, buildLabels
  <2>12. IsLabelSet(labels)
    BY <2>1 DEF Applied, ServiceTakes, buildLabels
  <2>3. /\ \A k \in DOMAIN given : k \in Seq(DOMAIN Lower) /\ given[k] \in Seq(DOMAIN Lower)
        /\ i.pack.id \in Seq(DOMAIN Lower) /\ NameOf[a] \in Seq(DOMAIN Lower)
    <3>1. WellFormed(i) /\ i.pack.id # None /\ NameOf[a] \in Seq(DOMAIN Lower)
      BY <2>1, HandoffAssumption DEF Applied, ApplyAccepts, gatherApplyInput
    <3> QED BY <3>1 DEF WellFormed
  <2>4. \A k \in DOMAIN given :
          /\ sanitizeLabelKey(k) # <<>>
          /\ \A j \in DOMAIN given : sanitizeLabelKey(j) = sanitizeLabelKey(k) => j = k
    BY <2>1 DEF Applied, ApplyAccepts, Buildable, validateLabels
  <2>5. /\ DOMAIN managed = {LabelPack, LabelAgent, LabelManagedBy}
        /\ \A k \in DOMAIN managed : managed[k] \in
             {ManagedByValue, sanitizeLabelValue(NameOf[a]), sanitizeLabelValue(i.pack.id)}
    BY DEF managedLabels
  <2>6. \A k \in DOMAIN managed : IsLabelKey(k) /\ IsLabelText(managed[k])
    <3>1. IsLabelText(sanitizeLabelValue(NameOf[a])) /\ IsLabelText(sanitizeLabelValue(i.pack.id))
      BY <2>3, SanitizedText
    <3> HIDE DEF managed
    <3> QED BY <2>5, <3>1, LabelAssumption
  <2>7. /\ DOMAIN user = {sanitizeLabelKey(k) : k \in DOMAIN given}
        /\ \A k \in DOMAIN given : user[sanitizeLabelKey(k)] = sanitizeLabelValue(given[k])
    <3>1. DOMAIN user = {sanitizeLabelKey(k) : k \in DOMAIN given}
      BY DEF userLabels
    <3>2. ASSUME NEW k \in DOMAIN given
          PROVE  user[sanitizeLabelKey(k)] = sanitizeLabelValue(given[k])
      <4> DEFINE origin == CHOOSE j \in DOMAIN given : sanitizeLabelKey(j) = sanitizeLabelKey(k)
      <4>1. user[sanitizeLabelKey(k)] = sanitizeLabelValue(given[origin])
        BY DEF userLabels
      <4>2. origin \in DOMAIN given /\ sanitizeLabelKey(origin) = sanitizeLabelKey(k)
        OBVIOUS
      <4> HIDE DEF origin
      <4>3. origin = k
        BY <2>4, <4>2
      <4> QED BY <4>1, <4>3
    <3> QED BY <3>1, <3>2
  <2>8. \A k \in DOMAIN user : IsLabelKey(k) /\ IsLabelText(user[k])
    <3> SUFFICES ASSUME NEW k \in DOMAIN given
                 PROVE  /\ IsLabelKey(sanitizeLabelKey(k))
                        /\ IsLabelText(user[sanitizeLabelKey(k)])
      BY <2>7
    <3>1. IsLabelKey(sanitizeLabelKey(k))
      BY <2>3, <2>4, SanitizedKey
    <3>2. IsLabelText(sanitizeLabelValue(given[k]))
      BY <2>3, SanitizedText
    <3> QED BY <2>7, <3>1, <3>2
  <2>9. /\ DOMAIN labels = DOMAIN managed \cup DOMAIN user
        /\ \A k \in DOMAIN managed : labels[k] = managed[k]
        /\ \A k \in DOMAIN user \ DOMAIN managed : labels[k] = user[k]
    <3> HIDE DEF managed, user
    <3> QED BY DEF Over
  <2> HIDE DEF user, labels
  <2>10. \A k \in DOMAIN labels : IsLabelKey(k) /\ IsLabelText(labels[k])
    <3> HIDE DEF managed
    <3> QED BY <2>6, <2>8, <2>9
  <2>11. ASSUME NEW k \in DOMAIN given
         PROVE  \/ sanitizeLabelKey(k) \in DOMAIN managed
                \/ labels[sanitizeLabelKey(k)] = sanitizeLabelValue(given[k])
    <3> HIDE DEF managed
    <3> QED BY <2>7, <2>9
  <2> QED BY <2>2, <2>9, <2>10, <2>11, <2>12
<1> QED BY <1>1, ProvenanceHolds, PTL
=============================================================================

------------------------------ MODULE MCHandoff ------------------------------
(***************************************************************************)
(* Inputs for Handoff: a good one, and every variation of one aspect of it *)
(* (bindings, labels, tools, the operator's variables and tracing, the     *)
(* rest of the config, the pack) over small sets of values.                *)
(***************************************************************************)
EXTENDS Handoff

\* "A" is an uppercase letter and "." a character no label may have.
MCLower == [c \in {"a", "k", "1", "-", "_", "A", "."} |-> IF c = "A" THEN "a" ELSE c]
MCLetters == {"a", "k"}
MCDigits == {"1"}
MCLabelPack == <<"a", "a">>
MCLabelAgent == <<"a", "k">>
MCLabelManagedBy == <<"k">>
MCManagedByValue == <<"a">>

MCAgents == {1, 2}
MCNameOf == <<<<"a", ".", "1">>, <<"_", "A", "a", "1", "1">>>>

Url == "http://collector"
MCURLs == {Url}
MCGCSBuckets == {"gs://b"}
MCReservedNames ==
    {"PROMPTPACK_PACK_JSON", "PROMPTPACK_PACK_URI", "PROMPTPACK_AGENT", "PROMPTPACK_PROVIDERS",
     "PROMPTPACK_PROJECT", "PROMPTPACK_LOCATION", "PROMPTPACK_TRACING_ENABLED",
     "PROMPTPACK_TOOL_SPECS", "PROMPTPACK_TOOLS"}

\* Binding names in their order: 1 is "alpha", 2 "default", 3 "zeta".
Inline(name, role) ==
    [name |-> name, role |-> role, arena |-> None, type |-> "gemini",
     model |-> <<"m0", "m1", "m2", "m3">>[name + 1]]
Inherited(name, role, id) ==
    [name |-> name, role |-> role, arena |-> id, type |-> "", model |-> ""]

GoodConfig ==
    [project |-> "p", location |-> "l", imageMode |-> "", image |-> "img", bucket |-> "gs://b",
     limit |-> 1, tracing |-> FALSE, endpoint |-> "", min |-> None, max |-> None, concurrency |-> None,
     env |-> <<>>, labels |-> <<>>, providers |-> <<Inline(2, "")>>]

GoodArena ==
    [loaded |-> [p1 |-> [type |-> "claude", model |-> "m11"]],
     specs |-> [p1 |-> [type |-> "claude", model |-> "m12"], p2 |-> [type |-> "llama", model |-> "m13"]],
     tools |-> <<>>, manifests |-> <<>>]

GoodPack == [id |-> <<"a", ".">>, members |-> {1, 2}, prompts |-> {1, 2}, entry |-> 1, size |-> 1,
             typed |-> TRUE]

Good == [config |-> GoodConfig, arena |-> GoodArena, pack |-> GoodPack]

\* Lists of up to two bindings, ill-formed ones among them, and the ones of three in
\* which the default is not an llm binding or comes last.
Bindings ==
    {Inline(n, r) : n \in 1..3, r \in {"", "llm", "tts"}}
    \cup {Inherited(n, "", id) : n \in 1..2, id \in {"p1", "p2"}}
    \cup {Inline(0, ""), Inline(1, "bad"), Inherited(1, "", "gone"), Inherited(3, "", None),
          [Inline(1, "") EXCEPT !.model = ""], [Inline(3, "") EXCEPT !.arena = "p1"]}
BindingLists ==
    {<<>>} \cup {<<b>> : b \in Bindings} \cup (Bindings \X Bindings)
    \cup {<<Inline(3, "llm"), Inline(1, ""), Inline(2, r)>> : r \in {"tts", "llm"}}

\* One label with any key of up to four characters, every pair of short ones, keys
\* that only differ where they are cut off, three labels, which with the
\* managed ones are too many unless one of them has a managed key, and six labels.
Keys == UNION {[1..n -> {"a", "1", "-", "."}] : n \in 1..4}
ShortKeys == UNION {[1..n -> {"a", "A", "1", "."}] : n \in 1..2}
KeySets == {{}} \cup {{k} : k \in Keys} \cup {{j, k} : j \in ShortKeys, k \in ShortKeys}
           \cup {{<<"a", "a", "1", "a">>, <<"a", "a", "1", "1">>},
                 {<<"a">>, <<"1">>, <<"a", "1">>}, {<<"a">>, <<"1">>, <<"a", "a">>},
                 {<<"a">>, <<"1">>, <<"a", "1">>, <<"1", "1">>, <<"a", "1", "1">>,
                  <<"a", "a", "1">>}}

Tool(n, mode) == [n |-> n, mode |-> mode, url |-> "u", decodes |-> TRUE]
ToolSpecs == {Tool(1, "mock"), Tool(1, "live"), [Tool(1, "live") EXCEPT !.url = None],
              Tool(1, "client"), [Tool(1, "mock") EXCEPT !.decodes = FALSE]}
Manifest(spec, meta, tool) ==
    [parses |-> TRUE, specName |-> spec, metaName |-> meta, spec |-> tool]
Manifests ==
    {Manifest("t1", "t2", Tool(2, "mock")), Manifest(None, "t1", Tool(3, "live")),
     Manifest(None, "t1", Tool(4, "client")), Manifest("t2", None, Tool(5, "mock")),
     Manifest(None, None, Tool(6, "mock")), Manifest(None, "t1", None),
     [Manifest("t1", None, Tool(7, "mock")) EXCEPT !.parses = FALSE],
     Manifest("t1", None, [Tool(8, "mock") EXCEPT !.decodes = FALSE])}
Arenas ==
    {[GoodArena EXCEPT !.tools = tools, !.manifests = manifests] :
        tools \in {<<>>} \cup {[t1 |-> s] : s \in ToolSpecs},
        manifests \in {<<>>} \cup (Manifests \X Manifests)}
    \cup {None}

\* What the operator sets: a variable of his own, the exporter's endpoint, names the
\* adapter keeps for itself, a name the platform keeps.
OperatorEnvs ==
    {<<>>, [API_KEY |-> "x"], [OTEL_EXPORTER_OTLP_ENDPOINT |-> "http://other"],
     [PROMPTPACK_TRACING_ENABLED |-> "yes"], [PROMPTPACK_AGENT |-> "x"],
     [GOOGLE_CLOUD_PROJECT |-> "x"]}
Tracings == {<<FALSE, "">>, <<TRUE, "">>, <<TRUE, Url>>, <<FALSE, Url>>, <<TRUE, "collector:4318">>}

ConfigVariations ==
    {[GoodConfig EXCEPT !.providers = bs] : bs \in BindingLists}
    \cup {[GoodConfig EXCEPT !.labels = [k \in ks |-> IF k[1] = "A" THEN <<"1", ".">> ELSE k]] : ks \in KeySets}
    \cup {[GoodConfig EXCEPT !.env = e, !.tracing = t[1], !.endpoint = t[2]] :
            e \in OperatorEnvs, t \in Tracings}
    \cup {[GoodConfig EXCEPT !.project = ""], [GoodConfig EXCEPT !.location = ""],
          [GoodConfig EXCEPT !.image = ""], [GoodConfig EXCEPT !.imageMode = "cloudbuild"],
          [GoodConfig EXCEPT !.bucket = "b"]}
    \cup {[GoodConfig EXCEPT !.min = lo, !.max = hi] :
            lo \in {None, -1, 0, 2}, hi \in {None, 0, 1, 2}}
    \cup {[GoodConfig EXCEPT !.concurrency = n] : n \in {0, 1}}

Packs ==
    {[GoodPack EXCEPT !.id = id, !.members = ms, !.prompts = ps, !.entry = e, !.size = n,
                      !.typed = t] :
        t \in BOOLEAN, id \in {None, <<".">>}, ms \in SUBSET MCAgents, ps \in {{}, {2}},
        e \in {None, 1}, n \in {1, 2}}

MCInputs ==
    {[Good EXCEPT !.config = c] : c \in ConfigVariations}
    \cup {[Good EXCEPT !.arena = a] : a \in Arenas}
    \cup {[Good EXCEPT !.pack = p, !.config.bucket = b, !.config.limit = l] :
            p \in Packs, b \in {"", "gs://b"}, l \in {-1, 1}}

\* The next version of the project: a staged pack, another GCP project, another model,
\* a label and a tool; and one in which the first agent is gone.
Other ==
    [config |-> [GoodConfig EXCEPT !.project = "q", !.labels = (<<"1">> :> <<"A">>),
                                   !.providers = <<Inline(3, "")>>],
     arena |-> [GoodArena EXCEPT !.tools = [t1 |-> Tool(9, "mock")]],
     pack |-> [GoodPack EXCEPT !.size = 2]]
MCEditedInputs == {Other, [Other EXCEPT !.pack.members = {2}]}

\* Agent Runtime tells a container where and which it is; other hosts tell nothing.
MCHosts == {<<>>, [GOOGLE_CLOUD_PROJECT |-> "number", GOOGLE_CLOUD_LOCATION |-> "here",
                   GOOGLE_CLOUD_AGENT_ENGINE_ID |-> "id"]}

\* Lists in which the order of the names and of the list differ.
OrderInputs ==
    {[Good EXCEPT !.config.providers = bs] :
        bs \in {<<Inline(m, "llm"), Inline(n, "llm")>> : m \in 1..3, n \in 1..3}}
=============================================================================

---------------------------- MODULE DeployContract ----------------------------
(***************************************************************************)
(* What the deploy adapter promises the operator, who sees the state the   *)
(* CLI keeps and the engines that run, and nothing in between: which       *)
(* engines a running command may touch, in which order and to what effect, *)
(* and what the state it leaves says about them.  Stopping half way is     *)
(* allowed everywhere; lying about it is not.                              *)
(***************************************************************************)

CONSTANTS
    Agents, Ids, Requests,
    URIs,      \* where packs are staged
    AgentsOf,  \* the agents a pack deploys
    None,      \* no record
    Gone,      \* no engine
    Vanished   \* an engine somebody else deleted

VARIABLES
    stored,   \* the state the CLI keeps: its engines map agents to names
    live,     \* what runs under each name
    op,       \* the command running, or the last one
    req,      \* its pack and config
    running,
    result    \* "none" while a command runs

vars == <<stored, live, op, req, running, result>>

Desired == AgentsOf[req.pack]
Recorded(s) == {a \in Agents : s.engines[a] # None}
Named(s) == {a \in Agents : s.engines[a] \in Ids}

\* Name i has an engine.
Occupied(i) == live[i] \notin {Gone, Vanished}

\* What the request asks of agent a, with its pack at uri.
Wanted(a, uri) ==
    [agent |-> a, pack |-> req.pack, print |-> req.config.print,
     env |-> req.config.env, uri |-> uri]

\* State s says where a runs, and in l it runs there as requested, or did until
\* somebody deleted it.
Delivered(s, l, a) == s.engines[a] \in Ids /\ l[s.engines[a]] \in {Wanted(a, s.uri), Vanished}

\* Agent a runs as requested somewhere, unless somebody deletes engines meanwhile.
Serving(a) ==
    \E i \in Ids : live[i] \in {Wanted(a, uri) : uri \in URIs \cup {None}} \cup {Vanished}

Init ==
    /\ Named(stored) = {}
    /\ live = [i \in Ids |-> Gone]
    /\ op = "none"
    /\ req \in Requests
    /\ ~running
    /\ result = "none"

Start ==
    /\ ~running /\ running'
    /\ op' \in {"plan", "apply", "status", "destroy"}
    /\ req' \in Requests
    /\ result' = "none"
    /\ UNCHANGED <<stored, live>>

\* An apply puts a wanted agent under its own recorded name or a free one, whole.
Deploys(i) ==
    /\ op = "apply"
    /\ \E a \in Desired :
        /\ \/ stored.engines[a] = i
           \/ ~Occupied(i) /\ \A b \in Named(stored) : stored.engines[b] # i
        /\ \E uri \in URIs \cup {None} : live' = [live EXCEPT ![i] = Wanted(a, uri)]

\* It removes engines of agents that left the pack, once those that stay are up.
Retires(i) ==
    /\ op = "apply"
    /\ \E a \in Agents \ Desired : stored.engines[a] = i
    /\ \A a \in Desired : Serving(a)
    /\ live' = [live EXCEPT ![i] = Gone]

\* A destroy removes recorded engines.
Destroys(i) ==
    /\ op = "destroy"
    /\ \E a \in Named(stored) : stored.engines[a] = i
    /\ live' = [live EXCEPT ![i] = Gone]

\* The calls a command makes; plan and status make none that changes anything.
Touch == live' = live \/ \E i \in Ids : Deploys(i) \/ Retires(i) \/ Destroys(i)

Work == running /\ Touch /\ UNCHANGED <<stored, op, req, running, result>>

\* Success: the pack is deployed, and the state says so.
ApplySucceeds ==
    /\ op = "apply" /\ result' = "ok"
    /\ UNCHANGED live
    /\ Recorded(stored') = Desired
    /\ \A a \in Desired : Delivered(stored', live', a)
    /\ stored'.pack = req.pack /\ stored'.print = req.config.print

\* Agents whose engine was recorded, no longer is in s, and is still there in l.
Lost(s, l) ==
    {a \in Named(stored) : /\ s.engines[a] # stored.engines[a]
                           /\ l[stored.engines[a]] \notin {Gone, Vanished}}

\* Failure: every agent is recorded as before, or where it was deployed, or not at
\* all; at most one engine that is still there goes out of sight.
ApplyFails ==
    /\ op = "apply" /\ result' = "error"
    /\ Touch
    /\ \A a \in Agents :
        \/ stored'.engines[a] \in {stored.engines[a], None}
        \/ a \in Desired /\ Delivered(stored', live', a)
    /\ \A a, b \in Lost(stored', live') : a = b

DestroySucceeds ==
    /\ op = "destroy" /\ result' = "ok"
    /\ UNCHANGED live
    /\ \A a \in Named(stored) : ~Occupied(stored.engines[a])
    /\ stored' = stored \/ Recorded(stored') = {}

\* Everything else that ends, by an error or by dying, leaves the state alone.
Stops ==
    /\ \/ op \in {"plan", "status"} /\ result' \in {"ok", "error"}
       \/ op = "destroy" /\ result' = "error"
       \/ result' = "crashed"
    /\ UNCHANGED <<stored, live>>

End ==
    /\ running /\ ~running'
    /\ ApplySucceeds \/ ApplyFails \/ DestroySucceeds \/ Stops
    /\ UNCHANGED <<op, req>>

\* Somebody deletes an engine behind the adapter's back.
Vanish ==
    /\ \E i \in Ids : Occupied(i) /\ live' = [live EXCEPT ![i] = Vanished]
    /\ UNCHANGED <<stored, op, req, running, result>>

Next == Start \/ Work \/ End \/ Vanish

Safety == Init /\ [][Next]_vars
=============================================================================

------------------------------ MODULE MCDeploy ------------------------------
(***************************************************************************)
(* Small instances of Deploy: two agents; a pack small enough to travel    *)
(* inline with both, a large one with the second alone; configs that       *)
(* differ in their fingerprint and in the staging bucket.                  *)
(***************************************************************************)
EXTENDS Deploy, TLC

CONSTANTS both, second, plain, tuned, envA, envB, b1

MCAgents == {1, 2}
MCPacks == {both, second}
MCAgentsOf == (both :> {1, 2}) @@ (second :> {2})
MCPackSize == (both :> 1) @@ (second :> 2)
MCPrints == {plain, tuned}
MCEnvs == {envA, envB}
MCBuckets == {b1}

Config(print, env, bucketName, ok) ==
    [print |-> print, env |-> env, limit |-> 1, bucket |-> bucketName, buildable |-> ok]

\* A good config, one with another fingerprint and no bucket, one whose labels
\* collide and that leaves the inline limit to its default.
AllConfigs == {Config(plain, envA, b1, TRUE), Config(tuned, envA, None, TRUE),
               [Config(plain, envA, b1, FALSE) EXCEPT !.limit = 0]}
GoodConfigs == {Config(plain, envA, b1, TRUE),
                [Config(tuned, envA, b1, TRUE) EXCEPT !.limit = 0]}
OneConfig == {Config(plain, envA, b1, TRUE)}

AllCommands == {"plan", "apply", "status", "destroy"}
AllFaults == {"api", "lookup", "callback", "crash", "outofband"}
ChangingCommands == {"apply", "destroy"}
RecoverableFaults == {"api", "crash", "outofband"}
CallbackFaults == {"callback"}
ApiFaults == {"api"}
CrashFaults == {"crash"}

NoAgents == {}
OneAgent == {1}

IdSymmetry == Permutations(Ids)
=============================================================================

------------------------ MODULE DeployContractProofs ------------------------
(***************************************************************************)
(* Deploy implements DeployContract, for any agents, packs, configs,       *)
(* engine names and faults except a failing callback.  Steps that only     *)
(* prepare stutter, calls map to Work, and whatever ends a command maps to *)
(* End.  Then what plan, status and destroy report.                        *)
(***************************************************************************)
EXTENDS DeployProgressProofs

\* Once the engines of the pack are up, an agent that left it is on record as it was
\* before the apply, or no more; and the other loops belong to their commands.
Bookkeeping ==
    /\ pc = "remove" =>
        \A a \in Agents \ Desired : next.engines[a] \in {stored.engines[a], None}
    /\ pc = "probe" => op \in {"plan", "status"}
    /\ pc = "destroy" => op = "destroy"

\* What the invariants say of one state.
Invariants ==
    /\ TypeOK /\ Control /\ RecordsOwnEngines /\ NamesApart
    /\ Phase /\ Progress /\ Tracking /\ Bookkeeping

\* No step of any command changes a retired agent's record except to drop it.
LEMMA BookkeepingStep ==
  ASSUME TypeOK, Control, Bookkeeping, [Next]_vars
  PROVE  Bookkeeping'
<1> USE ConstantsAssumption
<1>1. ASSUME pc' \notin {"remove", "probe", "destroy"} PROVE Bookkeeping'
  BY <1>1 DEF Bookkeeping
<1>2. ASSUME UNCHANGED <<stored, next, req, op, pc>> PROVE Bookkeeping'
  BY <1>2 DEF Bookkeeping, Desired
<1>3. CASE StartRemoving
  BY <1>3 DEF StartRemoving, Bookkeeping, Control, Desired
<1>4. ASSUME NEW a \in Agents, RemoveEngine(a) PROVE Bookkeeping'
  <2>1. /\ pc = "remove" /\ pc' = "remove" /\ req' = req /\ stored' = stored
        /\ \A b \in Agents : next'.engines[b] = IF b = a THEN None ELSE next.engines[b]
    BY <1>4 DEF RemoveEngine, TypeOK, State
  <2> QED BY <2>1 DEF Bookkeeping, Desired
<1>5. CASE UNCHANGED vars
  BY <1>2, <1>5 DEF vars
<1>6. ASSUME NEW i \in Ids, OutOfBandDelete(i) PROVE Bookkeeping'
  BY <1>2, <1>6 DEF OutOfBandDelete
<1>7. CASE StartStatus \/ StartDestroy \/ \E r \in Request : StartPlan(r)
  BY <1>7 DEF StartStatus, StartDestroy, StartPlan, Begin, StartProbing, Bookkeeping
<1>8. ASSUME NEW a \in Agents,
             Probe(a) \/ ProbeFails(a) \/ DestroyEngine(a) \/ DestroyEngineFails(a)
      PROVE  Bookkeeping'
  BY <1>2, <1>8 DEF Probe, ProbeFails, Saw, DestroyEngine, DestroyEngineFails
<1> QED
  BY <1>1, <1>3, <1>4, <1>5, <1>6, <1>7, <1>8
  DEF Next, Operator, Step, Trouble, StartApply, Begin, StagePack, Staged, StagePackRefused, StagePackFails, CreateEngine,
      UpdateEngine, Deployed, UpdateFindsNothing, BuildFails, CreateRefused, CreateFails,
      UpdateFails, DeployFailed, FinishApply, FinishProbing, FinishDestroy, NoClient, Crash,
      RemoveRefused, RemoveFails, DestroyCallbackFails, Return

\* The invariants hold throughout.
LEMMA InvariantsHold == Spec => []Invariants
<1>1. Init => Bookkeeping
  BY DEF Init, Bookkeeping
<1>2. TypeOK /\ Control /\ Bookkeeping /\ [Next]_vars => Bookkeeping'
  BY BookkeepingStep
<1> QED
  BY <1>1, <1>2, TypeCorrect, ControlCorrect, OwnershipHolds, ProgressHolds, TrackingHolds, PTL
  DEF Spec, Invariants
-----------------------------------------------------------------------------
(***************************************************************************)
(* The terms of the contract in the terms of the adapter.                  *)
(***************************************************************************)

\* The contract's words and the adapter's mean the same.
LEMMA SameWords ==
  ASSUME TypeOK
  PROVE  /\ Contract!Desired = Desired /\ Desired \subseteq Agents
         /\ \A i \in Ids : Contract!Occupied(i) <=> Exists(i)
         /\ \A a, uri : Contract!Wanted(a, uri) = EngineFor(req, a, uri)
         /\ \A s : Contract!Recorded(s) = Recorded(s) /\ Contract!Named(s) = Named(s)
<1> USE ConstantsAssumption, SentinelsAssumption
<1>1. Contract!Desired = Desired /\ Desired \subseteq Agents
  BY DEF Contract!Desired, Desired, TypeOK, Request
<1>2. \A i \in Ids : Contract!Occupied(i) <=> Exists(i)
  BY DEF Contract!Occupied, Exists, TypeOK
<1>3. \A a, uri : Contract!Wanted(a, uri) = EngineFor(req, a, uri)
  BY DEF Contract!Wanted, EngineFor
<1>4. \A s : Contract!Recorded(s) = Recorded(s) /\ Contract!Named(s) = Named(s)
  BY DEF Contract!Recorded, Recorded, Contract!Named, Named
<1> QED BY <1>1, <1>2, <1>3, <1>4

\* An agent deployed in the adapter's sense is delivered in the contract's.
LEMMA DeployedIsDelivered ==
  ASSUME NEW a, NEW s, NEW l, req' = req,
         s.engines[a] \in Ids, l[s.engines[a]] \in {EngineFor(req, a, s.uri), Vanished}
  PROVE  Contract!Delivered(s, l, a)
  BY DEF Contract!Delivered, Contract!Wanted, EngineFor

\* An apply's create or update of one engine is a call the contract allows.
LEMMA DeployingIsAllowed ==
  ASSUME TypeOK, op = "apply", NEW a \in Agents, a \in Desired, NEW i \in Ids,
         stored.engines[a] = i \/ Fresh(i),
         live' = [live EXCEPT ![i] = buildEngine(a)]
  PROVE  Contract!Touch
<1> USE ConstantsAssumption, SentinelsAssumption
<1>1. next.uri \in URIs \cup {None} /\ buildEngine(a) = Contract!Wanted(a, next.uri)
  BY SameWords DEF TypeOK, State, buildEngine, EngineFor
<1>2. \/ stored.engines[a] = i
      \/ ~Contract!Occupied(i) /\ \A b \in Contract!Named(stored) : stored.engines[b] # i
  BY SameWords DEF Fresh, IdsOf
<1>3. Contract!Deploys(i)
  BY <1>1, <1>2, SameWords DEF Contract!Deploys
<1> QED BY <1>3 DEF Contract!Touch

\* An apply's delete of a retired agent's engine is a call the contract allows.
LEMMA RetiringIsAllowed ==
  ASSUME Invariants, pc = "remove", NEW a \in Agents, a \in todo,
         next.engines[a] \in Ids, live' \in {live, Deleted(next.engines[a])}
  PROVE  Contract!Touch
<1> USE ConstantsAssumption, SentinelsAssumption DEF Invariants
<1>1. CASE live' = live
  BY <1>1 DEF Contract!Touch
<1>2. CASE live' # live
  <2>1. a \in Agents \ Desired /\ stored.engines[a] = next.engines[a]
    BY DEF Control, Bookkeeping
  <2>2. live' = [live EXCEPT ![next.engines[a]] = Gone]
    BY <1>2 DEF Deleted, TypeOK, Exists
  <2>3. ASSUME NEW b \in Desired PROVE Contract!Serving(b)
    <3>1. /\ next.uri \in URIs \cup {None}
          /\ next.engines[b] \in Ids
          /\ live[next.engines[b]] \in {EngineFor(req, b, next.uri), Vanished}
      BY DEF Progress, Building, IsDeployed, TypeOK, State
    <3> QED BY <3>1, SameWords DEF Contract!Serving
  <2>4. op = "apply"
    BY DEF Control
  <2>5. Contract!Retires(next.engines[a])
    BY <2>1, <2>2, <2>3, <2>4, SameWords DEF Contract!Retires
  <2> QED BY <2>5 DEF Contract!Touch
<1> QED BY <1>1, <1>2

\* A destroy's delete of a recorded engine is a call the contract allows.
LEMMA DestroyingIsAllowed ==
  ASSUME TypeOK, op = "destroy", NEW a \in Agents, stored.engines[a] \in Ids,
         live' \in {live, Deleted(stored.engines[a])}
  PROVE  Contract!Touch
<1> USE SentinelsAssumption
<1>1. CASE live' = live
  BY <1>1 DEF Contract!Touch
<1>2. CASE live' # live
  <2>1. live' = [live EXCEPT ![stored.engines[a]] = Gone]
    BY <1>2 DEF Deleted, TypeOK, Exists
  <2>2. Contract!Destroys(stored.engines[a])
    BY <2>1, SameWords DEF Contract!Destroys, Named
  <2> QED BY <2>2 DEF Contract!Touch
<1> QED BY <1>1, <1>2
-----------------------------------------------------------------------------
(***************************************************************************)
(* How a command ends.                                                     *)
(***************************************************************************)

\* An apply that stops at an agent returns what the contract allows a failed one.
LEMMA StoppingIsAllowed ==
  ASSUME Invariants, NEW a \in Agents,
         BuildFails(a) \/ CreateRefused(a) \/ CreateFails(a) \/ UpdateFails(a)
  PROVE  Contract!End
<1> USE ConstantsAssumption, SentinelsAssumption DEF Invariants
<1>1. /\ pc \in {"deploy", "recreate"} /\ op = "apply" /\ DeployFailed(a)
      /\ pc' = "idle" /\ result' = "error" /\ UNCHANGED <<op, req>>
  BY DEF BuildFails, CreateRefused, CreateFails, UpdateFails, Creating, Updating,
     DeployFailed, Return, Control
<1>2. /\ a \in todo
      /\ \A b \in Desired \ todo : IsDeployed(stored, req, b)'
      /\ \A b \in (Agents \ Desired) \cup (todo \ {a}) :
           stored'.engines[b] = stored.engines[b]
  BY <1>1, FailureStep
<1>3. a \in Desired /\ todo \subseteq Desired /\ Desired \subseteq Agents
  BY <1>1, <1>2, SameWords DEF Control
<1>4. /\ stored'.engines[a] = None
      /\ \A b \in Agents : b # a => stored'.engines[b] = next.engines[b]
  BY <1>1 DEF DeployFailed, Return, TypeOK, State
<1>5. /\ Contract!Touch
      /\ \A i \in Ids : live'[i] = live[i] \/ Fresh(i) \/ i = stored.engines[a]
  <2>1. CASE live' = live
    BY <2>1 DEF Contract!Touch
  <2>2. CASE live' # live
    <3>1. PICK i \in Ids : /\ stored.engines[a] = i \/ Fresh(i)
                           /\ live' = [live EXCEPT ![i] = buildEngine(a)]
      BY <2>2 DEF BuildFails, CreateRefused, CreateFails, UpdateFails, Updating
    <3>2. Contract!Touch
      BY <1>1, <1>3, <3>1, DeployingIsAllowed
    <3> QED BY <3>1, <3>2 DEF TypeOK
  <2> QED BY <2>1, <2>2
<1>6. ASSUME NEW b \in Agents
      PROVE  \/ stored'.engines[b] \in {stored.engines[b], None}
             \/ b \in Contract!Desired /\ Contract!Delivered(stored', live', b)
  <2>1. CASE b \in Desired \ todo
    BY <1>1, <1>2, <2>1, SameWords, DeployedIsDelivered DEF IsDeployed, EngineFor
  <2> QED BY <1>2, <1>4, <2>1
<1>7. Contract!Lost(stored', live') \subseteq {a}
  <2> SUFFICES ASSUME NEW b \in Named(stored), b # a,
                      stored'.engines[b] # stored.engines[b]
               PROVE  live'[stored.engines[b]] \in {Gone, Vanished}
    BY SameWords DEF Contract!Lost
  <2>1. b \in Agents /\ stored.engines[b] \in Ids /\ next.engines[b] # stored.engines[b]
    BY <1>4 DEF Named
  <2>2. ~Exists(stored.engines[b])
    BY <1>1, <2>1 DEF Tracking
  <2>3. ~Fresh(stored.engines[b])
    BY DEF Fresh, IdsOf
  <2>4. stored.engines[b] # stored.engines[a]
    BY <2>1 DEF RecordsOwnEngines, OwnEngines, Named
  <2> QED BY <1>5, <2>1, <2>2, <2>3, <2>4 DEF Exists, TypeOK
<1> QED
  <2>1. \A b, c \in Contract!Lost(stored', live') : b = c
    BY <1>7
  <2>2. Contract!ApplyFails
    BY <1>1, <1>5, <1>6, <2>1 DEF Contract!ApplyFails
  <2> QED BY <1>1, <2>2 DEF Contract!End

\* An apply that stops while removing returns what the contract allows a failed one.
LEMMA StoppingAtRemovalIsAllowed ==
  ASSUME Invariants, NEW a \in Agents, RemoveFails(a) \/ RemoveRefused(a)
  PROVE  Contract!End
<1> USE ConstantsAssumption, SentinelsAssumption DEF Invariants
<1>1. /\ pc = "remove" /\ op = "apply" /\ a \in todo /\ stored' = next
      /\ pc' = "idle" /\ result' = "error" /\ UNCHANGED <<op, req>>
  BY DEF RemoveFails, RemoveRefused, IsNext, Return, Control
<1>2. \/ live' = live
      \/ next.engines[a] \in Ids /\ live' = Deleted(next.engines[a])
  BY DEF RemoveFails, RemoveRefused
<1>3. Contract!Touch
  BY <1>1, <1>2, RetiringIsAllowed DEF Contract!Touch
<1>4. \A i \in Ids : live'[i] = live[i] \/ (live'[i] = Gone /\ i = next.engines[a])
  BY <1>2 DEF Deleted, TypeOK
<1>5. ASSUME NEW b \in Agents
      PROVE  \/ stored'.engines[b] \in {stored.engines[b], None}
             \/ b \in Contract!Desired /\ Contract!Delivered(stored', live', b)
  <2>1. CASE b \notin Desired
    BY <1>1, <2>1 DEF Bookkeeping
  <2>2. CASE b \in Desired
    <3>1. IsDeployed(next, req, b) /\ a \notin Desired
      BY <1>1, <2>2 DEF Progress, Building, Control
    <3>2. live'[next.engines[b]] = live[next.engines[b]]
      BY <1>4, <2>2, <3>1 DEF IsDeployed, RecordsOwnEngines, OwnEngines, Named
    <3> QED BY <1>1, <2>2, <3>1, <3>2, SameWords, DeployedIsDelivered DEF IsDeployed
  <2> QED BY <2>1, <2>2
<1>6. Contract!Lost(stored', live') = {}
  <2> SUFFICES ASSUME NEW b \in Named(stored), next.engines[b] # stored.engines[b]
               PROVE  live'[stored.engines[b]] \in {Gone, Vanished}
    BY <1>1, SameWords DEF Contract!Lost
  <2>1. ~Exists(stored.engines[b]) /\ stored.engines[b] \in Ids
    BY <1>1 DEF Tracking, Named
  <2> QED BY <1>4, <2>1 DEF Exists, TypeOK
<1> QED
  <2>1. Contract!ApplyFails
    BY <1>1, <1>3, <1>5, <1>6 DEF Contract!ApplyFails
  <2> QED BY <1>1, <2>1 DEF Contract!End

\* An apply that ends well leaves what the contract promises.
LEMMA FinishingIsAllowed ==
  ASSUME Invariants, FinishApply
  PROVE  Contract!End
<1> USE ConstantsAssumption, SentinelsAssumption DEF Invariants
<1>1. /\ pc = "remove" /\ op = "apply" /\ todo = {} /\ stored' = next /\ live' = live
      /\ pc' = "idle" /\ result' = "ok" /\ UNCHANGED <<op, req>>
      /\ next.pack = req.pack /\ next.print = req.config.print
  BY DEF FinishApply, Return, Control
<1>2. \A a \in Desired : IsDeployed(next, req, a)
  BY <1>1 DEF Progress, Building
<1>3. Recorded(next) = Desired
  <2>1. Desired \subseteq Recorded(next)
    BY <1>2, SameWords DEF Recorded, IsDeployed
  <2> QED BY <1>1, <2>1 DEF Control
<1>4. \A a \in Desired : Contract!Delivered(stored', live', a)
  BY <1>1, <1>2, DeployedIsDelivered DEF IsDeployed
<1>5. Contract!ApplySucceeds
  BY <1>1, <1>3, <1>4, SameWords DEF Contract!ApplySucceeds
<1> QED BY <1>1, <1>5 DEF Contract!End

\* The other ends: a destroy that is through, a plan or a status, a refused staging,
\* a dead process.
LEMMA EndingIsAllowed ==
  ASSUME Invariants,
         \/ FinishDestroy \/ FinishProbing \/ NoClient
         \/ StagePackRefused \/ StagePackFails \/ Crash
  PROVE  Contract!End
<1> USE ConstantsAssumption, SentinelsAssumption DEF Invariants
<1>1. CASE FinishDestroy
  <2>1. /\ pc = "destroy" /\ todo = {} /\ pc' = "idle" /\ UNCHANGED <<op, req, live>>
        /\ \/ result = "none" /\ result' = "ok" /\ stored' \in {stored, newState}
           \/ result = "error" /\ result' = "error" /\ stored' = stored
    BY <1>1 DEF FinishDestroy, Return
  <2>2. Recorded(newState) = {}
    BY DEF Recorded, newState
  <2>3. ASSUME result = "none" PROVE \A a \in Named(stored) : ~Exists(stored.engines[a])
    BY <2>1, <2>3 DEF Tracking
  <2> QED
    <3>1. op = "destroy" /\ op' = op
      BY <2>1 DEF Bookkeeping
    <3>2. CASE result = "none"
      <4>1. \A a \in Contract!Named(stored) : ~Contract!Occupied(stored.engines[a])
        <5> SUFFICES ASSUME NEW a \in Contract!Named(stored)
                     PROVE  ~Contract!Occupied(stored.engines[a])
          OBVIOUS
        <5>1. a \in Named(stored) /\ stored.engines[a] \in Ids
          BY SameWords DEF Named
        <5>2. ~Exists(stored.engines[a])
          BY <2>3, <3>2, <5>1
        <5> QED BY <5>1, <5>2, SameWords
      <4>2. stored' = stored \/ Contract!Recorded(stored') = {}
        BY <2>1, <2>2, <3>2, SameWords
      <4>3. Contract!DestroySucceeds
        BY <2>1, <3>1, <3>2, <4>1, <4>2 DEF Contract!DestroySucceeds
      <4> QED BY <2>1, <4>3 DEF Contract!End
    <3>3. CASE result = "error"
      BY <2>1, <3>1, <3>3 DEF Contract!End, Contract!Stops
    <3> QED BY <2>1, <3>2, <3>3
<1>2. CASE FinishProbing \/ NoClient
  BY <1>2 DEF FinishProbing, NoClient, Return, Bookkeeping, Contract!End, Contract!Stops
<1>3. CASE StagePackRefused \/ StagePackFails
  <2>1. /\ pc = "stage" /\ op = "apply" /\ pc' = "idle" /\ result' = "error"
        /\ UNCHANGED <<stored, live, op, req>>
    BY <1>3 DEF StagePackRefused, StagePackFails, Return, Control
  <2>2. Contract!ApplyFails
    BY <2>1 DEF Contract!ApplyFails, Contract!Touch, Contract!Lost
  <2> QED BY <2>1, <2>2 DEF Contract!End
<1>4. CASE Crash
  BY <1>4 DEF Crash, Return, Contract!End, Contract!Stops
<1> QED BY <1>1, <1>2, <1>3, <1>4
-----------------------------------------------------------------------------
\* Every step of the adapter is one of the contract or invisible to it.
LEMMA ContractStep ==
  ASSUME Invariants, [Next]_vars, "callback" \notin FaultKinds
  PROVE  [Contract!Next]_(Contract!vars)
<1> USE ConstantsAssumption, SentinelsAssumption DEF Invariants
<1>1. ASSUME UNCHANGED <<stored, live, op, req>>, pc # "idle", pc' # "idle"
      PROVE  UNCHANGED Contract!vars
  BY <1>1 DEF Contract!vars
<1>2. ASSUME Contract!Touch, UNCHANGED <<stored, op, req>>, pc # "idle", pc' # "idle"
      PROVE  Contract!Next
  BY <1>2 DEF Contract!Next, Contract!Work
<1>3. CASE StartStatus \/ StartDestroy \/ \E r \in Request : StartApply(r) \/ StartPlan(r)
  <2>1. Contract!Start
    BY <1>3 DEF StartStatus, StartDestroy, StartApply, StartPlan, Begin, StartProbing,
       Contract!Start, TypeOK
  <2> QED BY <2>1 DEF Contract!Next
<1>4. CASE \/ StagePack \/ StartRemoving \/ UNCHANGED vars
           \/ \E a \in Agents : UpdateFindsNothing(a) \/ Probe(a) \/ ProbeFails(a)
  BY <1>1, <1>4 DEF StagePack, Staged, StartRemoving, UpdateFindsNothing, Updating, Probe,
     ProbeFails, Saw, vars, Contract!vars
<1>5. ASSUME NEW a \in Agents, CreateEngine(a) \/ UpdateEngine(a)
      PROVE  Contract!Next
  <2>1. PICK i \in Ids : (stored.engines[a] = i \/ Fresh(i)) /\ Deployed(a, i)
    BY <1>5 DEF CreateEngine, UpdateEngine, Updating
  <2>2. pc \in {"deploy", "recreate"} /\ a \in todo
    BY <1>5 DEF CreateEngine, Creating, UpdateEngine, Updating, IsNext
  <2>3. op = "apply" /\ a \in Desired
    BY <2>2 DEF Control
  <2> QED BY <1>2, <2>1, <2>2, <2>3, DeployingIsAllowed DEF Deployed
<1>6. ASSUME NEW a \in Agents, RemoveEngine(a) PROVE Contract!Next
  BY <1>2, <1>6, RetiringIsAllowed DEF RemoveEngine, IsNext
<1>7. ASSUME NEW a \in Agents, DestroyEngine(a) \/ DestroyEngineFails(a)
      PROVE  Contract!Next
  <2>1. /\ pc = "destroy" /\ op = "destroy" /\ pc' = pc /\ UNCHANGED <<stored, op, req>>
    BY <1>7 DEF DestroyEngine, DestroyEngineFails, Destroying, Bookkeeping
  <2>2. \/ live' = live
        \/ stored.engines[a] \in Ids /\ live' \in {live, Deleted(stored.engines[a])}
    BY <1>7 DEF DestroyEngine, DestroyEngineFails
  <2>3. Contract!Touch
    BY <2>1, <2>2, DestroyingIsAllowed DEF Contract!Touch
  <2> QED BY <1>2, <2>1, <2>3
<1>8. CASE \/ StagePackRefused \/ StagePackFails \/ FinishApply \/ FinishProbing
           \/ FinishDestroy \/ NoClient \/ Crash
           \/ \E a \in Agents :
                \/ BuildFails(a) \/ CreateRefused(a) \/ CreateFails(a) \/ UpdateFails(a)
                \/ RemoveFails(a) \/ RemoveRefused(a)
  <2>1. Contract!End
    BY <1>8, FinishingIsAllowed, EndingIsAllowed, StoppingIsAllowed, StoppingAtRemovalIsAllowed
  <2> QED BY <2>1 DEF Contract!Next
<1>9. ASSUME NEW i \in Ids, OutOfBandDelete(i) PROVE Contract!Next
  <2>1. Contract!Vanish
    BY <1>9, SameWords DEF OutOfBandDelete, Contract!Vanish
  <2> QED BY <2>1 DEF Contract!Next
<1>10. ASSUME NEW a \in Agents PROVE ~DestroyCallbackFails(a)
  BY DEF DestroyCallbackFails, Fault
<1> QED
  BY <1>3, <1>4, <1>5, <1>6, <1>7, <1>8, <1>9, <1>10 DEF Next, Operator, Step, Trouble

\* While no callback fails, the adapter keeps its promise to the operator: which
\* engines a command touches and when, and what the state it leaves says of them.
THEOREM AdapterKeepsContract ==
  ASSUME "callback" \notin FaultKinds
  PROVE  Spec => ImplementsContract
<1>1. Init => Contract!Init
  BY SentinelsAssumption DEF Init, Contract!Init, Contract!Named, newState
<1>2. Invariants /\ [Next]_vars => [Contract!Next]_(Contract!vars)
  BY ContractStep
<1> QED
  BY <1>1, <1>2, InvariantsHold, PTL DEF Spec, ImplementsContract, Contract!Safety
-----------------------------------------------------------------------------
(***************************************************************************)
(* What the commands that only look, and Destroy, report.                  *)
(***************************************************************************)
\* What a plan or a status has seen of an engine stays true of it until the next
\* command: nothing creates engines meanwhile, and somebody who deletes one behind
\* the adapter's back leaves a mark.
Sightings ==
    op \in {"plan", "status"} =>
        \A a \in Agents :
            /\ seen[a] = "no" => a \in Named(stored) /\ ~Exists(stored.engines[a])
            /\ seen[a] = "yes" => a \in Named(stored) /\ live[stored.engines[a]] # Gone
            /\ a \in todo /\ pc = "probe" => a \in Named(stored)

\* Every step keeps what was seen true.
LEMMA SightingsStep ==
  ASSUME TypeOK, Control, Bookkeeping, Sightings, [Next]_vars
  PROVE  Sightings'
<1> USE ConstantsAssumption, SentinelsAssumption
<1>1. ASSUME op' \notin {"plan", "status"} PROVE Sightings'
  BY <1>1 DEF Sightings
<1>2. CASE StartStatus \/ \E r \in Request : StartPlan(r)
  BY <1>2 DEF StartStatus, StartPlan, Begin, StartProbing, Sightings, Named
<1>3. ASSUME NEW a \in Agents, Probe(a) \/ ProbeFails(a) PROVE Sightings'
  <2>1. PICK answer \in {"yes", "no", "unknown"} :
          /\ Saw(a, answer)
          /\ answer = "yes" => Exists(stored.engines[a])
          /\ answer = "no" => ~Exists(stored.engines[a])
    BY <1>3 DEF Probe, ProbeFails
  <2>2. /\ op \in {"plan", "status"} /\ a \in todo /\ pc = "probe"
        /\ UNCHANGED <<stored, live, op, pc>> /\ todo' = todo \ {a}
        /\ \A b \in Agents : seen'[b] = IF b = a THEN answer ELSE seen[b]
    BY <2>1 DEF Saw, IsNext, Bookkeeping, TypeOK
  <2>3. a \in Named(stored)
    BY <2>2 DEF Sightings
  <2> QED BY <2>1, <2>2, <2>3 DEF Sightings, Exists, Named
<1>4. CASE FinishProbing \/ NoClient \/ Crash
  BY <1>4 DEF FinishProbing, NoClient, Crash, Return, Sightings, Named, Exists
<1>5. ASSUME NEW i \in Ids, OutOfBandDelete(i) PROVE Sightings'
  <2>1. \A j \in Ids : live'[j] = IF j = i THEN Vanished ELSE live[j]
    BY <1>5 DEF OutOfBandDelete, TypeOK
  <2> QED BY <1>5, <2>1 DEF OutOfBandDelete, Sightings, Named, Exists
<1>6. CASE UNCHANGED vars
  BY <1>6 DEF vars, Sightings, Named, Exists
<1>7. CASE pc \in {"stage", "deploy", "recreate", "remove", "destroy"} /\ op' = op
  BY <1>1, <1>7 DEF Control, Bookkeeping
<1>8. CASE StartDestroy \/ \E r \in Request : StartApply(r)
  BY <1>1, <1>8 DEF StartDestroy, StartApply, Begin
<1> QED
  BY <1>2, <1>3, <1>4, <1>5, <1>6, <1>7, <1>8
  DEF Next, Operator, Step, Trouble, StagePack, Staged, StagePackRefused, StagePackFails,
      CreateEngine, UpdateEngine, Creating, Updating, Deployed, UpdateFindsNothing, BuildFails,
      CreateRefused, CreateFails, UpdateFails, DeployFailed, StartRemoving, RemoveEngine,
      RemoveRefused, RemoveFails, FinishApply, FinishDestroy, DestroyEngine,
      DestroyEngineFails, DestroyCallbackFails, Destroying, Return

\* What was seen holds until the next command.
LEMMA SightingsHold == Spec => []Sightings
<1>1. Init => Sightings
  BY DEF Init, Sightings
<1>2. TypeOK /\ Control /\ Bookkeeping /\ Sightings /\ [Next]_vars => Sightings'
  BY SightingsStep
<1>3. Invariants => TypeOK /\ Control /\ Bookkeeping
  BY DEF Invariants
<1> QED BY <1>1, <1>2, <1>3, InvariantsHold, PTL DEF Spec

\* Plan and Status report an engine absent only when it is: a lookup that fails is
\* never taken for evidence of absence.
THEOREM AbsenceIsEvidence == Spec => []AbsenceConfirmed
<1>1. TypeOK /\ Sightings => AbsenceConfirmed
  BY DEF TypeOK, State, Sightings, AbsenceConfirmed, Drift, Recorded, Named, engineStatus
<1> QED BY <1>1, TypeCorrect, SightingsHold, PTL

\* A status of "deployed" was computed from a sighting of every recorded engine.
THEOREM DeployedWasSeen == Spec => []StatusDeployedMeansFound
<1>1. TypeOK /\ Sightings => StatusDeployedMeansFound
  <2> SUFFICES ASSUME TypeOK, Sightings, op = "status", aggregateStatus = "deployed",
                      NEW a \in Recorded(stored)
               PROVE  stored.engines[a] \in Ids /\ live[stored.engines[a]] # Gone
    BY DEF StatusDeployedMeansFound
  <2>1. a \in Agents /\ engineStatus(a) = "healthy"
    BY DEF aggregateStatus, Recorded
  <2>2. stored.engines[a] # Nameless /\ seen[a] = "yes"
    BY <2>1 DEF engineStatus
  <2> QED BY <2>1, <2>2 DEF Sightings, Named
<1> QED BY <1>1, TypeCorrect, SightingsHold, PTL

\* A destroy that returns an error has attempted every recorded engine.
THEOREM DestroyIsThorough == Spec => DestroyAttemptsAll
<1>1. [Next]_vars =>
        [op = "destroy" /\ pc = "destroy" /\ result' = "error" /\ pc' = "idle" => todo = {}]_vars
  BY DEF Next, Operator, Step, Trouble, vars, StartApply, StartPlan, StartStatus, StartDestroy,
     Begin, StagePack, Staged, StagePackRefused, StagePackFails, CreateEngine, UpdateEngine,
     Creating, Updating, Deployed, UpdateFindsNothing, BuildFails, CreateRefused, CreateFails,
     UpdateFails, StartRemoving, RemoveEngine, RemoveRefused, RemoveFails, FinishApply,
     FinishProbing, NoClient, Probe, ProbeFails, Saw, FinishDestroy, DestroyEngine,
     DestroyEngineFails, DestroyCallbackFails, Destroying, Crash, OutOfBandDelete, Return
<1> QED BY <1>1, PTL DEF Spec, DestroyAttemptsAll

\* While no callback fails, a destroy that reports success has deleted every engine on
\* record, whatever else failed, was deleted by hand or was in flight.
THEOREM DestroysAreComplete ==
  ASSUME "callback" \notin FaultKinds
  PROVE  Spec => DestroyedMeansGone
<1>1. Invariants /\ [Next]_vars =>
        [op = "destroy" /\ pc = "destroy" /\ result' = "ok" =>
            \A a \in Named(stored) : live'[stored.engines[a]] \notin Engine]_vars
  <2> SUFFICES ASSUME Invariants, Next, pc = "destroy", result' = "ok", NEW a \in Named(stored)
               PROVE  live'[stored.engines[a]] \notin Engine
    OBVIOUS
  <2>1. result # "ok"
    BY DEF Invariants, Phase
  <2>2. ASSUME NEW b \in Agents
        PROVE  /\ ~(CreateEngine(b) \/ UpdateEngine(b) \/ UpdateFindsNothing(b) \/ BuildFails(b))
               /\ ~(CreateRefused(b) \/ CreateFails(b) \/ UpdateFails(b))
               /\ ~(RemoveEngine(b) \/ RemoveRefused(b) \/ RemoveFails(b))
               /\ ~(Probe(b) \/ ProbeFails(b))
    <3>1. ~Creating(b) /\ ~Updating(b)
      BY DEF Creating, Updating
    <3>2. ~(CreateEngine(b) \/ CreateRefused(b) \/ CreateFails(b))
      BY <3>1 DEF CreateEngine, CreateRefused, CreateFails
    <3>3. ~(UpdateEngine(b) \/ UpdateFindsNothing(b) \/ UpdateFails(b) \/ BuildFails(b))
      BY <3>1 DEF UpdateEngine, UpdateFindsNothing, UpdateFails, BuildFails
    <3>4. ~(RemoveEngine(b) \/ RemoveRefused(b) \/ RemoveFails(b) \/ Probe(b) \/ ProbeFails(b))
      BY DEF RemoveEngine, RemoveRefused, RemoveFails, Probe, ProbeFails, Saw
    <3> QED BY <3>2, <3>3, <3>4
  <2>3. ASSUME NEW b \in Agents
        PROVE  ~(DestroyEngine(b) \/ DestroyEngineFails(b) \/ DestroyCallbackFails(b))
    BY <2>1 DEF DestroyEngine, DestroyEngineFails, DestroyCallbackFails, Fault
  <2>4. ~Operator
    BY DEF Operator, StartApply, StartPlan, StartStatus, StartDestroy, StartProbing, Begin
  <2>5. /\ ~(StagePack \/ StagePackRefused \/ StagePackFails \/ StartRemoving \/ FinishApply)
        /\ ~(FinishProbing \/ NoClient \/ Crash)
    BY <2>1 DEF StagePack, StagePackRefused, StagePackFails, StartRemoving, FinishApply,
       FinishProbing, NoClient, Crash, Return
  <2>6. ASSUME NEW i \in Ids PROVE ~OutOfBandDelete(i)
    BY <2>1 DEF OutOfBandDelete
  <2>7. FinishDestroy
    BY <2>2, <2>3, <2>4, <2>5, <2>6 DEF Next, Step, Trouble
  <2>8. result = "none" /\ todo = {} /\ live' = live
    BY <2>7 DEF FinishDestroy, Return
  <2> QED BY <2>8 DEF Invariants, Tracking, Exists
<1> QED BY <1>1, InvariantsHold, PTL DEF Spec, DestroyedMeansGone
=============================================================================

------------------------ MODULE DeployProgressProofs ------------------------
(***************************************************************************)
(* Theorems about what an apply achieves, for any agents, packs, configs   *)
(* and faults.  They rest on the control and ownership invariants of       *)
(* DeployProofs.                                                           *)
(***************************************************************************)
EXTENDS DeployProofs

\* The points of an apply that has its pack delivered.
Building == {"deploy", "recreate", "remove"}

\* Which command is at which point, and what its result is there.
Phase ==
    /\ pc \in {"stage"} \cup Building => op = "apply" /\ result = "none"
    /\ pc \in {"probe", "destroy"} => op # "apply" /\ result # "ok"

\* The agents an apply has visited are deployed under the names it recorded.
Progress ==
    pc \in Building =>
        \A a \in Desired : pc = "remove" \/ a \notin todo => IsDeployed(next, req, a)

\* No step breaks the tie between a command, its point and its result.
LEMMA PhaseStep ==
  ASSUME TypeOK, Phase, [Next]_vars
  PROVE  Phase'
<1> USE DEF Phase, Building
<1>1. ASSUME NEW s, NEW how, Return(s, how) PROVE Phase'
  BY <1>1 DEF Return
<1>2. ASSUME UNCHANGED <<op, pc, result>> PROVE Phase'
  BY <1>2
<1>3. ASSUME NEW uri, Staged(uri), pc = "stage" PROVE Phase'
  BY <1>3 DEF Staged
<1>4. ASSUME NEW a \in Agents, NEW i, Deployed(a, i), pc \in Building PROVE Phase'
  BY <1>4 DEF Deployed
<1>5. ASSUME NEW a \in Agents,
             \/ CreateEngine(a) \/ UpdateEngine(a) \/ UpdateFindsNothing(a) \/ RemoveEngine(a)
             \/ Probe(a) \/ ProbeFails(a)
      PROVE  Phase'
  BY <1>2, <1>4, <1>5 DEF CreateEngine, Creating, UpdateEngine, Updating, UpdateFindsNothing,
     RemoveEngine, Probe, ProbeFails, Saw
<1>6. ASSUME NEW a \in Agents, DestroyEngine(a) \/ DestroyEngineFails(a) PROVE Phase'
  BY <1>6 DEF DestroyEngine, DestroyEngineFails, Destroying
<1>7. CASE \/ StagePack \/ StartRemoving \/ StartStatus \/ StartDestroy
           \/ \E r \in Request : StartApply(r) \/ StartPlan(r)
  BY <1>3, <1>7 DEF StagePack, StartRemoving, StartStatus, StartDestroy, StartApply, StartPlan,
     StartProbing, Begin
<1>8. CASE (\E i \in Ids : OutOfBandDelete(i)) \/ UNCHANGED vars
  BY <1>2, <1>8 DEF OutOfBandDelete, vars
<1> QED
  BY <1>1, <1>5, <1>6, <1>7, <1>8
  DEF Next, Operator, Step, Trouble, StagePackRefused, StagePackFails, FinishApply,
      FinishProbing, FinishDestroy, NoClient, Crash, BuildFails, CreateRefused, CreateFails,
      UpdateFails, DeployFailed, RemoveRefused, RemoveFails, DestroyCallbackFails

\* Every step of an apply keeps the agents it visited deployed.
LEMMA ProgressStep ==
  ASSUME TypeOK, Control, RecordsOwnEngines, NamesApart, Phase, Progress, [Next]_vars
  PROVE  Progress'
<1> USE ConstantsAssumption, SentinelsAssumption DEF Building
<1>1. ASSUME pc' \notin Building PROVE Progress'
  BY <1>1 DEF Progress
<1>2. CASE StagePack
  BY <1>2 DEF Progress, StagePack, Staged, Desired
<1>3. CASE StartRemoving \/ UNCHANGED vars \/ \E a \in Agents : UpdateFindsNothing(a)
  BY <1>3 DEF Progress, StartRemoving, UpdateFindsNothing, Updating, vars, Desired, IsDeployed,
     EngineFor
<1>4. ASSUME NEW a \in Agents, NEW i \in Ids, Deployed(a, i), pc \in {"deploy", "recreate"},
             \A b \in Agents : b # a => next.engines[b] # i
      PROVE  Progress'
  <2>1. \A b \in Agents : next'.engines[b] = IF b = a THEN i ELSE next.engines[b]
    BY <1>4 DEF Deployed, TypeOK, State
  <2>2. \A j \in Ids : live'[j] = IF j = i THEN buildEngine(a) ELSE live[j]
    BY <1>4 DEF Deployed, TypeOK
  <2>3. next'.uri = next.uri /\ req' = req /\ todo' = todo \ {a} /\ pc' = "deploy"
    BY <1>4 DEF Deployed, TypeOK, State
  <2> SUFFICES ASSUME NEW b \in Desired, b \notin todo'
               PROVE  IsDeployed(next, req, b)'
    BY <2>3 DEF Progress, Desired
  <2>4. CASE b = a
    BY <1>4, <2>1, <2>2, <2>3, <2>4 DEF IsDeployed, EngineFor, buildEngine
  <2>5. CASE b # a
    <3>1. b \in Agents /\ IsDeployed(next, req, b)
      BY <1>4, <2>3, <2>5 DEF Progress, Desired, TypeOK, Request
    <3> QED
      BY <1>4, <2>1, <2>2, <2>3, <2>5, <3>1 DEF IsDeployed, EngineFor
  <2> QED BY <2>4, <2>5
<1>5. ASSUME NEW a \in Agents, CreateEngine(a) PROVE Progress'
  <2>1. PICK i \in Ids : Fresh(i) /\ Deployed(a, i)
    BY <1>5 DEF CreateEngine
  <2>2. pc \in {"deploy", "recreate"}
    BY <1>5 DEF CreateEngine, Creating
  <2>3. \A b \in Agents : next.engines[b] # i
    BY <2>1 DEF Fresh, IdsOf, Named
  <2> QED BY <1>4, <2>1, <2>2, <2>3
<1>6. ASSUME NEW a \in Agents, UpdateEngine(a) PROVE Progress'
  <2>1. /\ stored.engines[a] \in Ids /\ pc = "deploy"
        /\ Deployed(a, stored.engines[a])
    BY <1>6 DEF UpdateEngine, Updating
  <2>2. \A b \in Agents : b # a => next.engines[b] # stored.engines[a]
    BY <2>1 DEF NamesApart
  <2> QED BY <1>4, <2>1, <2>2
<1>7. ASSUME NEW a \in Agents, RemoveEngine(a) PROVE Progress'
  <2>1. /\ next.engines[a] \in Ids /\ a \in todo /\ pc = "remove" /\ pc' = "remove"
        /\ req' = req /\ live' = Deleted(next.engines[a])
        /\ next' = [next EXCEPT !.engines[a] = None]
    BY <1>7 DEF RemoveEngine, IsNext
  <2> SUFFICES ASSUME NEW b \in Desired PROVE IsDeployed(next, req, b)'
    BY <2>1 DEF Progress, Desired
  <2>2. b \in Agents /\ b # a /\ IsDeployed(next, req, b)
    BY <2>1 DEF Progress, Control, Desired, TypeOK, Request
  <2>3. next'.engines[b] = next.engines[b] /\ next'.uri = next.uri
    BY <2>1, <2>2 DEF TypeOK, State
  <2>4. next.engines[b] # next.engines[a]
    BY <2>1, <2>2 DEF RecordsOwnEngines, OwnEngines, Named
  <2>5. live'[next.engines[b]] = live[next.engines[b]]
    BY <2>1, <2>2, <2>4 DEF Deleted, TypeOK, IsDeployed
  <2> QED BY <2>1, <2>2, <2>3, <2>5 DEF IsDeployed, EngineFor
<1>8. ASSUME NEW i \in Ids, OutOfBandDelete(i) PROVE Progress'
  <2> SUFFICES ASSUME pc \in Building, NEW b \in Desired, pc = "remove" \/ b \notin todo
               PROVE  IsDeployed(next, req, b)'
    BY <1>8 DEF Progress, OutOfBandDelete, Desired
  <2>1. IsDeployed(next, req, b)
    BY DEF Progress
  <2>2. live'[next.engines[b]] \in {live[next.engines[b]], Vanished}
    BY <1>8, <2>1 DEF OutOfBandDelete, TypeOK, IsDeployed
  <2> QED BY <1>8, <2>1, <2>2 DEF OutOfBandDelete, IsDeployed, EngineFor
<1> QED
  BY <1>1, <1>2, <1>3, <1>5, <1>6, <1>7, <1>8
  DEF Next, Operator, Step, Trouble, StartApply, StartPlan, StartStatus, StartDestroy,
      StartProbing, Probe, ProbeFails, Saw, DestroyEngine, DestroyEngineFails, Destroying,
      StagePackRefused, StagePackFails, FinishApply, FinishProbing, FinishDestroy, NoClient,
      Crash, BuildFails, CreateRefused, CreateFails, UpdateFails, DeployFailed, RemoveRefused,
      RemoveFails, DestroyCallbackFails, Return

\* At every point of an apply, the agents visited so far are deployed.
LEMMA ProgressHolds == Spec => [](Phase /\ Progress)
<1>1. Init => Phase /\ Progress
  BY DEF Init, Phase, Progress, Building
<1>2. TypeOK /\ Control /\ RecordsOwnEngines /\ NamesApart /\ Phase /\ Progress /\ [Next]_vars
        => Phase' /\ Progress'
  BY PhaseStep, ProgressStep
<1> QED BY <1>1, <1>2, TypeCorrect, ControlCorrect, OwnershipHolds, PTL DEF Spec
-----------------------------------------------------------------------------
\* The part of ApplyDelivers about a single step.
LEMMA DeliveryStep ==
  ASSUME TypeOK, Control, Phase, Progress, AppliedMeansDeployed, [Next]_vars
  PROVE  AppliedMeansDeployed'
<1> USE ConstantsAssumption, SentinelsAssumption
<1>1. ASSUME op' # "apply" \/ result' # "ok" PROVE AppliedMeansDeployed'
  BY <1>1 DEF AppliedMeansDeployed
<1>2. CASE FinishApply
  <2>1. /\ pc = "remove" /\ todo = {}
        /\ stored' = next /\ req' = req /\ live' = live
    BY <1>2 DEF FinishApply, Return
  <2>2. \A a \in Desired : IsDeployed(next, req, a)
    BY <2>1 DEF Progress, Building
  <2>3. Recorded(next) = Desired
    <3>1. Recorded(next) \subseteq Desired
      BY <2>1 DEF Control
    <3>2. Desired \subseteq Agents
      BY DEF Desired, TypeOK, Request
    <3>3. \A a \in Desired : next.engines[a] # None
      BY <2>2 DEF IsDeployed
    <3> QED BY <3>1, <3>2, <3>3 DEF Recorded
  <2>4. next.pack = req.pack /\ next.print = req.config.print
    BY <2>1 DEF Control
  <2>5. Desired' = Desired /\ Recorded(stored)' = Recorded(next)
    BY <2>1 DEF Desired, Recorded
  <2>6. \A a \in Desired : IsDeployed(stored, req, a)'
    BY <2>1, <2>2 DEF IsDeployed, EngineFor
  <2> QED BY <2>1, <2>3, <2>4, <2>5, <2>6 DEF AppliedMeansDeployed
<1>3. ASSUME NEW i \in Ids, OutOfBandDelete(i) PROVE AppliedMeansDeployed'
  <2>1. UNCHANGED <<stored, op, req, result>>
    BY <1>3 DEF OutOfBandDelete
  <2>2. \A j \in Ids : live'[j] \in {live[j], Vanished}
    BY <1>3 DEF OutOfBandDelete, TypeOK
  <2>3. \A a \in Desired : IsDeployed(stored, req, a) => IsDeployed(stored, req, a)'
    BY <2>1, <2>2 DEF IsDeployed, EngineFor
  <2> QED BY <2>1, <2>3 DEF AppliedMeansDeployed, Desired, Recorded
<1>4. CASE UNCHANGED vars
  BY <1>4 DEF vars, AppliedMeansDeployed, Desired, Recorded, IsDeployed, EngineFor
<1>5. CASE ~FinishApply /\ ~(\E i \in Ids : OutOfBandDelete(i)) /\ ~UNCHANGED vars
  <2> SUFFICES op' # "apply" \/ result' # "ok"
    BY <1>1
  <2> QED
    BY <1>5 DEF Phase, Building, Next, Operator, Step, Trouble, StartApply, StartPlan,
       StartStatus, StartDestroy, StartProbing, Begin, StagePack, Staged, StagePackRefused,
       StagePackFails, StartRemoving, FinishProbing, FinishDestroy, CreateEngine, UpdateEngine,
       UpdateFindsNothing, Creating, Updating, Deployed, BuildFails, CreateRefused, CreateFails,
       UpdateFails, DeployFailed, RemoveEngine, RemoveRefused, RemoveFails, Probe, ProbeFails,
       Saw, DestroyEngine, DestroyEngineFails, Destroying, DestroyCallbackFails, NoClient,
       Crash, Return
<1> QED BY <1>2, <1>3, <1>4, <1>5

\* An apply that reports success has every agent of the pack, and no other, on
\* record, each deployed with the requested pack and config: the loop that
\* skips nothing, the fallback from update to create and the removal of
\* retired agents together leave no agent behind.
THEOREM ApplyDelivers == Spec => []AppliedMeansDeployed
<1>1. Init => AppliedMeansDeployed
  BY DEF Init, AppliedMeansDeployed
<1>2. TypeOK /\ Control /\ Phase /\ Progress /\ AppliedMeansDeployed /\ [Next]_vars
        => AppliedMeansDeployed'
  BY DeliveryStep
<1> QED BY <1>1, <1>2, TypeCorrect, ControlCorrect, ProgressHolds, PTL DEF Spec
-----------------------------------------------------------------------------
\* The part of OnlyRetiredAreDeleted about a single step.
LEMMA DeletionStep ==
  ASSUME TypeOK, Control, RecordsOwnEngines, Phase, Progress, [Next]_vars,
         op = "apply", NEW i \in Ids, Exists(i), live'[i] = Gone
  PROVE  live[i].agent \notin Desired /\ \A a \in Desired : IsDeployed(next, req, a)
<1> USE ConstantsAssumption, SentinelsAssumption
<1>1. live[i] \in Engine /\ live' # live
  BY DEF Exists
<1>2. \A a \in Agents : buildEngine(a) # Gone
  BY DEF TypeOK, buildEngine, Engine, State, Request
<1>3. ASSUME NEW a \in Agents, RemoveEngine(a) \/ RemoveFails(a)
      PROVE  live[i].agent \notin Desired /\ \A b \in Desired : IsDeployed(next, req, b)
  <2>1. /\ pc = "remove" /\ a \in todo /\ next.engines[a] \in Ids
        /\ live' \in {live, Deleted(next.engines[a])}
    BY <1>3 DEF RemoveEngine, RemoveFails, IsNext
  <2>2. i = next.engines[a]
    BY <1>1, <2>1 DEF Deleted, TypeOK
  <2>3. live[i].agent = a
    BY <2>1, <2>2 DEF RecordsOwnEngines, OwnEngines, Named
  <2>4. a \notin Desired
    BY <2>1 DEF Control
  <2> QED BY <2>1, <2>3, <2>4 DEF Progress, Building
<1>4. ASSUME NEW j \in Ids, OutOfBandDelete(j) PROVE FALSE
  BY <1>1, <1>4 DEF OutOfBandDelete, TypeOK
<1>5. ASSUME NEW a \in Agents,
             \/ CreateEngine(a) \/ UpdateEngine(a) \/ CreateFails(a) \/ UpdateFails(a)
      PROVE  FALSE
  <2>1. live'[i] \in {live[i], buildEngine(a)}
    BY <1>5 DEF CreateEngine, UpdateEngine, Deployed, CreateFails, UpdateFails, TypeOK
  <2> QED BY <1>1, <1>2, <2>1
<1>6. ASSUME NEW a \in Agents,
             DestroyEngine(a) \/ DestroyEngineFails(a) \/ DestroyCallbackFails(a)
      PROVE  FALSE
  BY <1>6 DEF Phase, DestroyEngine, DestroyEngineFails, DestroyCallbackFails, Destroying
<1> QED
  BY <1>1, <1>3, <1>4, <1>5, <1>6
  DEF Next, Operator, Step, Trouble, vars, StartApply, StartPlan, StartStatus, StartDestroy,
      StartProbing, Begin, StagePack, Staged, StagePackRefused, StagePackFails, StartRemoving,
      FinishApply, FinishProbing, FinishDestroy, UpdateFindsNothing, BuildFails, CreateRefused,
      RemoveRefused, Probe, ProbeFails, Saw, NoClient, Crash

\* An apply takes an engine away only after every agent of the pack is deployed,
\* and only one of an agent that left the pack.
THEOREM OnlyRetiredAreDeleted == Spec => DeletesOnlyRetired
<1>1. TypeOK /\ Control /\ RecordsOwnEngines /\ Phase /\ Progress /\ [Next]_vars =>
        [\A i \in Ids : op = "apply" /\ Exists(i) /\ live'[i] = Gone =>
            /\ live[i].agent \notin Desired
            /\ \A a \in Desired : IsDeployed(next, req, a)]_vars
  BY DeletionStep
<1> QED
  BY <1>1, TypeCorrect, ControlCorrect, OwnershipHolds, ProgressHolds, PTL
  DEF Spec, DeletesOnlyRetired
-----------------------------------------------------------------------------
\* The state under construction forgets only engines that are gone.
LEMMA TrackingHolds == Spec => []Tracking
<1>1. Init => Tracking
  BY DEF Init, Tracking
<1>2. TypeOK /\ Control /\ RecordsOwnEngines /\ NamesApart /\ Tracking /\ [Next]_vars => Tracking'
  BY TrackingStep
<1> QED BY <1>1, <1>2, TypeCorrect, ControlCorrect, OwnershipHolds, PTL DEF Spec

\* The part of NamesAreStable about a single step.
LEMMA NamesStep ==
  ASSUME TypeOK, Phase, Tracking, [Next]_vars, op = "apply", result' = "ok",
         NEW a \in Desired \cap Named(stored), live'[stored.engines[a]] \in Engine
  PROVE  stored'.engines[a] = stored.engines[a]
<1> USE ConstantsAssumption, SentinelsAssumption
<1>1. CASE FinishApply
  <2>1. pc = "remove" /\ stored' = next /\ live' = live
    BY <1>1 DEF FinishApply, Return
  <2> QED BY <2>1 DEF Tracking, Exists
<1>2. CASE UNCHANGED vars \/ \E i \in Ids : OutOfBandDelete(i)
  BY <1>2 DEF vars, OutOfBandDelete
<1>3. CASE ~FinishApply /\ ~(\E i \in Ids : OutOfBandDelete(i)) /\ ~UNCHANGED vars
  BY <1>3 DEF Phase, Building, Next, Operator, Step, Trouble, StartApply, StartPlan,
     StartStatus, StartDestroy, StartProbing, Begin, StagePack, Staged, StagePackRefused,
     StagePackFails, StartRemoving, FinishProbing, FinishDestroy, CreateEngine, UpdateEngine,
     UpdateFindsNothing, Creating, Updating, Deployed, BuildFails, CreateRefused, CreateFails,
     UpdateFails, DeployFailed, RemoveEngine, RemoveRefused, RemoveFails, Probe, ProbeFails,
     Saw, DestroyEngine, DestroyEngineFails, Destroying, DestroyCallbackFails, NoClient,
     Crash, Return
<1> QED BY <1>1, <1>2, <1>3

\* A successful apply keeps the resource name of every engine that is still
\* there: the fallback to creation applies only to engines that are gone.
THEOREM NamesAreStable == Spec => SuccessfulApplyKeepsNames
<1>1. TypeOK /\ Phase /\ Tracking /\ [Next]_vars =>
        [op = "apply" /\ result' = "ok" =>
            \A a \in Desired \cap Named(stored) :
                live'[stored.engines[a]] \in Engine
                    => stored'.engines[a] = stored.engines[a]]_vars
  BY NamesStep
<1> QED
  BY <1>1, TypeCorrect, ProgressHolds, TrackingHolds, PTL
  DEF Spec, SuccessfulApplyKeepsNames
-----------------------------------------------------------------------------
\* The part of PartialApplyIsKept about the step that fails at an agent.
LEMMA FailureStep ==
  ASSUME TypeOK, Control, NamesApart, Progress, pc \in {"deploy", "recreate"},
         NEW a \in Agents,
         BuildFails(a) \/ CreateRefused(a) \/ CreateFails(a) \/ UpdateFails(a)
  PROVE  /\ a \in todo
         /\ \A b \in Desired \ todo : IsDeployed(stored, req, b)'
         /\ \A b \in (Agents \ Desired) \cup (todo \ {a}) :
              stored'.engines[b] = stored.engines[b]
<1> USE ConstantsAssumption, SentinelsAssumption
<1>1. a \in todo /\ DeployFailed(a)
  BY DEF BuildFails, CreateRefused, CreateFails, UpdateFails, Creating, Updating, IsNext
<1>2. /\ req' = req /\ stored'.uri = next.uri
      /\ \A b \in Agents : stored'.engines[b] = IF b = a THEN None ELSE next.engines[b]
  BY <1>1 DEF DeployFailed, Return, TypeOK, State
<1>3. \A b \in Agents \ {a} : next.engines[b] \in Ids =>
          live'[next.engines[b]] = live[next.engines[b]]
  <2>1. CASE BuildFails(a) \/ CreateRefused(a)
    BY <2>1 DEF BuildFails, CreateRefused
  <2>2. CASE CreateFails(a)
    <3>1. \/ live' = live
          \/ \E i \in Ids : Fresh(i) /\ live' = [live EXCEPT ![i] = buildEngine(a)]
      BY <2>2 DEF CreateFails
    <3> QED BY <3>1 DEF Fresh, IdsOf, Named, TypeOK
  <2>3. CASE UpdateFails(a)
    BY <2>3 DEF UpdateFails, Updating, NamesApart, TypeOK
  <2> QED BY <2>1, <2>2, <2>3
<1>4. Desired \subseteq Agents
  BY DEF Desired, TypeOK, Request
<1>5. ASSUME NEW b \in Desired \ todo PROVE IsDeployed(stored, req, b)'
  <2>1. b # a /\ b \in Agents /\ IsDeployed(next, req, b)
    BY <1>1, <1>4, <1>5 DEF Progress, Building
  <2> QED BY <1>2, <1>3, <2>1 DEF IsDeployed, EngineFor
<1>6. ASSUME NEW b \in (Agents \ Desired) \cup (todo \ {a})
      PROVE  stored'.engines[b] = stored.engines[b]
  <2>1. b \in Agents /\ b # a /\ b \notin Desired \ todo
    BY <1>1, <1>4, <1>6 DEF Control
  <2> QED BY <1>2, <2>1 DEF Control
<1> QED BY <1>1, <1>5, <1>6

\* An apply that stops at an agent hands back a state in which the agents before
\* it are deployed and the ones after it, and the retired ones, are untouched.
THEOREM PartialApplyIsKept == Spec => PartialApplyKeepsProgress
<1>1. TypeOK /\ Control /\ NamesApart /\ Phase /\ Progress /\ [Next]_vars =>
        [result' = "error" /\ pc \in {"deploy", "recreate"} =>
          \E failed \in todo :
            /\ \A a \in Desired \ todo : IsDeployed(stored, req, a)'
            /\ \A a \in (Agents \ Desired) \cup (todo \ {failed}) :
                 stored'.engines[a] = stored.engines[a]]_vars
  <2> SUFFICES ASSUME TypeOK, Control, NamesApart, Phase, Progress, [Next]_vars,
                      result' = "error", pc \in {"deploy", "recreate"}
               PROVE  \E a \in Agents :
                        BuildFails(a) \/ CreateRefused(a) \/ CreateFails(a) \/ UpdateFails(a)
    BY FailureStep
  <2> QED
    BY DEF Phase, Building, Next, Operator, Step, Trouble, vars, StartApply, StartPlan,
       StartStatus, StartDestroy, StartProbing, Begin, StagePack, Staged, StagePackRefused,
       StagePackFails, StartRemoving, FinishApply, FinishProbing, FinishDestroy, CreateEngine,
       UpdateEngine, UpdateFindsNothing, Creating, Updating, Deployed, RemoveEngine,
       RemoveRefused, RemoveFails, Probe, ProbeFails, Saw, DestroyEngine, DestroyEngineFails,
       Destroying, DestroyCallbackFails, NoClient, Crash, Return, OutOfBandDelete
<1> QED
  BY <1>1, TypeCorrect, ControlCorrect, OwnershipHolds, ProgressHolds, PTL
  DEF Spec, PartialApplyKeepsProgress
=============================================================================

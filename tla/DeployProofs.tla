---------------------------- MODULE DeployProofs ----------------------------
(***************************************************************************)
(* Theorems about Deploy, for every set of agents, packs, configs, engine  *)
(* names and faults.                                                       *)
(***************************************************************************)
EXTENDS Deploy, TLAPS

\* The state stays well-formed through every command and every fault.
THEOREM TypeCorrect == Spec => []TypeOK
<1> USE ConstantsAssumption, SentinelsAssumption
<1>1. newState \in State
  BY DEF newState, State
<1>2. Init => TypeOK
  <2> SUFFICES ASSUME Init PROVE TypeOK
    OBVIOUS
  <2>1. PICK inflight \in SUBSET InFlightAgents :
          stored = [newState EXCEPT !.engines =
                     [a \in Agents |-> IF a \in inflight THEN Nameless ELSE None]]
    BY DEF Init
  <2>2. stored \in State
    BY <2>1, <1>1 DEF State, newState
  <2> QED BY <1>1, <2>2 DEF Init, TypeOK
<1>3. TypeOK /\ [Next]_vars => TypeOK'
  <2> SUFFICES ASSUME TypeOK, [Next]_vars PROVE TypeOK'
    OBVIOUS
  <2>1. ASSUME NEW r \in Request, StartApply(r) \/ StartPlan(r) PROVE TypeOK'
    BY <2>1 DEF TypeOK, StartApply, StartPlan, Begin, StartProbing, Named
  <2>2. CASE StartStatus \/ StartDestroy
    BY <2>2 DEF TypeOK, StartStatus, StartDestroy, Begin, StartProbing, Named, Recorded
  <2>3. CASE StagePack
    BY <2>3 DEF TypeOK, StagePack, Staged, State, Request, Desired, URIs, stagedPackURI
  <2>4. CASE StagePackRefused \/ StagePackFails
    BY <1>1, <2>4 DEF TypeOK, StagePackRefused, StagePackFails, Return, Fault, Request, URIs, stagedPackURI
  <2>5. CASE StartRemoving
    BY <2>5 DEF TypeOK, StartRemoving, Recorded
  <2>6. CASE FinishApply
    BY <1>1, <2>6 DEF TypeOK, FinishApply, Return
  <2>7. CASE FinishProbing \/ FinishDestroy \/ NoClient \/ Crash
    BY <1>1, <2>7 DEF TypeOK, FinishProbing, FinishDestroy, NoClient, Crash, Return, Fault
  <2>8. ASSUME NEW a \in Agents, CreateEngine(a) \/ UpdateEngine(a) PROVE TypeOK'
    BY <2>8 DEF TypeOK, CreateEngine, UpdateEngine, Updating, Deployed, buildEngine, Engine, State, Request
  <2>9. ASSUME NEW a \in Agents, UpdateFindsNothing(a) PROVE TypeOK'
    BY <2>9 DEF TypeOK, UpdateFindsNothing
  <2>10. ASSUME NEW a \in Agents,
                BuildFails(a) \/ CreateRefused(a) \/ CreateFails(a) \/ UpdateFails(a)
         PROVE  TypeOK'
    <3>1. buildEngine(a) \in Engine
      BY DEF TypeOK, buildEngine, Engine, State, Request
    <3>2. live' \in [Ids -> Engine \cup {Gone, Vanished}]
      BY <2>10, <3>1 DEF TypeOK, BuildFails, CreateRefused, CreateFails, UpdateFails
    <3>3. DeployFailed(a) /\ faults' \in 0..MaxFaults
      BY <2>10 DEF TypeOK, BuildFails, CreateRefused, CreateFails, UpdateFails, NoFault, Fault
    <3>4. [next EXCEPT !.engines[a] = None] \in State
      BY DEF TypeOK, State
    <3> QED BY <1>1, <3>2, <3>3, <3>4 DEF TypeOK, DeployFailed, Return
  <2>11. ASSUME NEW a \in Agents, RemoveEngine(a) PROVE TypeOK'
    BY <2>11 DEF TypeOK, RemoveEngine, Deleted, State
  <2>12. ASSUME NEW a \in Agents, RemoveRefused(a) \/ RemoveFails(a) PROVE TypeOK'
    BY <1>1, <2>12 DEF TypeOK, RemoveRefused, RemoveFails, Return, Fault, Deleted
  <2>13. ASSUME NEW a \in Agents, Probe(a) \/ ProbeFails(a) PROVE TypeOK'
    <3>1. PICK answer \in {"yes", "no", "unknown"} : Saw(a, answer)
      BY <2>13 DEF Probe, ProbeFails
    <3>2. faults' \in 0..MaxFaults
      BY <2>13 DEF TypeOK, Probe, ProbeFails, NoFault, Fault
    <3> QED BY <3>1, <3>2 DEF TypeOK, Saw
  <2>14. ASSUME NEW a \in Agents, DestroyEngine(a) \/ DestroyEngineFails(a) PROVE TypeOK'
    <3>1. live' \in [Ids -> Engine \cup {Gone, Vanished}]
      BY <2>14 DEF TypeOK, DestroyEngine, DestroyEngineFails, Deleted
    <3>2. faults' \in 0..MaxFaults
      BY <2>14 DEF TypeOK, DestroyEngine, DestroyEngineFails, Fault
    <3> QED BY <2>14, <3>1, <3>2 DEF TypeOK, DestroyEngine, DestroyEngineFails
  <2>15. ASSUME NEW a \in Agents, DestroyCallbackFails(a) PROVE TypeOK'
    BY <1>1, <2>15 DEF TypeOK, DestroyCallbackFails, Return, Fault, Deleted
  <2>16. ASSUME NEW i \in Ids, OutOfBandDelete(i) PROVE TypeOK'
    BY <2>16 DEF TypeOK, OutOfBandDelete, Fault
  <2>17. CASE UNCHANGED vars
    BY <2>17 DEF TypeOK, vars
  <2> QED
    BY <2>1, <2>2, <2>3, <2>4, <2>5, <2>6, <2>7, <2>8, <2>9, <2>10, <2>11, <2>12,
       <2>13, <2>14, <2>15, <2>16, <2>17
    DEF Next, Operator, Step, Trouble
<1> QED BY <1>2, <1>3, PTL DEF Spec
-----------------------------------------------------------------------------
(***************************************************************************)
(* Where a command stands: what its loop still has to visit and how far    *)
(* the state it builds has moved away from the stored one.                 *)
(***************************************************************************)
Control ==
    /\ pc = "idle" => next = newState /\ todo = {}
    /\ pc \in {"probe", "destroy"} => next = newState
    /\ pc = "stage" => next = stored
    /\ pc \in {"stage", "deploy", "recreate", "remove"} => op = "apply"
    /\ pc \in {"deploy", "recreate", "remove"} =>
         next.pack = req.pack /\ next.print = req.config.print
    /\ pc \in {"deploy", "recreate"} =>
         /\ todo \subseteq Desired
         /\ \A a \in Agents : a \notin Desired \ todo => next.engines[a] = stored.engines[a]
    /\ pc = "remove" =>
         todo \cap Desired = {} /\ Recorded(next) \subseteq Desired \cup todo

\* The loops of an apply touch only the records of the agents they visited.
THEOREM ControlCorrect == Spec => []Control
<1> USE ConstantsAssumption
<1>1. Init => Control
  BY DEF Init, Control
<1>2. TypeOK /\ Control /\ [Next]_vars => Control'
  <2> SUFFICES ASSUME TypeOK, Control, [Next]_vars PROVE Control'
    OBVIOUS
  <2>1. ASSUME NEW s, NEW how, Return(s, how) PROVE Control'
    BY <2>1 DEF Return, Control
  <2>2. ASSUME NEW r \in Request, StartApply(r) \/ StartPlan(r) PROVE Control'
    BY <2>2 DEF Control, StartApply, StartPlan, Begin, StartProbing
  <2>3. CASE StartStatus \/ StartDestroy
    BY <2>3 DEF Control, StartStatus, StartDestroy, Begin, StartProbing
  <2>4. CASE StagePack
    BY <2>4 DEF Control, StagePack, Staged, Desired
  <2>5. CASE StartRemoving
    BY <2>5 DEF Control, StartRemoving, Recorded, Desired
  <2>6. ASSUME NEW a \in Agents, CreateEngine(a) \/ UpdateEngine(a) PROVE Control'
    <3>1. PICK i \in Ids : Deployed(a, i)
      BY <2>6 DEF CreateEngine, UpdateEngine, Updating
    <3>2. pc \in {"deploy", "recreate"} /\ a \in todo
      BY <2>6 DEF CreateEngine, UpdateEngine, Updating, Creating, IsNext
    <3>3. /\ next'.pack = next.pack /\ next'.print = next.print
          /\ \A b \in Agents \ {a} : next'.engines[b] = next.engines[b]
      BY <3>1 DEF Deployed, TypeOK, State
    <3> QED BY <3>1, <3>2, <3>3 DEF Control, Deployed, Desired
  <2>7. ASSUME NEW a \in Agents, UpdateFindsNothing(a) PROVE Control'
    BY <2>7 DEF Control, UpdateFindsNothing, Updating, Desired
  <2>8. ASSUME NEW a \in Agents, RemoveEngine(a) PROVE Control'
    BY <2>8 DEF Control, RemoveEngine, Recorded, Desired, TypeOK, State
  <2>9. ASSUME NEW a \in Agents, Probe(a) \/ ProbeFails(a) PROVE Control'
    BY <2>9 DEF Control, Probe, ProbeFails, Saw
  <2>10. ASSUME NEW a \in Agents, DestroyEngine(a) \/ DestroyEngineFails(a) PROVE Control'
    BY <2>10 DEF Control, DestroyEngine, DestroyEngineFails, Destroying
  <2>11. ASSUME NEW i \in Ids, OutOfBandDelete(i) PROVE Control'
    BY <2>11 DEF Control, OutOfBandDelete, Recorded, Desired
  <2>12. CASE UNCHANGED vars
    BY <2>12 DEF Control, vars, Recorded, Desired
  <2> QED
    BY <2>1, <2>2, <2>3, <2>4, <2>5, <2>6, <2>7, <2>8, <2>9, <2>10, <2>11, <2>12
    DEF Next, Operator, Step, Trouble, StagePackRefused, StagePackFails, FinishApply,
        FinishProbing, FinishDestroy, NoClient, Crash, BuildFails, CreateRefused,
        CreateFails, UpdateFails, DeployFailed, RemoveRefused, RemoveFails,
        DestroyCallbackFails
<1> QED BY <1>1, <1>2, TypeCorrect, PTL DEF Spec
-----------------------------------------------------------------------------
(***************************************************************************)
(* Ownership.  While an apply runs there are two states, and an engine may *)
(* be named by both; then both name it for the same agent.                 *)
(***************************************************************************)
NamesApart ==
    \A a, b \in Agents :
        next.engines[a] \in Ids /\ next.engines[a] = stored.engines[b] => a = b

\* The control plane kept every engine it has now: engines were only deleted.
OnlyDeletes == \A i \in Ids : live'[i] \in Engine => live'[i] = live[i]

\* The control plane changed at names no record held.
OnlyFreshNames ==
    \A i \in Ids : i \in IdsOf(stored) \cup IdsOf(next) => live'[i] = live[i]

\* An empty state records no engine.
LEMMA NewStateNamesNothing == \A a \in Agents : newState.engines[a] \notin Ids
  BY SentinelsAssumption DEF newState

\* What a deletion does to the control plane.
LEMMA DeletedOnlyDeletes ==
  ASSUME TypeOK, NEW i \in Ids, live' \in {live, Deleted(i)}
  PROVE  OnlyDeletes
  BY SentinelsAssumption DEF TypeOK, OnlyDeletes, Deleted, Exists

\* Records that are dropped or kept stay owned when engines are only deleted
\* or created under names nobody holds.
LEMMA OwnershipKept ==
  ASSUME TypeOK, RecordsOwnEngines, NamesApart,
         OnlyDeletes \/ OnlyFreshNames,
         \/ \A a \in Agents : stored'.engines[a] \in Ids => stored'.engines[a] = stored.engines[a]
         \/ \A a \in Agents : stored'.engines[a] \in Ids => stored'.engines[a] = next.engines[a],
         \A a \in Agents : next'.engines[a] \in Ids =>
             next'.engines[a] = next.engines[a] /\ stored' = stored
  PROVE  RecordsOwnEngines' /\ NamesApart'
<1>1. RecordsOwnEngines'
  BY DEF RecordsOwnEngines, OwnEngines, Named, IdsOf, Exists, OnlyDeletes, OnlyFreshNames
<1>2. NamesApart'
  BY DEF NamesApart
<1> QED BY <1>1, <1>2

\* Records own their engines, in both states of a running apply.
LEMMA OwnershipHolds == Spec => [](RecordsOwnEngines /\ NamesApart)
<1> USE ConstantsAssumption, SentinelsAssumption
<1>1. Init => RecordsOwnEngines /\ NamesApart
  <2> SUFFICES ASSUME Init PROVE RecordsOwnEngines /\ NamesApart
    OBVIOUS
  <2>1. \A a \in Agents : stored.engines[a] \notin Ids /\ next.engines[a] \notin Ids
    BY DEF Init, newState
  <2> QED BY <2>1 DEF RecordsOwnEngines, OwnEngines, NamesApart, Named
<1>2. TypeOK /\ Control /\ RecordsOwnEngines /\ NamesApart /\ [Next]_vars
        => RecordsOwnEngines' /\ NamesApart'
  <2> SUFFICES ASSUME TypeOK, Control, RecordsOwnEngines, NamesApart, [Next]_vars
               PROVE  RecordsOwnEngines' /\ NamesApart'
    OBVIOUS
  <2>1. ASSUME UNCHANGED live, UNCHANGED stored, UNCHANGED next \/ next' = stored
        PROVE  RecordsOwnEngines' /\ NamesApart'
    BY <2>1 DEF RecordsOwnEngines, OwnEngines, NamesApart, Named, Exists
  <2>2. ASSUME NEW s \in {stored, next, newState}, NEW how, Return(s, how),
               OnlyDeletes
        PROVE  RecordsOwnEngines' /\ NamesApart'
    BY <2>2, OwnershipKept, NewStateNamesNothing DEF Return
  <2>3. ASSUME NEW a \in Agents, DeployFailed(a), OnlyFreshNames
        PROVE  RecordsOwnEngines' /\ NamesApart'
    <3>1. \A b \in Agents : stored'.engines[b] \in Ids => stored'.engines[b] = next.engines[b]
      BY <2>3 DEF DeployFailed, Return, TypeOK, State
    <3> QED BY <2>3, <3>1, OwnershipKept, NewStateNamesNothing DEF DeployFailed, Return
  <2>4. CASE \/ StagePack \/ StartRemoving \/ StartStatus \/ StartDestroy
             \/ \E r \in Request : StartApply(r) \/ StartPlan(r)
             \/ \E a \in Agents : UpdateFindsNothing(a) \/ Probe(a) \/ ProbeFails(a)
             \/ UNCHANGED vars
    <3>1. CASE StagePack
      BY <3>1 DEF StagePack, Staged, RecordsOwnEngines, OwnEngines, NamesApart, Named, Exists
    <3>2. CASE ~StagePack
      BY <2>1, <2>4, <3>2 DEF StartRemoving, StartStatus, StartDestroy, StartProbing, Begin,
         StartApply, StartPlan, UpdateFindsNothing, Probe, ProbeFails, Saw, vars
    <3> QED BY <3>1, <3>2
  <2>5. ASSUME NEW a \in Agents, CreateEngine(a) PROVE RecordsOwnEngines' /\ NamesApart'
    <3>1. PICK i \in Ids : Fresh(i) /\ Deployed(a, i)
      BY <2>5 DEF CreateEngine
    <3>2. \A b \in Agents : stored.engines[b] # i /\ next.engines[b] # i
      BY <3>1 DEF Fresh, IdsOf, Named
    <3>3. \A b \in Agents : next'.engines[b] = IF b = a THEN i ELSE next.engines[b]
      BY <3>1 DEF Deployed, TypeOK, State
    <3>4. \A j \in Ids : live'[j] = IF j = i THEN buildEngine(a) ELSE live[j]
      BY <3>1 DEF Deployed, TypeOK
    <3>5. stored' = stored /\ buildEngine(a).agent = a
      BY <3>1 DEF Deployed, buildEngine
    <3>6. OwnEngines(stored)'
      BY <3>2, <3>4, <3>5 DEF RecordsOwnEngines, OwnEngines, Named, Exists
    <3>7. OwnEngines(next)'
      <4> SUFFICES ASSUME NEW b \in Agents, next'.engines[b] \in Ids
                   PROVE  /\ live'[next'.engines[b]] \in Engine
                               => live'[next'.engines[b]].agent = b
                          /\ \A c \in Agents : next'.engines[b] = next'.engines[c] => b = c
        BY DEF OwnEngines, Named, Exists
      <4>1. CASE b = a
        BY <3>2, <3>3, <3>4, <3>5, <4>1
      <4>2. CASE b # a
        BY <3>2, <3>3, <3>4, <3>5, <4>2 DEF RecordsOwnEngines, OwnEngines, Named, Exists
      <4> QED BY <4>1, <4>2
    <3>8. NamesApart'
      BY <3>2, <3>3, <3>5 DEF NamesApart
    <3> QED BY <3>6, <3>7, <3>8 DEF RecordsOwnEngines
  <2>6. ASSUME NEW a \in Agents, UpdateEngine(a) PROVE RecordsOwnEngines' /\ NamesApart'
    <3> DEFINE i == stored.engines[a]
    <3>1. i \in Ids /\ Deployed(a, i)
      BY <2>6 DEF UpdateEngine, Updating
    <3>2. \A b \in Agents : next'.engines[b] = IF b = a THEN i ELSE next.engines[b]
      BY <3>1 DEF Deployed, TypeOK, State
    <3>3. \A j \in Ids : live'[j] = IF j = i THEN buildEngine(a) ELSE live[j]
      BY <3>1 DEF Deployed, TypeOK
    <3>4. stored' = stored /\ buildEngine(a).agent = a
      BY <3>1 DEF Deployed, buildEngine
    <3>5. \A b \in Agents : stored.engines[b] = i \/ next.engines[b] = i => a = b
      BY <3>1 DEF RecordsOwnEngines, OwnEngines, NamesApart, Named
    <3>6. OwnEngines(stored)'
      BY <3>3, <3>4, <3>5 DEF RecordsOwnEngines, OwnEngines, Named, Exists
    <3>7. OwnEngines(next)'
      <4> SUFFICES ASSUME NEW b \in Agents, next'.engines[b] \in Ids
                   PROVE  /\ live'[next'.engines[b]] \in Engine
                               => live'[next'.engines[b]].agent = b
                          /\ \A c \in Agents : next'.engines[b] = next'.engines[c] => b = c
        BY DEF OwnEngines, Named, Exists
      <4>1. CASE b = a
        BY <3>2, <3>3, <3>4, <3>5, <4>1
      <4>2. CASE b # a
        BY <3>2, <3>3, <3>4, <3>5, <4>2 DEF RecordsOwnEngines, OwnEngines, Named, Exists
      <4> QED BY <4>1, <4>2
    <3>8. NamesApart'
      BY <3>1, <3>2, <3>4, <3>5 DEF NamesApart, RecordsOwnEngines, OwnEngines, Named
    <3> QED BY <3>6, <3>7, <3>8 DEF RecordsOwnEngines
  <2>7. ASSUME NEW a \in Agents, BuildFails(a) \/ CreateRefused(a) \/ CreateFails(a)
        PROVE  RecordsOwnEngines' /\ NamesApart'
    <3>1. DeployFailed(a)
      BY <2>7 DEF BuildFails, CreateRefused, CreateFails
    <3>2. OnlyFreshNames
      BY <2>7 DEF BuildFails, CreateRefused, CreateFails, OnlyFreshNames, Fresh, TypeOK
    <3> QED BY <2>3, <3>1, <3>2
  <2>8. ASSUME NEW a \in Agents, UpdateFails(a) PROVE RecordsOwnEngines' /\ NamesApart'
    <3> DEFINE i == stored.engines[a]
    <3>1. i \in Ids /\ DeployFailed(a)
      BY <2>8 DEF UpdateFails, Updating
    <3>2. \A j \in Ids : live'[j] = live[j] \/ (j = i /\ live'[j] = buildEngine(a))
      BY <2>8, <3>1 DEF UpdateFails, TypeOK
    <3>3. \A b \in Agents : stored'.engines[b] = IF b = a THEN None ELSE next.engines[b]
      BY <3>1 DEF DeployFailed, Return, TypeOK, State
    <3>4. \A b \in Agents : next.engines[b] = i => a = b
      BY <3>1 DEF NamesApart
    <3>5. OwnEngines(stored)'
      <4> SUFFICES ASSUME NEW b \in Agents, stored'.engines[b] \in Ids
                   PROVE  /\ live'[stored'.engines[b]] \in Engine
                               => live'[stored'.engines[b]].agent = b
                          /\ \A c \in Agents : stored'.engines[b] = stored'.engines[c] => b = c
        BY DEF OwnEngines, Named, Exists
      <4>1. b # a /\ stored'.engines[b] = next.engines[b] /\ next.engines[b] # i
        BY <3>3, <3>4
      <4>2. live'[stored'.engines[b]] = live[next.engines[b]]
        BY <3>2, <4>1
      <4>3. ASSUME NEW c \in Agents, stored'.engines[b] = stored'.engines[c]
            PROVE  next.engines[b] = next.engines[c]
        BY <3>3, <4>1, <4>3
      <4> QED BY <4>1, <4>2, <4>3 DEF RecordsOwnEngines, OwnEngines, Named, Exists
    <3>6. \A b \in Agents : next'.engines[b] \notin Ids
      BY <3>1, NewStateNamesNothing DEF DeployFailed, Return
    <3> QED BY <3>5, <3>6 DEF RecordsOwnEngines, OwnEngines, NamesApart, Named
  <2>9. ASSUME NEW a \in Agents, RemoveEngine(a) PROVE RecordsOwnEngines' /\ NamesApart'
    <3>1. OnlyDeletes
      BY <2>9, DeletedOnlyDeletes DEF RemoveEngine
    <3>2. \A b \in Agents : next'.engines[b] = IF b = a THEN None ELSE next.engines[b]
      BY <2>9 DEF RemoveEngine, TypeOK, State
    <3> QED BY <2>9, <3>1, <3>2, OwnershipKept DEF RemoveEngine
  <2>10. ASSUME NEW a \in Agents,
                \/ RemoveRefused(a) \/ RemoveFails(a) \/ DestroyCallbackFails(a)
         PROVE  RecordsOwnEngines' /\ NamesApart'
    <3>1. OnlyDeletes
      <4>1. CASE UNCHANGED live
        BY <4>1 DEF OnlyDeletes
      <4>2. CASE ~UNCHANGED live
        BY <2>10, <4>2, DeletedOnlyDeletes DEF RemoveRefused, RemoveFails, DestroyCallbackFails
      <4> QED BY <4>1, <4>2
    <3> QED BY <2>2, <2>10, <3>1 DEF RemoveRefused, RemoveFails, DestroyCallbackFails
  <2>11. CASE \/ StagePackRefused \/ StagePackFails \/ FinishApply \/ FinishProbing
              \/ FinishDestroy \/ NoClient \/ Crash
    <3>1. OnlyDeletes
      BY <2>11 DEF OnlyDeletes, StagePackRefused, StagePackFails, FinishApply, FinishProbing,
         FinishDestroy, NoClient, Crash
    <3> QED BY <2>2, <2>11, <3>1 DEF StagePackRefused, StagePackFails, FinishApply,
            FinishProbing, FinishDestroy, NoClient, Crash
  <2>12. ASSUME NEW a \in Agents, DestroyEngine(a) \/ DestroyEngineFails(a)
         PROVE  RecordsOwnEngines' /\ NamesApart'
    <3>1. OnlyDeletes
      <4>1. CASE UNCHANGED live
        BY <4>1 DEF OnlyDeletes
      <4>2. CASE ~UNCHANGED live
        BY <2>12, <4>2, DeletedOnlyDeletes DEF DestroyEngine, DestroyEngineFails
      <4> QED BY <4>1, <4>2
    <3> QED BY <2>12, <3>1, OwnershipKept DEF DestroyEngine, DestroyEngineFails
  <2>13. ASSUME NEW i \in Ids, OutOfBandDelete(i) PROVE RecordsOwnEngines' /\ NamesApart'
    <3>1. OnlyDeletes
      BY <2>13 DEF OnlyDeletes, OutOfBandDelete, TypeOK
    <3> QED BY <2>13, <3>1, OwnershipKept DEF OutOfBandDelete
  <2> QED
    BY <2>4, <2>5, <2>6, <2>7, <2>8, <2>9, <2>10, <2>11, <2>12, <2>13
    DEF Next, Operator, Step, Trouble
<1> QED BY <1>1, <1>2, TypeCorrect, ControlCorrect, PTL DEF Spec

\* A record always names an engine of its own agent, and no two agents ever
\* share an engine, whatever fails: an update or a delete never hits the engine
\* of another agent.
THEOREM Ownership == Spec => []RecordsOwnEngines
  BY OwnershipHolds, PTL
-----------------------------------------------------------------------------
(***************************************************************************)
(* Staging.  A state under construction points, like the stored one, at a  *)
(* pack that is present; while engines are being built it is their own.    *)
(***************************************************************************)
Staging ==
    /\ StagedPackPresent
    /\ next.uri # None => next.uri \in bucket
    /\ pc \in {"deploy", "recreate"} /\ next.uri # None => next.uri[2] = req.pack

\* What a step other than staging does to the staged packs and to everything
\* that points at one.
StagingUntouched ==
    /\ bucket \subseteq bucket'
    /\ stored'.uri \in {stored.uri, next.uri, None}
    /\ next'.uri \in {stored.uri, next.uri, None}
    /\ \A i \in Ids :
        \/ live'[i] \in {live[i], Gone, Vanished}
        \/ pc \in {"deploy", "recreate"} /\ \E a \in Agents : live'[i] = buildEngine(a)
    /\ pc' \in {"deploy", "recreate"} =>
        pc \in {"deploy", "recreate"} /\ next'.uri = next.uri /\ req' = req

\* Every step but StagePack leaves the staging alone.
LEMMA OnlyStagingStages ==
  ASSUME TypeOK, Control, [Next]_vars, ~StagePack
  PROVE  StagingUntouched
<1> USE ConstantsAssumption, SentinelsAssumption
<1>1. newState.uri = None
  BY DEF newState
<1>2. ASSUME NEW r \in Request, StartApply(r) \/ StartPlan(r) PROVE StagingUntouched
  BY <1>2 DEF StagingUntouched, StartApply, StartPlan, Begin, StartProbing
<1>3. CASE StartStatus \/ StartDestroy \/ StartRemoving \/ UNCHANGED vars
  BY <1>3 DEF StagingUntouched, StartStatus, StartDestroy, StartRemoving, Begin, StartProbing, vars
<1>4. CASE \/ StagePackRefused \/ StagePackFails \/ FinishApply \/ FinishProbing
           \/ FinishDestroy \/ NoClient \/ Crash
  BY <1>1, <1>4 DEF StagingUntouched, StagePackRefused, StagePackFails, FinishApply, FinishProbing,
     FinishDestroy, NoClient, Crash, Return
<1>5. ASSUME NEW a \in Agents, NEW i \in Ids, Deployed(a, i), pc \in {"deploy", "recreate"}
      PROVE  StagingUntouched
  BY <1>5 DEF StagingUntouched, Deployed, TypeOK, State
<1>6. ASSUME NEW a \in Agents, CreateEngine(a) \/ UpdateEngine(a) PROVE StagingUntouched
  BY <1>5, <1>6 DEF CreateEngine, Creating, UpdateEngine, Updating
<1>7. ASSUME NEW a \in Agents, BuildFails(a) \/ CreateRefused(a) \/ CreateFails(a) \/ UpdateFails(a)
      PROVE  StagingUntouched
  <2>1. DeployFailed(a) /\ pc \in {"deploy", "recreate"}
    BY <1>7 DEF BuildFails, CreateRefused, CreateFails, UpdateFails, Creating, Updating
  <2>2. \A i \in Ids : live'[i] \in {live[i], buildEngine(a)}
    BY <1>7 DEF BuildFails, CreateRefused, CreateFails, UpdateFails, TypeOK
  <2> QED BY <1>1, <2>1, <2>2 DEF StagingUntouched, DeployFailed, Return, TypeOK, State
<1>8. ASSUME NEW a \in Agents, UpdateFindsNothing(a) \/ Probe(a) \/ ProbeFails(a)
      PROVE  StagingUntouched
  BY <1>8 DEF StagingUntouched, UpdateFindsNothing, Updating, Probe, ProbeFails, Saw
<1>9. ASSUME NEW a \in Agents,
             \/ RemoveEngine(a) \/ RemoveRefused(a) \/ RemoveFails(a) \/ DestroyEngine(a)
             \/ DestroyEngineFails(a) \/ DestroyCallbackFails(a)
      PROVE  StagingUntouched
  <2>1. \A i \in Ids : live'[i] \in {live[i], Gone}
    BY <1>9 DEF RemoveEngine, RemoveRefused, RemoveFails, DestroyEngine, DestroyEngineFails,
       DestroyCallbackFails, Deleted, TypeOK
  <2>2. CASE RemoveEngine(a)
    BY <2>1, <2>2 DEF StagingUntouched, RemoveEngine, TypeOK, State
  <2>3. CASE RemoveRefused(a) \/ RemoveFails(a) \/ DestroyCallbackFails(a)
    BY <1>1, <2>1, <2>3 DEF StagingUntouched, RemoveRefused, RemoveFails, DestroyCallbackFails, Return
  <2>4. CASE DestroyEngine(a) \/ DestroyEngineFails(a)
    BY <2>1, <2>4 DEF StagingUntouched, DestroyEngine, DestroyEngineFails, Destroying
  <2> QED BY <1>9, <2>2, <2>3, <2>4
<1>10. ASSUME NEW i \in Ids, OutOfBandDelete(i) PROVE StagingUntouched
  BY <1>10 DEF StagingUntouched, OutOfBandDelete, TypeOK
<1> QED
  BY <1>2, <1>3, <1>4, <1>6, <1>7, <1>8, <1>9, <1>10 DEF Next, Operator, Step, Trouble

\* Every engine that reads its pack from Cloud Storage finds its own pack there,
\* whenever its container starts; nothing but staging a pack is needed for that,
\* so skipping the upload when the state records the URI is sound.
THEOREM StagedPacksArePresent == Spec => []StagedPackPresent
<1> USE ConstantsAssumption, SentinelsAssumption
<1>1. Init => Staging
  BY DEF Init, Staging, StagedPackPresent, Exists, newState
<1>2. TypeOK /\ Control /\ Staging /\ [Next]_vars => Staging'
  <2> SUFFICES ASSUME TypeOK, Control, Staging, [Next]_vars PROVE Staging'
    OBVIOUS
  <2>1. CASE StagePack
    <3>1. PICK uri : Staged(uri) /\ (uri # None => uri = stagedPackURI(req) /\ uri \in bucket')
                     /\ bucket \subseteq bucket'
      BY <2>1 DEF StagePack, Staging, StagedPackPresent
    <3> QED BY <3>1 DEF Staged, Staging, StagedPackPresent, Exists, stagedPackURI
  <2>2. CASE ~StagePack
    <3>1. StagingUntouched
      BY <2>2, OnlyStagingStages
    <3>2. \A a \in Agents : buildEngine(a).uri = next.uri /\ buildEngine(a).pack = req.pack
      BY DEF buildEngine
    <3>3. StagedPackPresent'
      BY <3>1, <3>2 DEF StagingUntouched, Staging, StagedPackPresent, Exists
    <3> QED BY <3>1, <3>3 DEF StagingUntouched, Staging, StagedPackPresent
  <2> QED BY <2>1, <2>2
<1>3. Staging => StagedPackPresent
  BY DEF Staging
<1> QED BY <1>1, <1>2, <1>3, TypeCorrect, ControlCorrect, PTL DEF Spec
-----------------------------------------------------------------------------
(***************************************************************************)
(* Tracking.  The state under construction forgets a recorded engine only  *)
(* when that engine is gone, and a destroy without an error so far has     *)
(* deleted every engine it visited.                                        *)
(***************************************************************************)
Tracking ==
    /\ pc \in {"deploy", "recreate", "remove"} =>
        \A a \in Named(stored) :
            next.engines[a] # stored.engines[a] => ~Exists(stored.engines[a])
    /\ pc = "recreate" =>
        \A a \in Named(stored) : IsNext(a) => ~Exists(stored.engines[a])
    /\ pc = "destroy" /\ result = "none" =>
        \A a \in Named(stored) \ todo : ~Exists(stored.engines[a])

\* Deleting engines keeps what the records track.
LEMMA DeletesKeepTracking ==
  ASSUME TypeOK, Tracking, OnlyDeletes, UNCHANGED <<stored, next, pc, todo, result>>
  PROVE  Tracking'
  BY DEF Tracking, OnlyDeletes, Named, Exists, IsNext

\* Every step of every command keeps the tracking.
LEMMA TrackingStep ==
  ASSUME TypeOK, Control, RecordsOwnEngines, NamesApart, Tracking, [Next]_vars
  PROVE  Tracking'
<1> USE ConstantsAssumption, SentinelsAssumption
<1>1. ASSUME pc' \in {"idle", "stage", "probe"} PROVE Tracking'
  BY <1>1 DEF Tracking
<1>2. CASE StartDestroy
  <2>1. pc' = "destroy" /\ stored' = stored /\ todo' = Recorded(stored)
    BY <1>2 DEF StartDestroy, Begin
  <2>2. Named(stored)' \subseteq todo'
    BY <2>1 DEF Named, Recorded
  <2> QED BY <2>1, <2>2 DEF Tracking
<1>3. CASE StagePack
  BY <1>3 DEF Tracking, StagePack, Staged, Named
<1>4. CASE StartRemoving
  BY <1>4 DEF Tracking, StartRemoving, Named, Exists
<1>5. ASSUME NEW a \in Agents, CreateEngine(a) PROVE Tracking'
  <2>1. PICK i \in Ids : Fresh(i) /\ Deployed(a, i)
    BY <1>5 DEF CreateEngine
  <2>2. \A b \in Agents \ {a} : next'.engines[b] = next.engines[b]
    BY <2>1 DEF Deployed, TypeOK, State
  <2>3. \A b \in Named(stored) : live'[stored.engines[b]] = live[stored.engines[b]]
    BY <2>1 DEF Fresh, IdsOf, Named, Deployed, TypeOK
  <2>4. a \in Named(stored) => ~Exists(stored.engines[a])
    BY <1>5 DEF CreateEngine, Creating, Named, Tracking
  <2>5. pc \in {"deploy", "recreate"} /\ pc' = "deploy" /\ stored' = stored
    BY <1>5, <2>1 DEF CreateEngine, Creating, Deployed
  <2> QED BY <2>2, <2>3, <2>4, <2>5 DEF Tracking, Named, Exists
<1>6. ASSUME NEW a \in Agents, UpdateEngine(a) PROVE Tracking'
  <2> DEFINE i == stored.engines[a]
  <2>1. i \in Ids /\ Deployed(a, i) /\ pc = "deploy"
    BY <1>6 DEF UpdateEngine, Updating
  <2>2. \A b \in Agents : next'.engines[b] = IF b = a THEN i ELSE next.engines[b]
    BY <2>1 DEF Deployed, TypeOK, State
  <2>3. \A b \in Named(stored) : b # a => live'[stored.engines[b]] = live[stored.engines[b]]
    BY <2>1 DEF RecordsOwnEngines, OwnEngines, Named, Deployed, TypeOK
  <2>4. pc' = "deploy" /\ stored' = stored
    BY <2>1 DEF Deployed
  <2> QED BY <2>1, <2>2, <2>3, <2>4 DEF Tracking, Named, Exists
<1>7. ASSUME NEW a \in Agents, UpdateFindsNothing(a) PROVE Tracking'
  <2>1. \A b \in Agents : IsNext(b) => a = b
    BY <1>7 DEF UpdateFindsNothing, Updating, IsNext, TypeOK
  <2> QED BY <1>7, <2>1 DEF Tracking, UpdateFindsNothing, Updating, IsNext, Named, Exists
<1>8. ASSUME NEW a \in Agents, RemoveEngine(a) PROVE Tracking'
  <2> DEFINE i == next.engines[a]
  <2>1. i \in Ids /\ pc = "remove" /\ pc' = "remove" /\ stored' = stored /\ live' = Deleted(i)
    BY <1>8 DEF RemoveEngine
  <2>2. OnlyDeletes /\ live'[i] \notin Engine
    BY <2>1 DEF OnlyDeletes, Deleted, TypeOK, Exists
  <2>3. \A b \in Agents : next'.engines[b] = IF b = a THEN None ELSE next.engines[b]
    BY <1>8 DEF RemoveEngine, TypeOK, State
  <2> QED BY <2>1, <2>2, <2>3 DEF Tracking, Named, Exists, OnlyDeletes
<1>9. ASSUME NEW a \in Agents, DestroyEngine(a) PROVE Tracking'
  <2>1. OnlyDeletes /\ (stored.engines[a] \in Ids => live'[stored.engines[a]] \notin Engine)
    BY <1>9 DEF DestroyEngine, OnlyDeletes, Deleted, TypeOK, Exists
  <2>2. pc' = "destroy" /\ result' = result /\ todo' = todo \ {a} /\ stored' = stored /\ pc = "destroy"
    BY <1>9 DEF DestroyEngine, Destroying
  <2> QED BY <2>1, <2>2 DEF Tracking, Named, Exists, OnlyDeletes
<1>10. ASSUME NEW a \in Agents, DestroyEngineFails(a) PROVE Tracking'
  BY <1>10 DEF Tracking, DestroyEngineFails, Destroying
<1>11. ASSUME NEW i \in Ids, OutOfBandDelete(i) PROVE Tracking'
  <2>1. OnlyDeletes
    BY <1>11 DEF OnlyDeletes, OutOfBandDelete, TypeOK
  <2> QED BY <1>11, <2>1, DeletesKeepTracking DEF OutOfBandDelete
<1>12. CASE UNCHANGED vars
  BY <1>12 DEF Tracking, vars, Named, Exists, IsNext
<1>13. ASSUME NEW a \in Agents, Probe(a) \/ ProbeFails(a) PROVE Tracking'
  BY <1>1, <1>13 DEF Probe, ProbeFails, Saw
<1> QED
  BY <1>1, <1>2, <1>3, <1>4, <1>5, <1>6, <1>7, <1>8, <1>9, <1>10, <1>11, <1>12, <1>13
  DEF Next, Operator, Step, Trouble, StartApply, StartPlan, StartStatus, StartProbing,
      StagePackRefused, StagePackFails, FinishApply, FinishProbing, FinishDestroy, NoClient,
      Crash, BuildFails, CreateRefused, CreateFails, UpdateFails, DeployFailed, RemoveRefused,
      RemoveFails, DestroyCallbackFails, Return

\* The part of NoUnprovokedOrphans about a single step.
LEMMA OrphaningNeedsTrouble ==
  ASSUME TypeOK, Control, Tracking, [Next]_vars, faults' = faults
  PROVE  Orphans' \subseteq Orphans \cup Refused
<1> USE ConstantsAssumption, SentinelsAssumption
<1> SUFFICES ASSUME NEW i \in Ids, live'[i] \in Engine,
                      i \notin IdsOf(stored)', i \notin IdsOf(next)'
               PROVE  (live[i] \in Engine /\ i \notin IdsOf(stored) \cup IdsOf(next)) \/ i \in Refused
    BY DEF Orphans, Exists
  <1> DEFINE Goal == (live[i] \in Engine /\ i \notin IdsOf(stored) \cup IdsOf(next)) \/ i \in Refused
  <1>1. IdsOf(newState) = {}
    BY NewStateNamesNothing DEF IdsOf, Named
  <1>2. ASSUME UNCHANGED live, UNCHANGED stored, UNCHANGED next \/ next = stored \/ next = newState
        PROVE  Goal
    BY <1>1, <1>2 DEF IdsOf, Named
  <1>3. CASE \/ StagePack \/ StagePackRefused \/ StartRemoving \/ FinishProbing
             \/ StartStatus \/ StartDestroy \/ UNCHANGED vars
             \/ \E r \in Request : StartApply(r) \/ StartPlan(r)
             \/ \E a \in Agents : UpdateFindsNothing(a) \/ Probe(a)
    <2>1. CASE StagePack
      <3>1. IdsOf(next)' = IdsOf(next) /\ UNCHANGED <<live, stored>>
        BY <2>1 DEF StagePack, Staged, Control, IdsOf, Named
      <3> QED BY <3>1, <1>2 DEF IdsOf, Named
    <2>2. CASE ~StagePack
      BY <1>2, <1>3, <2>2 DEF Control, StagePackRefused, StartRemoving, FinishProbing, Return,
         StartStatus, StartDestroy, StartApply, StartPlan, StartProbing, Begin,
         UpdateFindsNothing, Probe, Saw, vars
    <2> QED BY <2>1, <2>2
  <1>4. ASSUME NEW a \in Agents, CreateEngine(a) \/ UpdateEngine(a) PROVE Goal
    <2>1. PICK j \in Ids : Deployed(a, j) /\ (Fresh(j) \/ j = stored.engines[a])
      BY <1>4 DEF CreateEngine, UpdateEngine, Updating
    <2>2. \A b \in Agents : next'.engines[b] = IF b = a THEN j ELSE next.engines[b]
      BY <2>1 DEF Deployed, TypeOK, State
    <2>3. a \in todo /\ pc \in {"deploy", "recreate"}
      BY <1>4 DEF CreateEngine, Creating, UpdateEngine, Updating, IsNext
    <2>4. next.engines[a] = stored.engines[a]
      BY <2>3 DEF Control
    <2>5. i # j /\ stored' = stored /\ live'[i] = live[i]
      BY <2>1, <2>2 DEF Deployed, IdsOf, Named, TypeOK
    <2> QED BY <2>2, <2>4, <2>5 DEF IdsOf, Named
  <1>5. ASSUME NEW a \in Agents, CreateRefused(a) PROVE Goal
    <2>1. DeployFailed(a) /\ live' = live /\ Creating(a)
      BY <1>5 DEF CreateRefused
    <2>2. \A b \in Agents : stored'.engines[b] = IF b = a THEN None ELSE next.engines[b]
      BY <2>1 DEF DeployFailed, Return, TypeOK, State
    <2>3. a \in Named(stored) => ~Exists(stored.engines[a])
      BY <2>1 DEF Creating, Named, Tracking
    <2>4. next.engines[a] = stored.engines[a] /\ pc \in {"deploy", "recreate"}
      BY <2>1 DEF Creating, IsNext, Control
    <2> QED BY <2>1, <2>2, <2>3, <2>4 DEF IdsOf, Named, Tracking, Exists
  <1>6. ASSUME NEW a \in Agents, RemoveEngine(a) PROVE Goal
    <2>1. \A b \in Agents : next'.engines[b] = IF b = a THEN None ELSE next.engines[b]
      BY <1>6 DEF RemoveEngine, TypeOK, State
    <2>2. /\ stored' = stored /\ live[i] \in Engine
          /\ i # next.engines[a]
      BY <1>6 DEF RemoveEngine, Deleted, TypeOK, Exists
    <2> QED BY <2>1, <2>2 DEF IdsOf, Named
  <1>7. ASSUME \/ FinishApply \/ \E a \in Agents : RemoveRefused(a)
        PROVE  Goal
    <2>1. pc = "remove" /\ stored' = next /\ live' = live
      BY <1>7 DEF FinishApply, RemoveRefused, Return
    <2> QED BY <2>1 DEF IdsOf, Named, Tracking, Exists
  <1>8. CASE FinishDestroy
    <2>1. pc = "destroy" /\ todo = {} /\ live' = live /\ next = newState
      BY <1>8 DEF FinishDestroy, Control
    <2>2. CASE result = "none"
      BY <1>1, <2>1, <2>2 DEF IdsOf, Named, Tracking, Exists
    <2>3. CASE result # "none"
      BY <1>1, <1>8, <2>1, <2>3 DEF FinishDestroy, Return, IdsOf, Named
    <2> QED BY <2>2, <2>3
  <1>9. ASSUME NEW a \in Agents, DestroyEngine(a) PROVE Goal
    BY <1>9 DEF DestroyEngine, Deleted, TypeOK, Exists, IdsOf, Named
  <1>10. ASSUME NEW a \in Agents, BuildFails(a) PROVE Goal
    <2>1. DeployFailed(a) /\ live' = live /\ pc = "deploy" /\ IsNext(a) /\ ~req.config.buildable
      BY <1>10 DEF BuildFails
    <2>2. \A b \in Agents : stored'.engines[b] = IF b = a THEN None ELSE next.engines[b]
      BY <2>1 DEF DeployFailed, Return, TypeOK, State
    <2>3. next.engines[a] = stored.engines[a]
      BY <2>1 DEF IsNext, Control
    <2>4. CASE i = stored.engines[a]
      BY <2>1, <2>4 DEF Refused
    <2>5. CASE i # stored.engines[a]
      BY <2>1, <2>2, <2>3, <2>5 DEF IdsOf, Named, Tracking, Exists
    <2> QED BY <2>4, <2>5
  <1>11. ~ \E k : Fault(k)
    BY DEF Fault, TypeOK
  <1> QED
    BY <1>3, <1>4, <1>5, <1>6, <1>7, <1>8, <1>9, <1>10, <1>11
    DEF Next, Operator, Step, Trouble, StagePackFails, NoClient, Crash, CreateFails,
        UpdateFails, RemoveFails, ProbeFails, DestroyEngineFails, DestroyCallbackFails,
        OutOfBandDelete

\* Whichever command runs and whatever went wrong earlier, an engine drops out of
\* the records only through a failing call, a dying process or an intervention by
\* hand, but for the one an apply forgets when it cannot build its agent's spec.
THEOREM NoUnprovokedOrphans == Spec => OrphansNeedTrouble
<1>1. Init => Tracking
  BY DEF Init, Tracking
<1>2. TypeOK /\ Control /\ RecordsOwnEngines /\ NamesApart /\ Tracking /\ [Next]_vars => Tracking'
  BY TrackingStep
<1>3. TypeOK /\ Control /\ Tracking /\ [Next]_vars =>
        [faults' = faults => Orphans' \subseteq Orphans \cup Refused]_vars
  BY OrphaningNeedsTrouble
<1> QED
  BY <1>1, <1>2, <1>3, TypeCorrect, ControlCorrect, OwnershipHolds, PTL
  DEF Spec, OrphansNeedTrouble
=============================================================================

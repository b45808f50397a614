------------------------ MODULE LlmControllerProofs ------------------------
(***************************************************************************)
(* LlmController!ControllerInv is inductive for every number of tasks and  *)
(* of controllers: no task runs detached, a controller runs one at a time, *)
(* and a request that was reported finished has stopped.                   *)
(* LlmSession!SessionInv is inductive on top of it: the editor session and *)
(* its controller never disagree about the request between two calls.      *)
(***************************************************************************)
EXTENDS LlmSession, TLAPS

\* The bounds are positive numbers and the ids start at 1: 0 stands for no task and no request.
LEMMA Constants ==
  /\ MaxTasks \in Nat /\ MaxEpochs \in Nat
  /\ \A t \in TaskIds : t \in Nat /\ t # 0 /\ t <= MaxTasks
  /\ RequestIds = TaskIds
  /\ NoRequest \in ActiveRequests /\ NoRequest.request = 0 /\ NoRequest.task = 0
  /\ UnusedTask \in Tasks /\ UnusedTask.phase = "unused" /\ UnusedTask.request = 0
  BY BoundsAssumption DEF TaskIds, RequestIds, NoRequest, ActiveRequests, UnusedTask, Tasks

\* The empty list of events and the empty list of handles have their types.
LEMMA EmptySequences ==
  /\ <<>> \in Seq(Events) /\ <<>> \in Seq(TaskIds)
  /\ <<>> \in Seq({"Completed", "Failed", "Cancelled", "TimedOut"})
  OBVIOUS

\* A step of a task changes what the task does, and nothing else of it.
LEMMA TaskStepMoves ==
  ASSUME ControllerTypeOK, NEW t \in TaskIds, TaskStep(t)
  PROVE  /\ UNCHANGED TaskVars
         /\ tasks' \in [TaskIds -> Tasks]
         /\ \A u \in TaskIds : u # t => tasks'[u] = tasks[u]
         /\ tasks[t].phase \in {"running", "sent", "dying"}
         /\ tasks'[t].phase \in {"sent", "dying", "ended"}
         /\ tasks'[t].request = tasks[t].request
         /\ tasks'[t].epoch = tasks[t].epoch
<1>1. tasks[t] \in Tasks /\ tasks \in [TaskIds -> Tasks]
  BY DEF ControllerTypeOK
<1>2. CASE TaskSend(t, "done")
  BY <1>1, <1>2 DEF TaskSend, Tasks
<1>3. CASE TaskSend(t, "cancelled")
  BY <1>1, <1>3 DEF TaskSend, Tasks
<1>4. CASE TaskPanic(t)
  BY <1>1, <1>4 DEF TaskPanic, Tasks
<1>5. CASE TaskAborted(t)
  BY <1>1, <1>5 DEF TaskAborted, Tasks
<1>6. CASE TaskEnd(t)
  BY <1>1, <1>6 DEF TaskEnd, Tasks
<1> QED
  BY <1>2, <1>3, <1>4, <1>5, <1>6 DEF TaskStep

\* A live task stays with its request and its controller, and a task that ended
\* stays ended.
LEMMA TaskStepKeeps ==
  ASSUME ControllerInv, NEW t \in TaskIds, TaskStep(t)
  PROVE  ControllerInv'
<1>1. ControllerTypeOK
  BY DEF ControllerInv
<1>2. /\ UNCHANGED TaskVars
      /\ tasks' \in [TaskIds -> Tasks]
      /\ \A u \in TaskIds : u # t => tasks'[u] = tasks[u]
      /\ tasks[t].phase \in {"running", "sent", "dying"}
      /\ tasks'[t].phase \in {"sent", "dying", "ended"}
      /\ tasks'[t].request = tasks[t].request
      /\ tasks'[t].epoch = tasks[t].epoch
  BY <1>1, TaskStepMoves
<1>3. /\ \A u \in TaskIds : Live(u)' => Live(u)
      /\ \A u \in TaskIds : /\ tasks'[u].request = tasks[u].request
                            /\ tasks'[u].epoch = tasks[u].epoch
  BY <1>2 DEF Live
<1>4. ControllerTypeOK'
  BY <1>1, <1>2 DEF ControllerTypeOK, TaskVars
<1>5. SpawnedTasks'
  <2>1. t <= spawned
    <3>1. spawned \in Nat /\ t \in Nat
      BY <1>1, BoundsAssumption DEF ControllerTypeOK, TaskIds
    <3> QED
      BY <1>2, <3>1 DEF ControllerInv, SpawnedTasks, UnusedTask
  <2>2. ASSUME NEW u \in TaskIds PROVE u > spawned => tasks'[u] = UnusedTask
    <3>1. spawned \in Nat /\ t \in Nat /\ u \in Nat
      BY <1>1, BoundsAssumption DEF ControllerTypeOK, TaskIds
    <3> QED
      BY <1>2, <2>1, <3>1 DEF ControllerInv, SpawnedTasks
  <2> QED
    BY <1>2, <1>3, <2>2 DEF ControllerInv, SpawnedTasks, TaskVars
<1>6. ActiveRequest'
  BY <1>1, <1>2, <1>3 DEF ControllerInv, ActiveRequest, TaskVars, ControllerTypeOK,
    ActiveRequests
<1>7. StrayTasks' /\ OneLiveTaskPerController'
  BY <1>2, <1>3 DEF ControllerInv, StrayTasks, OneLiveTaskPerController, Handles, TaskVars
<1>8. ClosingRequest' /\ OpenRequests' /\ OneTerminalPerRequest'
  BY <1>2, <1>3 DEF ControllerInv, ClosingRequest, OpenRequests, OneTerminalPerRequest,
    TaskVars
<1>9. \A r \in RequestIds : DataHeld(r)' => DataHeld(r)
  BY <1>2, <1>3 DEF DataHeld, TaskVars
<1>10. JoinedTerminalMeansStopped'
  BY <1>2, <1>3, <1>9 DEF ControllerInv, JoinedTerminalMeansStopped, TaskVars
<1> QED
  BY <1>4, <1>5, <1>6, <1>7, <1>8, <1>10 DEF ControllerInv

\* A step that leaves every task where it is, and at most sets the token or the
\* abort of a task that was spawned.
TasksStay ==
  /\ tasks' \in [TaskIds -> Tasks]
  /\ \A t \in TaskIds :
       /\ tasks'[t].phase = tasks[t].phase
       /\ tasks'[t].request = tasks[t].request
       /\ tasks'[t].epoch = tasks[t].epoch
       /\ t > spawned => tasks'[t] = tasks[t]

\* A step after which every task has at most moved on by itself (its phase, its output, its
\* token) keeps what the invariant says of the tasks alone.
LEMMA TasksStayKeeps ==
  ASSUME ControllerInv, TasksStay, spawned' = spawned, requests' = requests,
         epoch' \in Nat, epoch <= epoch'
  PROVE  /\ SpawnedTasks'
         /\ \A t \in TaskIds : Live(t)' <=> Live(t)
         /\ OneLiveTaskPerController'
<1>1. \A t \in TaskIds : Live(t)' <=> Live(t)
  BY DEF TasksStay, Live
<1>2. SpawnedTasks'
  <2> SUFFICES ASSUME NEW t \in TaskIds
               PROVE  IF t > spawned THEN tasks'[t] = UnusedTask
                      ELSE /\ tasks'[t].phase # "unused"
                           /\ tasks'[t].request # 0
                           /\ tasks'[t].request <= requests
                           /\ tasks'[t].epoch <= epoch'
    BY DEF SpawnedTasks
  <2>1. tasks[t].epoch \in Nat /\ epoch \in Nat
    BY BoundsAssumption DEF ControllerInv, ControllerTypeOK, Tasks
  <2> QED
    BY <2>1 DEF TasksStay, SpawnedTasks, ControllerInv
<1> QED
  BY <1>1, <1>2 DEF TasksStay, OneLiveTaskPerController, ControllerInv

\* A terminal state of a request that had none is its only one.
LEMMA TerminalCommitted ==
  ASSUME ControllerTypeOK, NEW r \in RequestIds, terminals[r] = <<>>,
         NEW kind \in {"Completed", "Failed", "Cancelled", "TimedOut"},
         terminals' = [terminals EXCEPT ![r] = Append(@, kind)]
  PROVE  /\ terminals' \in [RequestIds -> Seq({"Completed", "Failed", "Cancelled", "TimedOut"})]
         /\ terminals'[r] = <<kind>>
         /\ \A q \in RequestIds : q # r => terminals'[q] = terminals[q]
  BY DEF ControllerTypeOK

-----------------------------------------------------------------------------
(* Steps that keep the request and its task, if there is one. *)

Holds ==
  /\ TasksStay
  /\ UNCHANGED <<reapers, spawned, requests, epoch, terminals>>
  /\ active'.request = active.request /\ active'.task = active.task
  /\ active = NoRequest => active' = NoRequest
  /\ lifecycle' = lifecycle \/ (active.task # 0 /\ lifecycle' = "Cancelling")
  /\ \/ main' = main /\ receipt' = receipt
     \/ /\ main = "Idle"
        /\ main' \in {"ShutdownJoin", "DropJoin"} => active.task # 0
        /\ main' = "ShutdownJoin" => lifecycle' = "Cancelling"
        /\ main' \in {"ShutdownDrain", "Dropped"} => active = NoRequest
        /\ main' = "ShutdownDrain" => receipt' = NoReceipt

\* A step that keeps the request and its task where they are keeps the invariant.
LEMMA HoldsKeeps ==
  ASSUME ControllerInv, ControllerTypeOK', Holds
  PROVE  ControllerInv'
<1>1. SpawnedTasks' /\ OneLiveTaskPerController' /\ \A t \in TaskIds : Live(t)' <=> Live(t)
  <2>1. epoch \in Nat
    BY BoundsAssumption DEF ControllerInv, ControllerTypeOK
  <2> QED
    BY <2>1, TasksStayKeeps DEF Holds
<1>2. ActiveRequest'
  BY DEF Holds, TasksStay, ControllerInv, ActiveRequest, ControllerTypeOK, Busy, Running,
    ActiveRequests, NoRequest
<1>3. StrayTasks'
  BY SMTT(30), <1>1 DEF Holds, TasksStay, ControllerInv, StrayTasks, ActiveRequest, Handles,
    ControllerTypeOK, Busy, Running, ActiveRequests, NoRequest
<1>4. ClosingRequest'
  BY <1>1 DEF Holds, TasksStay, ControllerInv, ClosingRequest, ActiveRequest, NoReceipt,
    NoRequest
<1>5. OpenRequests' /\ OneTerminalPerRequest'
  BY DEF Holds, ControllerInv, OpenRequests, OneTerminalPerRequest
<1>6. JoinedTerminalMeansStopped'
  BY <1>1 DEF Holds, TasksStay, ControllerInv, JoinedTerminalMeansStopped, DataHeld
<1> QED
  BY <1>1, <1>2, <1>3, <1>4, <1>5, <1>6 DEF ControllerInv

(* Steps that end the request in a joined terminal. *)

Releases(kind) ==
  /\ active.request # 0 /\ (active.task # 0 => Finished(active.task))
  /\ active' = NoRequest
  /\ lifecycle' \in JoinedTerminals
  /\ terminals' = [terminals EXCEPT ![active.request] = Append(@, kind)]
  /\ UNCHANGED <<tasks, reapers, spawned, requests, epoch>>
  /\ main = "Idle"
  /\ main' \in {"Idle", "ShutdownDrain"}
  /\ main' = "ShutdownDrain" => receipt' = NoReceipt

\* A step that gives up a request whose task has ended, and commits its terminal, keeps the
\* invariant (poll's joined cancel, resolve_attempt, a cancel between two attempts).
LEMMA ReleasesKeeps ==
  ASSUME ControllerInv, ControllerTypeOK', NEW kind \in {"Completed", "Failed", "Cancelled"},
         Releases(kind)
  PROVE  ControllerInv'
<1>1. /\ active.request \in RequestIds /\ terminals[active.request] = <<>>
      /\ lifecycle # "ShutdownJoinTimedOut" /\ main # "Dropped"
      /\ ControllerTypeOK
  BY DEF Releases, ControllerInv, OpenRequests, ActiveRequest, ControllerTypeOK, Busy, Running,
    ActiveRequests
<1>2. /\ terminals'[active.request] = <<kind>>
      /\ \A q \in RequestIds : q # active.request => terminals'[q] = terminals[q]
  BY <1>1, TerminalCommitted DEF Releases
<1>3. /\ active'.request = 0 /\ active'.task = 0
      /\ \A t \in TaskIds : Live(t)' <=> Live(t)
      /\ \A t \in TaskIds : Live(t) => t # active.task
  BY Constants DEF Releases, Live, Finished
<1>4. SpawnedTasks' /\ OneLiveTaskPerController'
  BY <1>3 DEF Releases, ControllerInv, SpawnedTasks, OneLiveTaskPerController
<1>5. ActiveRequest'
  BY <1>3, Constants DEF Releases, ActiveRequest
<1>6. StrayTasks'
  <2> SUFFICES ASSUME NEW t \in TaskIds, Live(t)
               PROVE  t \in Handles /\ tasks[t].request # 0 /\ tasks[t].epoch # epoch
    BY <1>3 DEF StrayTasks, Handles, Releases
  <2>1. t \in Handles /\ tasks[t].epoch # epoch
    BY <1>1, <1>3 DEF ControllerInv, StrayTasks
  <2>2. tasks[t].request # 0
    BY DEF Live, ControllerInv, SpawnedTasks, UnusedTask
  <2> QED
    BY <2>1, <2>2
<1>7. ClosingRequest'
  BY DEF Releases, ClosingRequest, NoReceipt
<1>8. OpenRequests' /\ OneTerminalPerRequest'
  <2>1. active.request <= requests /\ requests \in Nat /\ active.request \in Nat
    BY <1>1, Constants DEF ControllerInv, ActiveRequest, ControllerTypeOK
  <2>2. \A q \in RequestIds : q > requests => q # active.request /\ terminals[q] = <<>>
    BY <2>1, Constants DEF ControllerInv, OpenRequests
  <2>3. OpenRequests'
    BY <1>2, <1>3, <2>2, Constants DEF Releases, OpenRequests
  <2>4. OneTerminalPerRequest'
    <3>1. Len(terminals'[active.request]) <= 1
      BY <1>2
    <3>2. \A q \in RequestIds : q # active.request => Len(terminals'[q]) <= 1
      BY <1>2 DEF ControllerInv, OneTerminalPerRequest
    <3> QED
      BY <3>1, <3>2 DEF OneTerminalPerRequest
  <2> QED
    BY <2>3, <2>4
<1>9. JoinedTerminalMeansStopped'
  <2> SUFFICES ASSUME NEW r \in RequestIds,
                      \E i \in 1 .. Len(terminals'[r]) : terminals'[r][i] # "TimedOut"
               PROVE  ~DataHeld(r)' /\ \A t \in TaskIds : tasks[t].request = r => ~Live(t)
    BY <1>3 DEF JoinedTerminalMeansStopped, Releases
  <2>1. \A t \in TaskIds : tasks[t].request = r => ~Live(t)
    <3>1. CASE r = active.request
      BY <1>3, <3>1 DEF ControllerInv, StrayTasks
    <3>2. CASE r # active.request
      BY <1>2, <3>2 DEF ControllerInv, JoinedTerminalMeansStopped
    <3> QED
      BY <3>1, <3>2
  <2>2. ~DataHeld(r)'
    BY <1>3, <2>1, Constants DEF DataHeld, Releases, Live
  <2> QED
    BY <2>1, <2>2
<1> QED
  BY <1>4, <1>5, <1>6, <1>7, <1>8, <1>9 DEF ControllerInv

(* Steps that spawn an attempt: of a new request, or of the one that waits. *)

Spawns(r) ==
  /\ main = "Idle" /\ active.task = 0
  /\ lifecycle \in {"Idle", "Waiting"} \cup JoinedTerminals
  /\ SpawnAttempt(r)
  /\ \/ active = NoRequest /\ r = requests + 1
     \/ active.request # 0 /\ r = active.request
  /\ requests' = IF r > requests THEN r ELSE requests
  /\ active'.request = r /\ active'.task = spawned + 1
  /\ lifecycle' \in Running
  /\ UNCHANGED <<main, reapers, epoch, receipt, terminals>>

\* A step that spawns a task for a request that has none keeps the invariant (start, repair).
LEMMA SpawnsKeeps ==
  ASSUME ControllerInv, ControllerTypeOK', NEW r \in Nat, Spawns(r)
  PROVE  ControllerInv'
<1> DEFINE new == spawned + 1
<1>1. /\ ControllerTypeOK
      /\ new \in TaskIds /\ r \in RequestIds /\ spawned \in Nat /\ requests \in Nat
      /\ requests <= requests' /\ r <= requests'
      /\ epoch \in Nat /\ epoch \in 0 .. MaxEpochs
  <2>1. ControllerTypeOK
    BY DEF ControllerInv
  <2>2. /\ spawned \in Nat /\ requests \in Nat /\ requests <= spawned /\ spawned < MaxTasks
        /\ epoch \in Nat /\ epoch \in 0 .. MaxEpochs
    BY <2>1, BoundsAssumption DEF Spawns, SpawnAttempt, ControllerTypeOK
  <2>3. r # 0 /\ (r = requests + 1 \/ r <= requests)
    BY <2>2 DEF Spawns, ControllerInv, ActiveRequest
  <2> QED
    BY <2>1, <2>2, <2>3, BoundsAssumption DEF Spawns, TaskIds, RequestIds
<1>2. /\ tasks'[new].phase = "running" /\ tasks'[new].request = r
      /\ tasks'[new].epoch = epoch
      /\ \A t \in TaskIds : t # new => tasks'[t] = tasks[t]
  BY <1>1 DEF Spawns, SpawnAttempt, ControllerTypeOK, UnusedTask
<1>3. /\ terminals[r] = <<>>
      /\ \A t \in TaskIds : Live(t) => /\ t \in Handles
                                       /\ tasks[t].request # r
                                       /\ tasks[t].epoch # epoch
  <2>1. ASSUME NEW t \in TaskIds, Live(t)
        PROVE  /\ t # active.task /\ tasks[t].request <= requests
               /\ tasks[t].request \in Nat
    BY ZenonT(60), <2>1, <1>1, Constants DEF Live, ControllerInv, SpawnedTasks, UnusedTask, Spawns,
      ControllerTypeOK, Tasks
  <2>2. ASSUME NEW t \in TaskIds, Live(t)
        PROVE  t \in Handles /\ tasks[t].request # r /\ tasks[t].epoch # epoch
    BY <2>1, <2>2, <1>1 DEF ControllerInv, StrayTasks, Spawns, JoinedTerminals
  <2>3. terminals[r] = <<>>
    BY <1>1 DEF ControllerInv, OpenRequests, Spawns
  <2> QED
    BY <2>2, <2>3
<1>4. \A t \in TaskIds : Live(t)' <=> t = new \/ Live(t)
  <2>1. ~Live(new)
    BY <1>1 DEF Live, ControllerInv, SpawnedTasks, UnusedTask
  <2> QED
    BY <1>1, <1>2, <2>1 DEF Live
<1>5. SpawnedTasks'
  <2> SUFFICES ASSUME NEW t \in TaskIds
               PROVE  IF t > new THEN tasks'[t] = UnusedTask
                      ELSE /\ tasks'[t].phase # "unused"
                           /\ tasks'[t].request # 0
                           /\ tasks'[t].request <= requests'
                           /\ tasks'[t].epoch <= epoch
    BY DEF SpawnedTasks, Spawns, SpawnAttempt
  <2>1. t \in Nat /\ r # 0
    BY <1>1, Constants
  <2>2. CASE t = new
    BY <1>1, <1>2, <2>1, <2>2
  <2>3. CASE t # new
    <3>1. tasks[t] \in Tasks /\ tasks'[t] = tasks[t]
      BY <1>1, <1>2, <2>3 DEF ControllerTypeOK
    <3>2. tasks[t].request \in Nat
      BY <3>1, Constants DEF Tasks
    <3>3. IF t > spawned THEN tasks[t] = UnusedTask
          ELSE /\ tasks[t].phase # "unused" /\ tasks[t].request # 0
               /\ tasks[t].request <= requests /\ tasks[t].epoch <= epoch
      BY DEF ControllerInv, SpawnedTasks
    <3>4. requests' \in Nat
      BY <1>1 DEF Spawns
    <3> QED
      BY <1>1, <2>1, <2>3, <3>1, <3>2, <3>3, <3>4
  <2> QED
    BY <2>2, <2>3
<1>6. ActiveRequest'
  BY <1>1, <1>2, Constants DEF Spawns, SpawnAttempt, ActiveRequest, Busy, Running
<1>7. StrayTasks'
  BY <1>2, <1>3, <1>4 DEF Spawns, StrayTasks, Handles
<1>8. OneLiveTaskPerController'
  BY <1>2, <1>3, <1>4 DEF ControllerInv, OneLiveTaskPerController
<1>9. ClosingRequest' /\ OneTerminalPerRequest'
  BY DEF Spawns, ControllerInv, ClosingRequest, OneTerminalPerRequest
<1>10. OpenRequests'
  <2>1. active'.request = r /\ terminals' = terminals /\ requests \in Nat
    BY <1>1 DEF Spawns, ControllerTypeOK, ControllerInv
  <2>2. \A q \in RequestIds : q \in Nat
    BY Constants
  <2>3. \A q \in RequestIds : q > requests' => q > requests
    BY <2>1, <2>2 DEF Spawns
  <2> QED
    BY <1>3, <2>1, <2>3 DEF ControllerInv, OpenRequests
<1>11. JoinedTerminalMeansStopped'
  <2> SUFFICES ASSUME NEW q \in RequestIds,
                      \E i \in 1 .. Len(terminals[q]) : terminals[q][i] # "TimedOut"
               PROVE  ~DataHeld(q)' /\ \A t \in TaskIds : tasks'[t].request = q => ~Live(t)'
    BY DEF JoinedTerminalMeansStopped, Spawns
  <2>1. q # r
    BY <1>3
  <2>2. \A t \in TaskIds : tasks'[t].request = q => ~Live(t)'
    BY <1>2, <1>4, <2>1 DEF ControllerInv, JoinedTerminalMeansStopped
  <2> QED
    BY <2>1, <2>2 DEF DataHeld, Live, Spawns
<1> QED
  BY <1>5, <1>6, <1>7, <1>8, <1>9, <1>10, <1>11 DEF ControllerInv

-----------------------------------------------------------------------------
(* The actions, one by one. *)

\* start and the repair branch of resolve_attempt are steps of that kind.
LEMMA SpawningActionsKeep ==
  ASSUME ControllerInv, Start \/ ResolveRepair
  PROVE  ControllerInv'
<1>1. ControllerTypeOK /\ active \in ActiveRequests
  BY DEF ControllerInv, ControllerTypeOK
<1>2. ASSUME NEW r \in RequestIds, SpawnAttempt(r)
      PROVE  /\ tasks' \in [TaskIds -> Tasks] /\ spawned' \in 0 .. MaxTasks
             /\ spawned' = spawned + 1 /\ spawned + 1 \in TaskIds
  <2>1. [UnusedTask EXCEPT !.phase = "running", !.request = r, !.epoch = epoch] \in Tasks
    <3>1. epoch \in 0 .. MaxEpochs
      BY <1>1, BoundsAssumption DEF ControllerTypeOK
    <3> QED
      BY <3>1 DEF UnusedTask, Tasks
  <2> QED
    BY <1>1, <1>2, <2>1, BoundsAssumption DEF SpawnAttempt, ControllerTypeOK, TaskIds
<1>3. CASE Start
  <2>1. requests + 1 \in RequestIds /\ requests + 1 \in Nat /\ requests \in Nat
    BY <1>1, <1>3, BoundsAssumption DEF Start, SpawnAttempt, ControllerTypeOK, RequestIds
  <2>2. requests + 1 <= spawned + 1
    BY <1>1, BoundsAssumption DEF ControllerTypeOK
  <2>3. active' \in ActiveRequests /\ active'.request = requests + 1 /\ active'.task = spawned + 1
    BY ZenonT(60), <1>2, <1>3, <2>1, Constants DEF Start, ActiveRequests, NoRequest
  <2>4. ControllerTypeOK'
    BY <1>1, <1>2, <1>3, <2>1, <2>2, <2>3 DEF Start, ControllerTypeOK, historyVars, Lifecycles,
      Busy, Running
  <2>5. Spawns(requests + 1)
    BY <1>3, <2>1, <2>3, Constants DEF Start, Spawns, historyVars, Running, JoinedTerminals
  <2> QED
    BY <2>1, <2>4, <2>5, SpawnsKeeps
<1>4. CASE ResolveRepair
  <2>1. /\ active.request \in RequestIds /\ active.request \in Nat /\ active.task = 0
        /\ active.request # 0 /\ active.request <= requests /\ requests \in Nat
    BY <1>1, <1>4, Constants DEF ResolveRepair, ControllerInv, ActiveRequest, ActiveRequests,
      NoRequest, Running, ControllerTypeOK
  <2>2. /\ active' \in ActiveRequests /\ active'.request = active.request
        /\ active'.task = spawned + 1
    <3>1. SpawnAttempt(active.request)
      BY <1>4 DEF ResolveRepair
    <3>2. spawned + 1 \in TaskIds
      BY <1>2, <2>1, <3>1
    <3>3. active.attempt + 1 \in Nat
      BY <1>1 DEF ActiveRequests
    <3> QED
      BY <1>1, <1>4, <2>1, <3>2, <3>3 DEF ResolveRepair, ActiveRequests
  <2>3. ControllerTypeOK'
    <3>1. requests <= spawned + 1
      BY <1>1, BoundsAssumption DEF ControllerTypeOK
    <3> QED
      BY <1>1, <1>2, <1>4, <2>1, <2>2, <3>1 DEF ResolveRepair, ControllerTypeOK, historyVars,
        Lifecycles, Busy, Running
  <2>4. Spawns(active.request)
    BY <1>4, <2>1, <2>2 DEF ResolveRepair, Spawns, historyVars, Running, NoRequest
  <2> QED
    BY <2>1, <2>3, <2>4, SpawnsKeeps
<1> QED
  BY <1>3, <1>4

\* Appending an event about a request gives a list of events.
LEMMA EventsTyped ==
  ASSUME ControllerInv, NEW r \in RequestIds,
         NEW kind \in {"CancelledJoined", "FailedJoined", "AttemptJoined"}
  PROVE  Append(pending, [kind |-> kind, request |-> r]) \in Seq(Events)
  BY DEF ControllerInv, ControllerTypeOK, Events

\* poll's terminal branches, resolve_attempt and a cancel without a task release their request.
LEMMA ReleasingActionsKeep ==
  ASSUME ControllerInv,
         PollLost \/ PollJoinedCancelled \/ \E k \in {"Completed", "Failed"} : ResolveTerminal(k)
  PROVE  ControllerInv'
<1>1. ControllerTypeOK /\ (active.task # 0 => active.request # 0)
  BY Constants DEF ControllerInv, ActiveRequest
<1>2. active.request # 0 => active.request \in RequestIds /\ terminals[active.request] = <<>>
  BY <1>1 DEF ControllerInv, OpenRequests, ControllerTypeOK, ActiveRequests
<1>3. ASSUME NEW kind \in {"Completed", "Failed", "Cancelled"}, Releases(kind),
             UNCHANGED <<receipt, cancelled>>,
             pending' \in Seq(Events), returned' \in Seq(Events), terminal' = TRUE
      PROVE  ControllerInv'
  <2>1. ControllerTypeOK'
    <3>1. /\ terminals' \in [RequestIds -> Seq({"Completed", "Failed", "Cancelled", "TimedOut"})]
          /\ ControllerTypeOK
      BY <1>2, <1>3, TerminalCommitted DEF Releases, ControllerInv
    <3> QED
      BY <1>3, <3>1, Constants DEF Releases, ControllerTypeOK, Lifecycles, JoinedTerminals
  <2> QED
    BY <1>3, <2>1, ReleasesKeeps
<1>4. CASE PollLost
  <2>1. PICK kind \in {"CancelledJoined", "FailedJoined"} :
          /\ CommitTerminal(kind, active.request,
                            IF kind = "CancelledJoined" THEN "Cancelled" ELSE "Failed")
          /\ returned' = Append(pending, [kind |-> kind, request |-> active.request])
    BY <1>4 DEF PollLost
  <2>2. Releases(IF kind = "CancelledJoined" THEN "Cancelled" ELSE "Failed")
    BY <1>1, <1>4, <2>1 DEF PollLost, PollFrame, PollGuard, Releases, CommitTerminal,
      JoinedTerminals
  <2>3. pending' \in Seq(Events) /\ returned' \in Seq(Events)
    <3>1. active.request \in RequestIds /\ pending' = <<>>
      BY <1>1, <1>2, <1>4 DEF PollLost, PollGuard
    <3>2. returned' \in Seq(Events)
      BY <1>4, <2>1, <3>1, EventsTyped DEF PollLost
    <3> QED
      BY <3>1, <3>2
  <2> QED
    BY <1>3, <1>4, <2>1, <2>2, <2>3 DEF PollLost, PollFrame, CommitTerminal
<1>5. CASE PollJoinedCancelled
  <2>1. Releases("Cancelled")
    BY <1>1, <1>5 DEF PollJoinedCancelled, PollFrame, PollGuard, Releases, CommitTerminal,
      JoinedTerminals
  <2>2. pending' \in Seq(Events) /\ returned' \in Seq(Events)
    <3>1. active.request \in RequestIds /\ pending' = <<>>
      BY <1>1, <1>2, <1>5 DEF PollJoinedCancelled, PollGuard
    <3>2. returned' \in Seq(Events)
      BY <1>5, <3>1, EventsTyped DEF PollJoinedCancelled
    <3> QED
      BY <3>1, <3>2
  <2> QED
    BY <1>3, <1>5, <2>1, <2>2 DEF PollJoinedCancelled, PollFrame, CommitTerminal
<1>6. ASSUME NEW k \in {"Completed", "Failed"}, ResolveTerminal(k)
      PROVE  ControllerInv'
  <2>1. active.task = 0 /\ active.request # 0
    BY <1>6 DEF ResolveTerminal, ControllerInv, ActiveRequest, Running
  <2>2. Releases(k)
    BY <1>6, <2>1 DEF ResolveTerminal, Releases, CommitTerminal, JoinedTerminals, executorVars
  <2> QED
    BY <1>1, <1>3, <1>6, <2>2 DEF ResolveTerminal, CommitTerminal, ControllerTypeOK
<1> QED
  BY <1>4, <1>5, <1>6

\* Setting the token or the abort of the active task moves no task.
LEMMA FlagsSetStay ==
  ASSUME ControllerInv, active.task # 0, NEW token \in BOOLEAN, NEW abort \in BOOLEAN,
         tasks' = [tasks EXCEPT ![active.task].token = token, ![active.task].abort = abort]
  PROVE  TasksStay
<1>1. /\ tasks \in [TaskIds -> Tasks] /\ active.task \in TaskIds /\ active.task <= spawned
      /\ active.task \in Nat /\ spawned \in Nat
  BY BoundsAssumption, Constants DEF ControllerInv, ControllerTypeOK, ActiveRequest,
    ActiveRequests
<1>2. tasks[active.task] \in Tasks
  BY <1>1
<1>3. [tasks[active.task] EXCEPT !.token = token, !.abort = abort] \in Tasks
  BY <1>2 DEF Tasks
<1>4. tasks' \in [TaskIds -> Tasks]
  BY <1>1, <1>3
<1>5. \A t \in TaskIds : t > spawned => t # active.task
  BY <1>1, Constants
<1> QED
  BY <1>1, <1>4, <1>5 DEF TasksStay, Tasks

\* Tasks that do not change have, in particular, not gone backwards.
LEMMA UnchangedTasksStay ==
  ASSUME ControllerInv, tasks' = tasks
  PROVE  TasksStay
  BY DEF TasksStay, ControllerInv, ControllerTypeOK

\* The steps of the tasks, the clock, a poll that does not release, a cancel of a running task
\* and the join of a shutdown hold on to the request.
LEMMA HoldingActionsKeep ==
  ASSUME ControllerInv, PollPending \/ PollRunning \/ CancelOverdue
  PROVE  ControllerInv'
<1>1. ControllerTypeOK /\ active \in ActiveRequests
  BY DEF ControllerInv, ControllerTypeOK
<1>2. CASE PollPending
  <2>1. TasksStay
    BY <1>2, UnchangedTasksStay DEF PollPending, executorVars
  <2>2. ControllerTypeOK'
    BY <1>1, <1>2 DEF PollPending, executorVars, historyVars, ControllerTypeOK
  <2>3. Holds
    BY <1>2, <2>1 DEF PollPending, executorVars, historyVars, Holds
  <2> QED
    BY <2>2, <2>3, HoldsKeeps
<1>3. CASE PollRunning
  <2>1. active.task \in TaskIds /\ active.task # 0 /\ tasks[active.task] \in Tasks
    BY <1>1, <1>3 DEF PollRunning, PollGuard, ControllerTypeOK, ActiveRequests
  <2>2. PICK abort \in BOOLEAN : tasks' = [tasks EXCEPT ![active.task].abort = abort]
    <3>1. tasks[active.task].abort \in BOOLEAN
      BY <2>1 DEF Tasks
    <3> QED
      BY <1>3, <3>1 DEF PollRunning, AbortIfOverdue
  <2>3. TasksStay
    <3>1. tasks[active.task].token \in BOOLEAN
      BY <2>1 DEF Tasks
    <3>2. tasks' = [tasks EXCEPT ![active.task].token = tasks[active.task].token,
                                 ![active.task].abort = abort]
      BY <1>1, <2>1, <2>2, <3>1 DEF ControllerTypeOK, Tasks
    <3> QED
      BY <2>1, <3>1, <3>2, FlagsSetStay
  <2>4. Output \in {"none", "done", "cancelled"}
    BY <1>1, <2>1 DEF Output, Tasks, ActiveRequests
  <2>5. /\ active' \in ActiveRequests /\ active'.request = active.request
        /\ active'.task = active.task
    BY <1>1, <1>3, <2>4 DEF PollRunning, ActiveRequests
  <2>6. ControllerTypeOK'
    BY <1>1, <1>3, <2>3, <2>5 DEF PollRunning, PollFrame, TasksStay, ControllerTypeOK
  <2>7. Holds
    BY <1>3, <2>1, <2>3, <2>5, Constants DEF PollRunning, PollFrame, Holds
  <2> QED
    BY <2>6, <2>7, HoldsKeeps
<1>4. CASE CancelOverdue
  <2>1. TasksStay
    BY <1>4, UnchangedTasksStay DEF CancelOverdue
  <2>2. /\ active' \in ActiveRequests /\ active'.request = active.request
        /\ active'.task = active.task /\ active # NoRequest
    BY <1>1, <1>4 DEF CancelOverdue, ActiveRequests, NoRequest
  <2>3. ControllerTypeOK'
    BY <1>1, <1>4, <2>2 DEF CancelOverdue, ControllerTypeOK
  <2>4. Holds
    BY <1>4, <2>1, <2>2 DEF CancelOverdue, Holds
  <2> QED
    BY <2>3, <2>4, HoldsKeeps
<1> QED
  BY <1>2, <1>3, <1>4

\* Cancel, and the cancel that begins a shutdown.
LEMMA CancellingActionsKeep ==
  ASSUME ControllerInv, Cancel \/ ShutdownBegin
  PROVE  ControllerInv'
<1>1. /\ ControllerTypeOK /\ active \in ActiveRequests
      /\ active # NoRequest => active.request \in RequestIds /\ active.request # 0
      /\ NoReceipt \in Receipts
  BY Constants DEF ControllerInv, ControllerTypeOK, ActiveRequest, ActiveRequests, NoReceipt,
    Receipts
<1>2. /\ main = "Idle" /\ main' \in {"Idle", "ShutdownDrain", "ShutdownJoin"}
      /\ UNCHANGED <<reapers, spawned, requests, epoch, returned>>
      /\ main' = "ShutdownDrain" => active.task = 0 /\ receipt' = NoReceipt
      /\ main' = "ShutdownJoin" => active.task # 0
      /\ \/ main' = main /\ receipt' = receipt
         \/ receipt' = NoReceipt
  BY DEF Cancel, ShutdownBegin
<1>3. CASE active = NoRequest
  <2>1. UNCHANGED <<lifecycle, terminal, active, pending, tasks, cancelled, terminals>>
    BY <1>3 DEF Cancel, CancelActive, ShutdownBegin, controllerVars
  <2>2. TasksStay
    BY <2>1, UnchangedTasksStay
  <2>3. ControllerTypeOK'
    BY <1>1, <1>2, <2>1 DEF ControllerTypeOK
  <2>4. Holds
    BY <1>2, <1>3, <2>1, <2>2, Constants DEF Holds
  <2> QED
    BY <2>3, <2>4, HoldsKeeps
<1>4. CASE active # NoRequest /\ active.task = 0
  <2>1. CancelActive
    BY <1>4 DEF Cancel, ShutdownBegin
  <2>2. Releases("Cancelled")
    BY <1>1, <1>2, <1>4, <2>1 DEF CancelActive, CommitTerminal, Releases, JoinedTerminals
  <2>3. terminals[active.request] = <<>>
    BY <1>1, <1>4 DEF ControllerInv, OpenRequests
  <2>4. /\ terminals' \in [RequestIds -> Seq({"Completed", "Failed", "Cancelled", "TimedOut"})]
        /\ pending' \in Seq(Events)
    <3>1. terminals' = [terminals EXCEPT ![active.request] = Append(@, "Cancelled")]
      BY <2>2 DEF Releases
    <3>2. pending' = Append(pending, [kind |-> "CancelledJoined", request |-> active.request])
      BY <1>4, <2>1 DEF CancelActive
    <3> QED
      BY <1>1, <1>4, <2>3, <3>1, <3>2, TerminalCommitted, EventsTyped
  <2>5. ControllerTypeOK'
    BY <1>1, <1>2, <1>4, <2>1, <2>2, <2>4, Constants DEF CancelActive, CommitTerminal, Releases,
      ControllerTypeOK, Lifecycles, JoinedTerminals
  <2> QED
    BY <2>2, <2>5, ReleasesKeeps
<1>5. CASE active # NoRequest /\ active.task # 0
  <2>1. CancelActive
    BY <1>5 DEF Cancel, ShutdownBegin
  <2>2. active.task \in TaskIds /\ tasks[active.task] \in Tasks
    BY <1>1, <1>5 DEF ControllerTypeOK, ActiveRequests
  <2>3. TasksStay
    <3>1. tasks[active.task].abort \in BOOLEAN
      BY <2>2 DEF Tasks
    <3>2. tasks' = [tasks EXCEPT ![active.task].token = TRUE]
      BY <1>5, <2>1 DEF CancelActive
    <3>3. tasks' = [tasks EXCEPT ![active.task].token = TRUE,
                                 ![active.task].abort = tasks[active.task].abort]
      BY <1>1, <2>2, <3>1, <3>2 DEF ControllerTypeOK, Tasks
    <3> QED
      BY <1>5, <3>1, <3>3, FlagsSetStay
  <2>4. /\ active' \in ActiveRequests /\ active'.request = active.request
        /\ active'.task = active.task /\ lifecycle' = "Cancelling"
        /\ UNCHANGED <<terminal, terminals, pending>>
        /\ cancelled' \subseteq RequestIds
    BY <1>1, <1>5, <2>1 DEF CancelActive, ActiveRequests, ControllerTypeOK
  <2>5. ControllerTypeOK'
    BY <1>1, <1>2, <2>3, <2>4 DEF TasksStay, ControllerTypeOK, Lifecycles, Busy
  <2>6. Holds
    BY <1>2, <1>5, <2>3, <2>4 DEF Holds
  <2> QED
    BY <2>5, <2>6, HoldsKeeps
<1> QED
  BY <1>3, <1>4, <1>5

\* The joined attempt goes to the caller; its request waits, without a task.
LEMMA PollJoinedKeeps ==
  ASSUME ControllerInv, PollJoined
  PROVE  ControllerInv'
<1>1. /\ ControllerTypeOK /\ active \in ActiveRequests /\ active.task # 0
      /\ Finished(active.task)
      /\ active.request # 0 /\ active.request \in RequestIds
  BY Constants DEF ControllerInv, ControllerTypeOK, ActiveRequest, PollJoined, PollGuard,
    ActiveRequests
<1>2. /\ active' \in ActiveRequests /\ active'.request = active.request /\ active'.task = 0
      /\ lifecycle' = "Waiting" /\ main = "Idle" /\ main' = "Idle"
      /\ UNCHANGED <<terminal, terminals, tasks, receipt, reapers, spawned, requests, epoch,
                     cancelled>>
  BY <1>1 DEF PollJoined, PollFrame, PollGuard, ActiveRequests
<1>3. ControllerTypeOK'
  <2>1. pending' = <<>> /\ returned' = Append(pending, [kind |-> "AttemptJoined",
                                                       request |-> active.request])
    BY DEF PollJoined
  <2>2. returned' \in Seq(Events)
    BY <1>1, <2>1, EventsTyped
  <2> QED
    BY <1>1, <1>2, <2>1, <2>2 DEF ControllerTypeOK, Lifecycles, Busy
<1>4. SpawnedTasks' /\ OneLiveTaskPerController' /\ \A t \in TaskIds : Live(t)' <=> Live(t)
  <2>1. TasksStay
    BY <1>2, UnchangedTasksStay
  <2> QED
    BY <1>1, <1>2, <2>1, BoundsAssumption, TasksStayKeeps DEF ControllerTypeOK
<1>5. ActiveRequest'
  BY <1>1, <1>2 DEF ControllerInv, ActiveRequest, Busy
<1>6. StrayTasks'
  <2>1. lifecycle # "ShutdownJoinTimedOut"
    BY <1>1 DEF ControllerInv, ActiveRequest, Running
  <2>2. \A t \in TaskIds : Live(t) => t # active.task
    BY <1>1 DEF Live, Finished
  <2> QED
    BY <1>2, <1>4, <2>1, <2>2 DEF ControllerInv, StrayTasks, Handles
<1>7. ClosingRequest' /\ OpenRequests' /\ OneTerminalPerRequest'
  BY <1>2 DEF ControllerInv, ClosingRequest, OpenRequests, OneTerminalPerRequest
<1>8. JoinedTerminalMeansStopped'
  BY <1>2, <1>4 DEF ControllerInv, JoinedTerminalMeansStopped, DataHeld
<1> QED
  BY <1>3, <1>4, <1>5, <1>6, <1>7, <1>8 DEF ControllerInv

\* The join of a shutdown returned: the request is gone from the controller, and
\* is closing when the join was clean.
LEMMA ShutdownJoinsKeep ==
  ASSUME ControllerInv, ShutdownJoined \/ ShutdownJoinFailed
  PROVE  ControllerInv'
<1>1. /\ ControllerTypeOK /\ active.task # 0 /\ Finished(active.task)
      /\ active.request # 0 /\ active.request \in RequestIds
      /\ lifecycle = "Cancelling" /\ active.request <= requests
      /\ terminals[active.request] = <<>>
  <2>1. ControllerTypeOK /\ Finished(active.task) /\ main = "ShutdownJoin"
    BY DEF ControllerInv, ShutdownJoined, ShutdownJoinFailed
  <2>2. /\ active.task # 0 /\ active.request # 0 /\ lifecycle = "Cancelling"
        /\ active.request <= requests
    BY <2>1, Constants DEF ControllerInv, ActiveRequest
  <2>3. active.request \in RequestIds
    BY <2>1, <2>2 DEF ControllerTypeOK, ActiveRequests
  <2> QED
    BY <2>1, <2>2, <2>3 DEF ControllerInv, OpenRequests
<1>2. /\ active' = NoRequest /\ active'.request = 0 /\ active'.task = 0
      /\ main' = "ShutdownDrain"
      /\ UNCHANGED <<lifecycle, terminal, terminals, reapers, tasks, pending, spawned, requests,
                     epoch, returned, cancelled>>
  BY Constants DEF ShutdownJoined, ShutdownJoinFailed, ShutdownFrame
<1>3. /\ receipt' \in Receipts /\ receipt'.request = active.request
      /\ receipt'.join \in {"Joined", "Panicked"}
      /\ receipt'.join = "Panicked" => receipt'.diagnostic
  <2>1. receipt \in Receipts
    BY <1>1 DEF ControllerTypeOK
  <2> QED
    BY <1>1, <2>1 DEF ShutdownJoined, ShutdownJoinFailed, Receipts
<1>4. ControllerTypeOK'
  BY <1>1, <1>2, <1>3, Constants DEF ControllerTypeOK
<1>5. SpawnedTasks' /\ OneLiveTaskPerController' /\ \A t \in TaskIds : Live(t)' <=> Live(t)
  <2>1. TasksStay
    BY <1>2, UnchangedTasksStay
  <2> QED
    BY <1>1, <1>2, <2>1, BoundsAssumption, TasksStayKeeps DEF ControllerTypeOK
<1>6. \A t \in TaskIds : Live(t) => t # active.task /\ tasks[t].request # 0
  BY <1>1 DEF Live, Finished, ControllerInv, SpawnedTasks, UnusedTask
<1>7. ActiveRequest' /\ StrayTasks'
  <2>1. ActiveRequest'
    BY <1>2 DEF ActiveRequest
  <2>2. StrayTasks'
    BY <1>1, <1>2, <1>5, <1>6 DEF ControllerInv, StrayTasks, Handles, ActiveRequest
  <2> QED
    BY <2>1, <2>2
<1>8. ClosingRequest'
  <2>1. \A t \in TaskIds : tasks[t].request = active.request => ~Live(t)
    BY <1>6 DEF ControllerInv, StrayTasks
  <2> QED
    BY <1>1, <1>2, <1>3, <1>5, <2>1 DEF ClosingRequest
<1>9. OpenRequests' /\ OneTerminalPerRequest'
  BY <1>2, Constants DEF ControllerInv, OpenRequests, OneTerminalPerRequest
<1>10. JoinedTerminalMeansStopped'
  BY <1>2, <1>5, Constants DEF ControllerInv, JoinedTerminalMeansStopped, DataHeld
<1> QED
  BY <1>4, <1>5, <1>7, <1>8, <1>9, <1>10 DEF ControllerInv

-----------------------------------------------------------------------------
(* Steps that give a task up to a reaper. *)

\* A handle pushed on the reapers is one of them, and the others stay.
LEMMA AppendedHandle ==
  ASSUME reapers \in Seq(TaskIds), NEW t \in TaskIds, reapers' = Append(reapers, t)
  PROVE  reapers' \in Seq(TaskIds) /\ Handles' = Handles \cup {t}
<1>1. /\ Len(reapers') = Len(reapers) + 1 /\ Len(reapers) \in Nat
      /\ \A i \in 1 .. Len(reapers) : reapers'[i] = reapers[i]
      /\ reapers'[Len(reapers) + 1] = t
  OBVIOUS
<1>2. \A u : u \in Handles' <=> \E i \in 1 .. (Len(reapers) + 1) : reapers'[i] = u
  BY <1>1 DEF Handles
<1>3. \A i \in 1 .. (Len(reapers) + 1) : i \in 1 .. Len(reapers) \/ i = Len(reapers) + 1
  BY <1>1
<1>4. \A u : u \in Handles' <=> u \in Handles \/ u = t
  <2> TAKE u
  <2>1. ASSUME u \in Handles PROVE u \in Handles'
    <3>1. PICK i \in 1 .. Len(reapers) : reapers[i] = u
      BY <2>1 DEF Handles
    <3>2. i \in 1 .. (Len(reapers) + 1) /\ reapers'[i] = u
      BY <1>1, <3>1
    <3> QED
      BY <1>2, <3>2
  <2>2. t \in Handles'
    <3>1. Len(reapers) + 1 \in 1 .. (Len(reapers) + 1)
      BY <1>1
    <3> QED
      BY <1>1, <1>2, <3>1
  <2>3. ASSUME u \in Handles', u # t PROVE u \in Handles
    <3>1. PICK i \in 1 .. (Len(reapers) + 1) : reapers'[i] = u
      BY <1>2, <2>3
    <3>2. i \in 1 .. Len(reapers)
      BY <1>1, <1>3, <2>3, <3>1
    <3> QED
      BY <1>1, <3>1, <3>2 DEF Handles
  <2> QED
    BY <2>1, <2>2, <2>3
<1> QED
  BY <1>4

GivesUp ==
  /\ active.request # 0
  /\ active' = NoRequest
  /\ TasksStay
  /\ \A t \in TaskIds : t \in Handles \/ (t = active.task /\ Live(t)) => t \in Handles'
  /\ UNCHANGED <<spawned, requests, epoch>>
  /\ \/ /\ main = "ShutdownJoin" /\ main' = "ShutdownDrain"
        /\ lifecycle' = "ShutdownJoinTimedOut" /\ receipt'.diagnostic
        /\ terminals' = [terminals EXCEPT ![active.request] = Append(@, "TimedOut")]
     \/ /\ main \in {"Idle", "DropJoin"} /\ main' = "Dropped"
        /\ UNCHANGED <<lifecycle, terminals>>

\* A step that hands the running task over to the reapers keeps the invariant: the task is
\* owned by the executor from then on.
LEMMA GivesUpKeeps ==
  ASSUME ControllerInv, ControllerTypeOK', GivesUp
  PROVE  ControllerInv'
<1>1. /\ ControllerTypeOK /\ active.request \in RequestIds
      /\ active.request <= requests /\ terminals[active.request] = <<>>
      /\ active'.request = 0 /\ active'.task = 0
  BY Constants DEF GivesUp, ControllerInv, ControllerTypeOK, ActiveRequest, ActiveRequests,
    OpenRequests
<1>2. SpawnedTasks' /\ OneLiveTaskPerController' /\ \A t \in TaskIds : Live(t)' <=> Live(t)
  BY <1>1, BoundsAssumption, TasksStayKeeps DEF GivesUp, ControllerTypeOK
<1>3. /\ \A q \in RequestIds : q # active.request => terminals'[q] = terminals[q]
      /\ terminals'[active.request] \in {<<>>, <<"TimedOut">>}
  BY <1>1, TerminalCommitted DEF GivesUp
<1>4. ActiveRequest'
  BY <1>1 DEF GivesUp, ActiveRequest
<1>5. StrayTasks'
  <2> SUFFICES ASSUME NEW t \in TaskIds, Live(t)
               PROVE  /\ t \in Handles'
                      /\ tasks[t].request # 0
                      /\ lifecycle' = "ShutdownJoinTimedOut" \/ main' = "Dropped"
    BY <1>1, <1>2 DEF StrayTasks, GivesUp, TasksStay
  <2>1. t \in Handles'
    BY DEF GivesUp, ControllerInv, StrayTasks
  <2>2. tasks[t].request # 0
    BY DEF Live, ControllerInv, SpawnedTasks, UnusedTask
  <2> QED
    BY <2>1, <2>2 DEF GivesUp
<1>6. ClosingRequest'
  BY DEF GivesUp, ClosingRequest
<1>7. OpenRequests'
  <2>1. \A q \in RequestIds : q > requests => q # active.request /\ terminals[q] = <<>>
    BY <1>1, Constants DEF ControllerInv, OpenRequests, ControllerTypeOK
  <2> QED
    BY <1>1, <1>3, <2>1, Constants DEF GivesUp, OpenRequests
<1>8. OneTerminalPerRequest'
  <2>1. Len(terminals'[active.request]) <= 1
    <3>1. CASE terminals'[active.request] = <<>>
      BY <3>1
    <3>2. CASE terminals'[active.request] = <<"TimedOut">>
      BY <3>2
    <3> QED
      BY <1>3, <3>1, <3>2
  <2> QED
    BY <1>3, <2>1 DEF ControllerInv, OneTerminalPerRequest
<1>9. JoinedTerminalMeansStopped'
  <2> SUFFICES ASSUME NEW r \in RequestIds,
                      \E i \in 1 .. Len(terminals'[r]) : terminals'[r][i] # "TimedOut"
               PROVE  ~DataHeld(r)' /\ \A t \in TaskIds : tasks[t].request = r => ~Live(t)
    BY <1>2 DEF JoinedTerminalMeansStopped, GivesUp, TasksStay
  <2>1. r # active.request
    BY <1>3
  <2>2. \A t \in TaskIds : tasks[t].request = r => ~Live(t)
    BY <1>3, <2>1 DEF ControllerInv, JoinedTerminalMeansStopped
  <2>3. ~DataHeld(r)'
    BY <1>1, <2>2, Constants DEF DataHeld, GivesUp, TasksStay, Live
  <2> QED
    BY <2>2, <2>3
<1> QED
  BY <1>2, <1>4, <1>5, <1>6, <1>7, <1>8, <1>9 DEF ControllerInv

\* A shutdown whose join ran out of time gives the task up.
LEMMA ShutdownTimedOutKeeps ==
  ASSUME ControllerInv, ShutdownTimedOut
  PROVE  ControllerInv'
<1>1. /\ ControllerTypeOK /\ active.task # 0 /\ active.task \in TaskIds
      /\ active.request # 0 /\ active.request \in RequestIds
      /\ terminals[active.request] = <<>>
      /\ tasks[active.task] \in Tasks
  <2>1. ControllerTypeOK /\ active.task # 0 /\ active.request # 0
    BY Constants DEF ControllerInv, ActiveRequest, ShutdownTimedOut
  <2>2. active.task \in TaskIds /\ active.request \in RequestIds
    BY <2>1 DEF ControllerTypeOK, ActiveRequests
  <2> QED
    BY <2>1, <2>2 DEF ControllerInv, OpenRequests, ControllerTypeOK
<1>2. TasksStay
  <2>1. tasks[active.task].token \in BOOLEAN
    BY <1>1 DEF Tasks
  <2>2. tasks' = [tasks EXCEPT ![active.task].abort = TRUE]
    BY DEF ShutdownTimedOut
  <2>3. tasks' = [tasks EXCEPT ![active.task].token = tasks[active.task].token,
                               ![active.task].abort = TRUE]
    BY <1>1, <2>1, <2>2 DEF ControllerTypeOK, Tasks
  <2> QED
    BY <1>1, <2>1, <2>3, FlagsSetStay
<1>3. Handles' = Handles \cup {active.task} /\ reapers' \in Seq(TaskIds)
  BY <1>1, AppendedHandle DEF ShutdownTimedOut, ControllerTypeOK
<1>4. terminals' \in [RequestIds -> Seq({"Completed", "Failed", "Cancelled", "TimedOut"})]
  BY <1>1, TerminalCommitted DEF ShutdownTimedOut, CommitTerminal
<1>5. receipt' \in Receipts /\ receipt'.diagnostic
  BY <1>1 DEF ShutdownTimedOut, ControllerTypeOK, Receipts
<1>6. ControllerTypeOK'
  BY <1>1, <1>2, <1>3, <1>4, <1>5, Constants DEF ShutdownTimedOut, ShutdownFrame, CommitTerminal,
    ControllerTypeOK, TasksStay, Lifecycles
<1>7. GivesUp
  BY <1>1, <1>2, <1>3, <1>5 DEF ShutdownTimedOut, ShutdownFrame, CommitTerminal, GivesUp
<1> QED
  BY <1>6, <1>7, GivesUpKeeps

\* The drop of a controller, its join and the next controller keep the invariant.
LEMMA DropKeeps ==
  ASSUME ControllerInv, DropBegin \/ DropEnd
  PROVE  ControllerInv'
<1>1. ControllerTypeOK /\ active \in ActiveRequests
  BY DEF ControllerInv, ControllerTypeOK
<1>2. CASE DropBegin /\ active.task # 0
  <2>1. tasks' = [tasks EXCEPT ![active.task].token = TRUE, ![active.task].abort = TRUE]
    BY <1>2 DEF DropBegin
  <2>2. TasksStay
    BY <1>2, <2>1, FlagsSetStay
  <2>3. ControllerTypeOK'
    BY <1>1, <1>2, <2>2 DEF DropBegin, TasksStay, ControllerTypeOK, historyVars
  <2>4. Holds
    BY <1>2, <2>2 DEF DropBegin, Holds, historyVars
  <2> QED
    BY <2>3, <2>4, HoldsKeeps
<1>3. CASE DropBegin /\ active.task = 0
  <2>1. TasksStay
    BY <1>3, UnchangedTasksStay DEF DropBegin
  <2>2. ControllerTypeOK'
    BY <1>1, <1>3, Constants DEF DropBegin, ControllerTypeOK, historyVars
  <2>3. CASE active.request = 0
    <3>1. active = NoRequest
      BY <2>3 DEF ControllerInv, ActiveRequest
    <3>2. Holds
      BY <1>3, <2>1, <3>1 DEF DropBegin, Holds, historyVars
    <3> QED
      BY <2>2, <3>2, HoldsKeeps
  <2>4. CASE active.request # 0
    <3>1. Handles' = Handles
      BY <1>3 DEF DropBegin, Handles
    <3>2. GivesUp
      BY <1>3, <2>1, <2>4, <3>1, Constants DEF DropBegin, GivesUp, historyVars
    <3> QED
      BY <2>2, <3>2, GivesUpKeeps
  <2> QED
    BY <2>3, <2>4
<1>4. CASE DropEnd
  <2>1. active.task # 0 /\ active.request # 0 /\ active.task \in TaskIds
    BY <1>1, <1>4, Constants DEF DropEnd, ControllerInv, ActiveRequest, ActiveRequests
  <2>2. TasksStay
    BY <1>4, UnchangedTasksStay DEF DropEnd
  <2>3. /\ reapers' \in Seq(TaskIds)
        /\ \/ Finished(active.task) /\ Handles' = Handles
           \/ Handles' = Handles \cup {active.task}
    <3>1. CASE Finished(active.task)
      BY <1>1, <1>4, <3>1 DEF DropEnd, Handles, ControllerTypeOK
    <3>2. CASE ~Finished(active.task)
      BY <1>1, <1>4, <2>1, <3>2, AppendedHandle DEF DropEnd, ControllerTypeOK
    <3> QED
      BY <3>1, <3>2
  <2>4. ControllerTypeOK'
    BY <1>1, <1>4, <2>3, Constants DEF DropEnd, ControllerTypeOK, historyVars
  <2>5. GivesUp
    BY <1>4, <2>1, <2>2, <2>3 DEF DropEnd, GivesUp, historyVars, Live, Finished
  <2> QED
    BY <2>4, <2>5, GivesUpKeeps
<1> QED
  BY <1>2, <1>3, <1>4 DEF DropBegin

\* Handles leave the reapers only when their tasks have finished.
LEMMA DrainedHandles ==
  ASSUME reapers \in Seq(TaskIds), NEW joined \in 0 .. Len(reapers),
         \A i \in 1 .. joined : Finished(reapers[i]),
         reapers' = SubSeq(reapers, joined + 1, Len(reapers))
  PROVE  /\ reapers' \in Seq(TaskIds)
         /\ \A t \in TaskIds : t \in Handles /\ Live(t) => t \in Handles'
         /\ joined = Len(reapers) => reapers' = <<>>
<1>1. /\ Len(reapers) \in Nat /\ joined \in Nat /\ joined <= Len(reapers)
      /\ Len(reapers') = Len(reapers) - joined
      /\ \A i \in 1 .. (Len(reapers) - joined) : reapers'[i] = reapers[i + joined]
      /\ reapers' \in Seq(TaskIds)
  OBVIOUS
<1>2. ASSUME NEW t \in TaskIds, t \in Handles, Live(t)
      PROVE  t \in Handles'
  <2>1. PICK i \in 1 .. Len(reapers) : reapers[i] = t
    BY <1>2 DEF Handles
  <2>2. i > joined
    BY <1>1, <1>2, <2>1 DEF Live, Finished
  <2>3. (i - joined) \in 1 .. (Len(reapers) - joined) /\ (i - joined) + joined = i
    BY <1>1, <2>1, <2>2
  <2>4. reapers'[i - joined] = t
    BY <1>1, <2>1, <2>3
  <2>5. \A u : (\E j \in 1 .. (Len(reapers) - joined) : reapers'[j] = u) => u \in Handles'
    BY <1>1 DEF Handles
  <2> QED
    BY <2>3, <2>4, <2>5
<1>3. joined = Len(reapers) => reapers' = <<>>
  BY <1>1
<1> QED
  BY <1>1, <1>2, <1>3

\* The second half of shutdown, which drains the reapers and settles the request it took, keeps
\* the invariant.
LEMMA ShutdownDrainKeeps ==
  ASSUME ControllerInv, ShutdownDrain
  PROVE  ControllerInv'
<1>1. /\ ControllerTypeOK /\ main = "ShutdownDrain" /\ main' = "Idle"
      /\ active = NoRequest /\ active' = NoRequest /\ tasks' = tasks
      /\ active.request = 0 /\ active.task = 0
      /\ UNCHANGED <<pending, spawned, requests, epoch, returned, cancelled>>
  BY Constants DEF ControllerInv, ActiveRequest, ShutdownDrain, ShutdownFrame
<1>2. PICK joined \in 0 .. Len(reapers), timedOut \in BOOLEAN, settled \in BOOLEAN :
        /\ \A i \in 1 .. joined : Finished(reapers[i])
        /\ reapers' = SubSeq(reapers, joined + 1, Len(reapers))
        /\ timedOut <=> joined # Len(reapers) /\ ~receipt.diagnostic
        /\ settled <=> receipt.join # "NotStarted" /\ ~receipt.diagnostic /\ ~timedOut
        /\ lifecycle' = IF timedOut THEN "ShutdownJoinTimedOut"
                        ELSE IF settled THEN "CancelledJoined" ELSE lifecycle
        /\ terminal' = (terminal \/ timedOut \/ settled)
        /\ receipt' = [receipt EXCEPT
             !.state = IF timedOut \/ receipt.diagnostic THEN "ShutdownJoinTimedOut" ELSE lifecycle',
             !.join = IF timedOut THEN "JoinTimedOut" ELSE @,
             !.diagnostic = @ \/ timedOut]
        /\ terminals' = IF receipt.request # 0 /\ (timedOut \/ settled)
                        THEN [terminals EXCEPT ![receipt.request] =
                                Append(@, IF timedOut THEN "TimedOut" ELSE "Cancelled")]
                        ELSE terminals
  BY DEF ShutdownDrain
<1>3. /\ reapers' \in Seq(TaskIds)
      /\ \A t \in TaskIds : t \in Handles /\ Live(t) => t \in Handles'
  BY <1>1, <1>2, DrainedHandles DEF ControllerTypeOK
<1>4. SpawnedTasks' /\ OneLiveTaskPerController' /\ \A t \in TaskIds : Live(t)' <=> Live(t)
  <2>1. TasksStay
    BY <1>1, UnchangedTasksStay
  <2> QED
    BY <1>1, <2>1, BoundsAssumption, TasksStayKeeps DEF ControllerTypeOK
<1>5. (timedOut \/ settled) /\ receipt.request # 0 =>
        /\ lifecycle = "Cancelling" /\ receipt.request <= requests
        /\ receipt.request \in RequestIds
        /\ terminals[receipt.request] = <<>>
        /\ \A t \in TaskIds : tasks[t].request = receipt.request => ~Live(t)
  BY <1>1, <1>2 DEF ControllerInv, ClosingRequest, ControllerTypeOK, Receipts
<1>6. settled => receipt.request # 0
  BY <1>1, <1>2 DEF ControllerInv, ClosingRequest
<1>7. CASE ~(receipt.request # 0 /\ (timedOut \/ settled))
  <2>1. terminals' = terminals /\ ~settled
    BY <1>2, <1>6, <1>7
  <2>2. lifecycle' = lifecycle \/ lifecycle' = "ShutdownJoinTimedOut"
    BY <1>2, <2>1
  <2>3. receipt' \in Receipts
    <3>1. receipt \in Receipts /\ receipt.diagnostic \in BOOLEAN /\ lifecycle' \in Lifecycles
      BY <1>1, <2>2 DEF ControllerTypeOK, Receipts, Lifecycles
    <3> QED
      BY <1>2, <3>1 DEF Receipts, Lifecycles
  <2>4. ControllerTypeOK'
    BY <1>1, <1>2, <1>3, <2>1, <2>2, <2>3 DEF ControllerTypeOK, Lifecycles
  <2>5. StrayTasks' /\ ActiveRequest' /\ ClosingRequest'
    BY <1>1, <1>3, <1>4, <2>2 DEF ControllerInv, StrayTasks, ActiveRequest, ClosingRequest
  <2>6. OpenRequests' /\ OneTerminalPerRequest' /\ JoinedTerminalMeansStopped'
    BY <1>1, <1>4, <2>1 DEF ControllerInv, OpenRequests, OneTerminalPerRequest,
      JoinedTerminalMeansStopped, DataHeld
  <2> QED
    BY <1>4, <2>4, <2>5, <2>6 DEF ControllerInv
<1>8. CASE receipt.request # 0 /\ (timedOut \/ settled)
  <2> DEFINE r == receipt.request
             kind == IF timedOut THEN "TimedOut" ELSE "Cancelled"
  <2>1. /\ r \in RequestIds /\ terminals[r] = <<>> /\ r <= requests
        /\ terminals' = [terminals EXCEPT ![r] = Append(@, kind)]
        /\ \A t \in TaskIds : tasks[t].request = r => ~Live(t)
    BY <1>2, <1>5, <1>8
  <2>2. /\ terminals' \in [RequestIds -> Seq({"Completed", "Failed", "Cancelled", "TimedOut"})]
        /\ terminals'[r] = <<kind>>
        /\ \A q \in RequestIds : q # r => terminals'[q] = terminals[q]
    BY <1>1, <2>1, TerminalCommitted
  <2>3. receipt' \in Receipts /\ lifecycle' \in Lifecycles
    <3>1. receipt \in Receipts /\ receipt.diagnostic \in BOOLEAN /\ lifecycle' \in Lifecycles
      BY <1>1, <1>2 DEF ControllerTypeOK, Receipts, Lifecycles, JoinedTerminals
    <3> QED
      BY <1>2, <3>1 DEF Receipts, Lifecycles
  <2>4. ControllerTypeOK'
    BY <1>1, <1>2, <1>3, <2>2, <2>3 DEF ControllerTypeOK
  <2>5. StrayTasks' /\ ActiveRequest' /\ ClosingRequest'
    <3>1. lifecycle # "ShutdownJoinTimedOut"
      BY <1>5, <1>8
    <3> QED
      BY <1>1, <1>3, <1>4, <3>1 DEF ControllerInv, StrayTasks, ActiveRequest, ClosingRequest
  <2>6. OpenRequests'
    <3>1. \A q \in RequestIds : q > requests => q # r /\ terminals[q] = <<>>
      BY <1>1, <2>1, Constants DEF ControllerInv, OpenRequests, ControllerTypeOK
    <3>2. \A q \in RequestIds : q # 0
      BY Constants
    <3> QED
      BY <1>1, <2>2, <3>1, <3>2 DEF OpenRequests
  <2>7. OneTerminalPerRequest'
    <3>1. Len(terminals'[r]) <= 1
      BY <2>2
    <3> QED
      BY <2>2, <3>1 DEF ControllerInv, OneTerminalPerRequest
  <2>8. JoinedTerminalMeansStopped'
    <3> SUFFICES ASSUME NEW q \in RequestIds,
                        \E i \in 1 .. Len(terminals'[q]) : terminals'[q][i] # "TimedOut"
                 PROVE  ~DataHeld(q)' /\ \A t \in TaskIds : tasks[t].request = q => ~Live(t)
      BY <1>1, <1>4 DEF JoinedTerminalMeansStopped
    <3>1. \A t \in TaskIds : tasks[t].request = q => ~Live(t)
      <4>1. CASE q = r
        BY <2>1, <4>1
      <4>2. CASE q # r
        BY <2>2, <4>2 DEF ControllerInv, JoinedTerminalMeansStopped
      <4> QED
        BY <4>1, <4>2
    <3>2. ~DataHeld(q)'
      BY <1>1, <3>1, Constants DEF DataHeld, Live
    <3> QED
      BY <3>1, <3>2
  <2> QED
    BY <1>4, <2>4, <2>5, <2>6, <2>7, <2>8 DEF ControllerInv
<1> QED
  BY <1>7, <1>8

\* The next controller finds no task of its own.
LEMMA ReopenKeeps ==
  ASSUME ControllerInv, Reopen
  PROVE  ControllerInv'
<1>1. /\ ControllerTypeOK /\ epoch \in Nat /\ epoch' = epoch + 1 /\ epoch' \in 1 .. MaxEpochs
      /\ active = NoRequest /\ active' = NoRequest /\ main' = "Idle" /\ lifecycle' = "Idle"
      /\ active.request = 0 /\ active.task = 0 /\ NoReceipt \in Receipts
      /\ UNCHANGED <<tasks, reapers, spawned, requests, cancelled, terminals>>
  <2>1. ControllerTypeOK /\ epoch \in 1 .. MaxEpochs /\ MaxEpochs \in Nat /\ epoch < MaxEpochs
    BY BoundsAssumption DEF ControllerInv, ControllerTypeOK, Reopen
  <2>2. active = NoRequest
    BY DEF ControllerInv, ActiveRequest, Reopen
  <2> QED
    BY <2>1, <2>2, Constants DEF Reopen, executorVars, historyVars, NoReceipt, Receipts
<1>2. ControllerTypeOK'
  BY <1>1, EmptySequences DEF Reopen, ControllerTypeOK, Lifecycles
<1>3. SpawnedTasks' /\ OneLiveTaskPerController' /\ \A t \in TaskIds : Live(t)' <=> Live(t)
  <2>1. TasksStay
    BY <1>1, UnchangedTasksStay
  <2>2. epoch' \in Nat /\ epoch <= epoch'
    BY <1>1
  <2> QED
    BY <1>1, <2>1, <2>2, TasksStayKeeps
<1>4. ActiveRequest' /\ ClosingRequest' /\ OneTerminalPerRequest' /\ OpenRequests'
  BY <1>1 DEF ControllerInv, ActiveRequest, ClosingRequest, OneTerminalPerRequest, OpenRequests
<1>5. StrayTasks'
  <2>1. ASSUME NEW t \in TaskIds, Live(t)
        PROVE  tasks[t].epoch # epoch'
    <3>1. t <= spawned /\ tasks[t].epoch <= epoch
      <4>1. spawned \in Nat /\ t \in Nat
        BY <1>1, BoundsAssumption, Constants DEF ControllerTypeOK
      <4> QED
        BY <2>1, <4>1 DEF ControllerInv, SpawnedTasks, Live, UnusedTask
    <3>2. tasks[t].epoch \in Nat
      <4>1. tasks[t] \in Tasks
        BY <1>1 DEF ControllerTypeOK
      <4> QED
        BY <4>1, BoundsAssumption DEF Tasks
    <3> QED
      BY <1>1, <3>1, <3>2
  <2> QED
    BY <1>1, <1>3, <2>1 DEF ControllerInv, StrayTasks, Handles
<1>6. JoinedTerminalMeansStopped'
  BY <1>1, <1>3 DEF ControllerInv, JoinedTerminalMeansStopped, DataHeld
<1> QED
  BY <1>2, <1>3, <1>4, <1>5, <1>6 DEF ControllerInv

-----------------------------------------------------------------------------
\* The invariant holds of a new controller.
LEMMA InitEstablishes == Init => ControllerInv
<1> SUFFICES ASSUME Init PROVE ControllerInv
  OBVIOUS
<1>1. ControllerTypeOK
  <2>1. NoReceipt \in Receipts /\ epoch \in 1 .. MaxEpochs /\ spawned \in 0 .. MaxTasks
    BY BoundsAssumption DEF NoReceipt, Receipts, Init
  <2>2. tasks \in [TaskIds -> Tasks]
    BY Constants DEF Init
  <2>3. terminals \in [RequestIds -> Seq({"Completed", "Failed", "Cancelled", "TimedOut"})]
    BY EmptySequences DEF Init
  <2>4. requests \in Nat /\ requests <= spawned /\ receipt \in Receipts /\ active \in ActiveRequests
    BY <2>1, Constants DEF Init
  <2> QED
    BY <2>1, <2>2, <2>3, <2>4, EmptySequences DEF Init, ControllerTypeOK, Lifecycles
<1>2. \A t \in TaskIds : ~Live(t) /\ t > spawned
  BY Constants DEF Init, Live
<1>3. SpawnedTasks /\ StrayTasks /\ OneLiveTaskPerController
  BY <1>2 DEF Init, SpawnedTasks, StrayTasks, OneLiveTaskPerController
<1>4. ActiveRequest /\ ClosingRequest /\ OpenRequests /\ OneTerminalPerRequest
  BY Constants DEF Init, ActiveRequest, ClosingRequest, OpenRequests, OneTerminalPerRequest
<1>5. JoinedTerminalMeansStopped
  BY <1>2 DEF Init, JoinedTerminalMeansStopped
<1> QED
  BY <1>1, <1>3, <1>4, <1>5 DEF ControllerInv

\* Every step keeps the invariant.
LEMMA NextKeeps == ControllerInv /\ [Next]_vars => ControllerInv'
<1> SUFFICES ASSUME ControllerInv, [Next]_vars PROVE ControllerInv'
  OBVIOUS
<1>1. ASSUME NEW t \in TaskIds, TaskStep(t) PROVE ControllerInv'
  BY <1>1, TaskStepKeeps
<1>2. CASE Start \/ ResolveRepair
  BY <1>2, SpawningActionsKeep
<1>3. CASE PollPending \/ PollRunning \/ CancelOverdue
  BY <1>3, HoldingActionsKeep
<1>4. CASE PollLost \/ PollJoinedCancelled \/ \E k \in {"Completed", "Failed"} : ResolveTerminal(k)
  BY <1>4, ReleasingActionsKeep
<1>5. CASE PollJoined
  BY <1>5, PollJoinedKeeps
<1>6. CASE Cancel \/ ShutdownBegin
  BY <1>6, CancellingActionsKeep
<1>7. CASE ShutdownJoined \/ ShutdownJoinFailed
  BY <1>7, ShutdownJoinsKeep
<1>8. CASE ShutdownTimedOut
  BY <1>8, ShutdownTimedOutKeeps
<1>9. CASE ShutdownDrain
  BY <1>9, ShutdownDrainKeeps
<1>10. CASE DropBegin \/ DropEnd
  BY <1>10, DropKeeps
<1>11. CASE Reopen
  BY <1>11, ReopenKeeps
<1>12. CASE UNCHANGED vars
  BY <1>12 DEF vars, ControllerInv, ControllerTypeOK, SpawnedTasks, ActiveRequest, StrayTasks,
    OneLiveTaskPerController, ClosingRequest, OpenRequests, OneTerminalPerRequest,
    JoinedTerminalMeansStopped, Live, Handles, DataHeld
<1> QED
  BY <1>1, <1>2, <1>3, <1>4, <1>5, <1>6, <1>7, <1>8, <1>9, <1>10, <1>11, <1>12
    DEF Next, Poll, Shutdown

\* The invariant of the request controller, for every number of tasks and of
\* controllers (llm_request_controller.rs).
THEOREM ControllerInvariant == Spec => []ControllerInv
<1> QED
  BY InitEstablishes, NextKeeps, PTL DEF Spec

\* Every variable of the controller keeps its type.
THEOREM ControllerTyped == Spec => []ControllerTypeOK
<1>1. ControllerInv => ControllerTypeOK
  BY DEF ControllerInv
<1> QED
  BY <1>1, ControllerInvariant, PTL

\* No poll, cancel, shutdown or drop leaves a task running whose handle nobody
\* holds: it is the controller's, or a reaper's (transfer_to_reaper).
THEOREM NoTaskIsDetached == Spec => []NoDetachedTask
<1>1. ControllerInv => NoDetachedTask
  BY DEF ControllerInv, StrayTasks, NoDetachedTask
<1> QED
  BY <1>1, ControllerInvariant, PTL

\* A controller runs one request task at a time (start, resolve_attempt).
THEOREM OneTaskAtATime == Spec => []OneLiveTaskPerController
<1>1. ControllerInv => OneLiveTaskPerController
  BY DEF ControllerInv
<1> QED
  BY <1>1, ControllerInvariant, PTL

\* Cancel, completion, failure and shutdown give a request one terminal state
\* between them (commit_terminal).
THEOREM SingleTerminal == Spec => []OneTerminalPerRequest
<1>1. ControllerInv => OneTerminalPerRequest
  BY DEF ControllerInv
<1> QED
  BY <1>1, ControllerInvariant, PTL

\* A request that was reported completed, failed or cancelled runs no task and
\* holds no data (poll joins before it reports).
THEOREM JoinedIsStopped == Spec => []JoinedTerminalMeansStopped
<1>1. ControllerInv => JoinedTerminalMeansStopped
  BY DEF ControllerInv
<1> QED
  BY <1>1, ControllerInvariant, PTL

-----------------------------------------------------------------------------
\* Only a new controller leaves ShutdownJoinTimedOut, and nothing is started in
\* it (start, accepts_new_request).
THEOREM TimedOutStays == Spec => TimedOutIsFinal
<1>1. ASSUME ControllerInv, Next, lifecycle = "ShutdownJoinTimedOut", epoch' = epoch
      PROVE  lifecycle' = lifecycle /\ active' = NoRequest
  <2>1. active = NoRequest /\ active.task = 0 /\ active.request = 0
    BY <1>1, Constants DEF ControllerInv, ActiveRequest, Busy, Running
  <2>2. main # "ShutdownJoin" /\ main # "DropJoin"
    BY <2>1, <1>1 DEF ControllerInv, ActiveRequest
  <2>3. CASE ShutdownDrain
    <3>1. ~(receipt.join # "NotStarted" /\ ~receipt.diagnostic)
      BY <1>1, <2>3 DEF ControllerInv, ClosingRequest, ShutdownDrain
    <3> QED
      BY <1>1, <2>1, <2>3, <3>1 DEF ShutdownDrain
  <2>4. CASE \E t \in TaskIds : TaskStep(t)
    BY <1>1, <2>1, <2>4 DEF TaskStep, TaskSend, TaskPanic, TaskAborted, TaskEnd, TaskVars
  <2>5. CASE CancelOverdue \/ Start \/ Poll
    BY <1>1, <2>1, <2>5 DEF CancelOverdue, Start, Poll, PollPending, PollRunning, PollLost,
      PollJoinedCancelled, PollJoined, PollGuard, JoinedTerminals, NoRequest
  <2>6. CASE ResolveRepair \/ \E kind \in {"Completed", "Failed"} : ResolveTerminal(kind)
    BY <1>1, <2>6 DEF ResolveRepair, ResolveTerminal
  <2>7. CASE Cancel \/ ShutdownBegin
    BY <1>1, <2>1, <2>7 DEF Cancel, CancelActive, ShutdownBegin, controllerVars
  <2>8. CASE ShutdownJoined \/ ShutdownJoinFailed \/ ShutdownTimedOut \/ DropEnd
    BY <2>2, <2>8 DEF ShutdownJoined, ShutdownJoinFailed, ShutdownTimedOut, DropEnd
  <2>9. CASE DropBegin
    BY <1>1, <2>1, <2>9 DEF DropBegin
  <2>10. CASE Reopen
    <3>1. epoch \in Nat
      BY <1>1, BoundsAssumption DEF ControllerInv, ControllerTypeOK
    <3> QED
      BY <1>1, <2>10, <3>1 DEF Reopen
  <2> QED
    BY <1>1, <2>3, <2>4, <2>5, <2>6, <2>7, <2>8, <2>9, <2>10 DEF Next, Shutdown
<1>2. ControllerInv /\ [Next]_vars => [lifecycle = "ShutdownJoinTimedOut" /\ epoch' = epoch
                                       => lifecycle' = lifecycle /\ active' = NoRequest]_vars
  BY <1>1
<1> QED
  BY <1>2, ControllerInvariant, PTL DEF Spec, TimedOutIsFinal

\* A shutdown that returns no diagnostic has joined every task of the process
\* (shutdown, drain_reapers).
THEOREM CleanShutdownJoinsAll == Spec => CleanShutdownLeavesNothing
<1>1. ASSUME ControllerInv, Next, main = "ShutdownDrain", main' = "Idle", ~receipt'.diagnostic
      PROVE  reapers' = <<>> /\ \A t \in TaskIds : ~Live(t)
  <2>1. ShutdownDrain
    BY <1>1 DEF Next, TaskStep, TaskSend, TaskPanic, TaskAborted, TaskEnd, TaskVars,
      CancelOverdue, Start, Poll, PollPending, PollRunning, PollLost, PollJoinedCancelled,
      PollJoined, PollGuard, ResolveTerminal, ResolveRepair, Cancel, Shutdown, ShutdownBegin,
      ShutdownJoined, ShutdownJoinFailed, ShutdownTimedOut, DropBegin, DropEnd, Reopen
  <2>2. reapers \in Seq(TaskIds) /\ receipt \in Receipts
    BY <1>1 DEF ControllerInv, ControllerTypeOK
  <2>3. PICK joined \in 0 .. Len(reapers) :
          /\ \A i \in 1 .. joined : Finished(reapers[i])
          /\ reapers' = SubSeq(reapers, joined + 1, Len(reapers))
          /\ receipt'.diagnostic = (receipt.diagnostic
                                    \/ (joined # Len(reapers) /\ ~receipt.diagnostic))
    BY <2>1, <2>2 DEF ShutdownDrain, Receipts
  <2>4. joined = Len(reapers)
    BY <1>1, <2>2, <2>3 DEF Receipts
  <2>5. reapers' = <<>> /\ \A t \in TaskIds : t \in Handles /\ Live(t) => t \in Handles'
    BY <2>2, <2>3, <2>4, DrainedHandles
  <2>6. \A t : t \notin Handles'
    BY <2>5 DEF Handles
  <2>7. active.task = 0
    BY <1>1, Constants DEF ControllerInv, ActiveRequest
  <2> QED
    BY <1>1, <2>5, <2>6, <2>7, Constants DEF ControllerInv, StrayTasks
<1>2. ControllerInv /\ [Next]_vars
        => [main = "ShutdownDrain" /\ main' = "Idle" /\ ~receipt'.diagnostic
              => reapers' = <<>> /\ \A t \in TaskIds : ~Live(t)]_vars
  BY <1>1
<1> QED
  BY <1>2, ControllerInvariant, PTL DEF Spec, CleanShutdownLeavesNothing

-----------------------------------------------------------------------------
\* What an accepted cancel leaves: its request is Cancelling as long as the
\* controller has it, and what waits for a poll are cancels.
CancelFacts ==
  /\ active.request \in cancelled => lifecycle = "Cancelling"
  /\ \A r \in cancelled : r <= requests
  /\ \A i \in 1 .. Len(pending) : pending[i].kind = "CancelledJoined"

CancelWinsStep ==
  /\ \A i \in 1 .. Len(returned') :
       returned'[i].kind = "AttemptJoined" /\ returned' # returned
         => returned'[i].request \notin cancelled
  /\ \A r \in cancelled : terminals'[r] # terminals[r]
         => terminals'[r][Len(terminals'[r])] # "Completed"

\* Every step keeps the facts about cancelled requests, and is a step CancelWins allows.
LEMMA CancelFactsKept ==
  ASSUME ControllerInv, CancelFacts, Next
  PROVE  CancelFacts' /\ CancelWinsStep
<1>1. /\ requests \in Nat /\ pending \in Seq(Events) /\ active \in ActiveRequests
      /\ cancelled \subseteq RequestIds /\ 0 \notin cancelled
      /\ \A r \in RequestIds : r \in Nat
      /\ NoRequest.request = 0
      /\ terminals \in [RequestIds -> Seq({"Completed", "Failed", "Cancelled", "TimedOut"})]
  BY Constants DEF ControllerInv, ControllerTypeOK
\* A step that appends a terminal other than Completed cannot break the second part.
<1>2. ASSUME NEW r \in RequestIds, NEW kind \in {"Failed", "Cancelled", "TimedOut"},
             terminals' = [terminals EXCEPT ![r] = Append(@, kind)]
      PROVE  \A q \in cancelled : terminals'[q] # terminals[q]
                => terminals'[q][Len(terminals'[q])] # "Completed"
  <2>1. terminals'[r] = Append(terminals[r], kind) /\ terminals[r] \in Seq({"Completed", "Failed", "Cancelled", "TimedOut"})
    BY <1>1, <1>2
  <2>2. terminals'[r][Len(terminals'[r])] = kind
    BY <2>1
  <2>3. \A q \in cancelled : q # r => terminals'[q] = terminals[q]
    BY <1>1, <1>2
  <2> QED
    BY <2>2, <2>3
<1>3. active.request # 0 => active.request \in RequestIds /\ active.request <= requests
  BY <1>1 DEF ControllerInv, ActiveRequest, ActiveRequests
<1>4. \A kind, r : LET p == Append(pending, [kind |-> kind, request |-> r])
                   IN \A i \in 1 .. Len(p) :
                        p[i].kind = "CancelledJoined" \/ (p[i].kind = kind /\ p[i].request = r)
  BY <1>1 DEF CancelFacts
<1>5. CASE \/ \E t \in TaskIds : TaskStep(t)
           \/ CancelOverdue \/ PollPending \/ PollRunning \/ ShutdownJoined
           \/ ShutdownJoinFailed \/ DropBegin \/ DropEnd
  <2>1. /\ active'.request \in {0, active.request}
        /\ lifecycle' = lifecycle
        /\ UNCHANGED <<cancelled, requests, terminals>>
        /\ pending' \in {<<>>, pending}
        /\ returned' \in {returned, pending}
    BY <1>1, <1>5 DEF TaskStep, TaskSend, TaskPanic, TaskAborted, TaskEnd, TaskVars,
      CancelOverdue, PollPending, PollRunning, PollFrame, ShutdownJoined, ShutdownJoinFailed,
      ShutdownFrame, DropBegin, DropEnd, executorVars, historyVars, ActiveRequests
  <2>2. CancelFacts'
    BY <1>1, <2>1 DEF CancelFacts
  <2>3. CancelWinsStep
    BY <1>1, <2>1 DEF CancelFacts, CancelWinsStep
  <2> QED
    BY <2>2, <2>3
<1>6. CASE Start \/ ResolveRepair
  <2>1. /\ active'.request \notin cancelled
        /\ requests' >= requests /\ requests' \in Nat
        /\ UNCHANGED <<cancelled, terminals, pending, returned>>
    <3>1. CASE Start
      <4>1. active'.request = requests + 1 /\ requests' = requests + 1
        BY <3>1 DEF Start
      <4>2. \A r \in cancelled : r <= requests
        BY DEF CancelFacts
      <4> QED
        BY <1>1, <3>1, <4>1, <4>2 DEF Start, historyVars
    <3>2. CASE ResolveRepair
      <4>1. active'.request = active.request /\ requests' = requests
        BY <1>1, <3>2 DEF ResolveRepair, ActiveRequests
      <4>2. active.request \notin cancelled
        BY <1>1, <3>2 DEF ResolveRepair, CancelFacts
      <4> QED
        BY <1>1, <3>2, <4>1, <4>2 DEF ResolveRepair, historyVars
    <3> QED
      BY <1>6, <3>1, <3>2
  <2> QED
    BY <1>1, <2>1 DEF CancelFacts, CancelWinsStep
<1>7. CASE PollLost \/ PollJoinedCancelled
  <2>1. active.request # 0
    BY <1>7, Constants DEF PollLost, PollJoinedCancelled, PollGuard, ControllerInv, ActiveRequest
  <2>2. PICK kind \in {"CancelledJoined", "FailedJoined"}, end \in {"Failed", "Cancelled"} :
          /\ terminals' = [terminals EXCEPT ![active.request] = Append(@, end)]
          /\ returned' = Append(pending, [kind |-> kind, request |-> active.request])
    BY <1>7 DEF PollLost, PollJoinedCancelled, CommitTerminal
  <2>3. active'.request = 0 /\ pending' = <<>> /\ UNCHANGED <<cancelled, requests>>
    BY <1>1, <1>7 DEF PollLost, PollJoinedCancelled, PollFrame
  <2>4. \A i \in 1 .. Len(returned') : returned'[i].kind # "AttemptJoined"
    BY ZenonT(60), <1>4, <2>2
  <2>5. CancelFacts'
    BY <1>1, <2>3 DEF CancelFacts
  <2>6. CancelWinsStep
    BY <1>2, <1>3, <2>1, <2>2, <2>4 DEF CancelWinsStep
  <2> QED
    BY <2>5, <2>6
<1>8. CASE PollJoined
  <2>1. /\ active.request \notin cancelled /\ active'.request = active.request
        /\ pending' = <<>> /\ UNCHANGED <<cancelled, requests, terminals>>
        /\ returned' = Append(pending, [kind |-> "AttemptJoined", request |-> active.request])
    BY <1>1, <1>8 DEF PollJoined, PollFrame, CancelFacts, ActiveRequests
  <2> QED
    BY <1>1, <1>4, <2>1 DEF CancelFacts, CancelWinsStep
<1>9. ASSUME NEW kind \in {"Completed", "Failed"}, ResolveTerminal(kind)
      PROVE  CancelFacts' /\ CancelWinsStep
  <2>1. /\ active.request # 0 /\ active.request \notin cancelled
        /\ active'.request = 0
        /\ UNCHANGED <<cancelled, requests, pending, returned>>
        /\ terminals' = [terminals EXCEPT ![active.request] = Append(@, kind)]
    BY <1>1, <1>9 DEF ResolveTerminal, CommitTerminal, CancelFacts, ControllerInv, ActiveRequest
  <2>2. \A q \in cancelled : terminals'[q] = terminals[q]
    BY <1>1, <2>1
  <2> QED
    BY <1>1, <2>1, <2>2 DEF CancelFacts, CancelWinsStep
<1>10. CASE Cancel \/ ShutdownBegin
  <2>1. UNCHANGED <<requests, returned>>
    BY <1>10 DEF Cancel, ShutdownBegin
  <2>2. CASE active = NoRequest
    BY <1>1, <1>10, <2>1, <2>2 DEF Cancel, CancelActive, ShutdownBegin, controllerVars,
      CancelFacts, CancelWinsStep
  <2>3. CASE active # NoRequest
    <3>1. CancelActive /\ active.request # 0
      BY <1>10, <2>3 DEF Cancel, ShutdownBegin, ControllerInv, ActiveRequest
    <3>2. cancelled' = cancelled \cup {active.request}
      BY <3>1 DEF CancelActive
    <3>3. \/ lifecycle' = "Cancelling" /\ active'.request = active.request
          \/ active'.request = 0
      BY <1>1, <3>1 DEF CancelActive, ActiveRequests
    <3>4. \A i \in 1 .. Len(pending') : pending'[i].kind = "CancelledJoined"
      BY <1>4, <3>1 DEF CancelActive, CancelFacts
    <3>5. CancelFacts'
      BY <1>1, <1>3, <2>1, <3>1, <3>2, <3>3, <3>4 DEF CancelFacts
    <3>6. \/ terminals' = terminals
          \/ terminals' = [terminals EXCEPT ![active.request] = Append(@, "Cancelled")]
      BY <3>1 DEF CancelActive, CommitTerminal
    <3>7. CancelWinsStep
      BY <1>2, <1>3, <2>1, <3>1, <3>6 DEF CancelWinsStep
    <3> QED
      BY <3>5, <3>7
  <2> QED
    BY <2>2, <2>3
<1>11. CASE ShutdownTimedOut
  <2>1. /\ active.request # 0 /\ active'.request = 0
        /\ UNCHANGED <<cancelled, requests, pending, returned>>
        /\ terminals' = [terminals EXCEPT ![active.request] = Append(@, "TimedOut")]
    BY <1>1, <1>11, Constants DEF ShutdownTimedOut, ShutdownFrame, CommitTerminal, ControllerInv,
      ActiveRequest
  <2> QED
    BY <1>1, <1>2, <1>3, <2>1 DEF CancelFacts, CancelWinsStep
<1>12. CASE ShutdownDrain
  <2>1. /\ active.request = 0 /\ active' = active
        /\ UNCHANGED <<cancelled, requests, pending, returned>>
    BY <1>1, <1>12 DEF ShutdownDrain, ShutdownFrame, ControllerInv, ActiveRequest
  <2>2. \/ terminals' = terminals
        \/ /\ receipt.request \in RequestIds
           /\ \E kind \in {"Cancelled", "TimedOut"} :
                terminals' = [terminals EXCEPT ![receipt.request] = Append(@, kind)]
    <3>1. receipt.request \in {0} \cup RequestIds
      BY DEF ControllerInv, ControllerTypeOK, Receipts
    <3> QED
      BY <1>12, <3>1 DEF ShutdownDrain
  <2>3. \A q \in cancelled : terminals'[q] # terminals[q]
                => terminals'[q][Len(terminals'[q])] # "Completed"
    BY <1>2, <2>2
  <2> QED
    BY <1>1, <2>1, <2>3 DEF CancelFacts, CancelWinsStep
<1>13. CASE Reopen
  <2>1. active' = active /\ active.request = 0 /\ pending' = <<>> /\ returned' = <<>>
        /\ UNCHANGED <<cancelled, requests, terminals>>
    BY <1>1, <1>13 DEF Reopen, historyVars, ControllerInv, ActiveRequest
  <2> QED
    BY <1>1, <2>1 DEF CancelFacts, CancelWinsStep
<1> QED
  BY <1>5, <1>6, <1>7, <1>8, <1>9, <1>10, <1>11, <1>12, <1>13 DEF Next, Poll, Shutdown

\* After an accepted cancel no attempt of the request reaches the caller and it
\* does not complete, whatever the task had already sent (cancel, poll).
THEOREM CancelAlwaysWins == Spec => CancelWins
<1>1. Init => CancelFacts
  BY Constants DEF Init, CancelFacts
<1>2. ControllerInv /\ CancelFacts /\ [Next]_vars => CancelFacts'
  <2>1. CancelFacts /\ UNCHANGED vars => CancelFacts'
    BY DEF CancelFacts, vars
  <2> QED
    BY <2>1, CancelFactsKept
<1>3. ControllerInv /\ CancelFacts /\ [Next]_vars => [CancelWinsStep]_vars
  BY CancelFactsKept
<1>4. CancelWins <=> [][CancelWinsStep]_vars
  BY PTL DEF CancelWins, CancelWinsStep
<1> QED
  BY <1>1, <1>2, <1>3, <1>4, ControllerInvariant, PTL DEF Spec

-----------------------------------------------------------------------------
(* The session. *)

\* Whatever the session does is a call the controller accepts, a step of a task or the
\* clock, or leaves the controller alone.
LEMMA SessionMovesController ==
  SessionNext => Next \/ UNCHANGED vars
<1>1. Start \/ Cancel \/ Poll \/ ResolveRepair \/ CancelOverdue => Next
  BY DEF Next
<1>2. ASSUME NEW kind \in {"Completed", "Failed"}, ResolveTerminal(kind) PROVE Next
  BY <1>2 DEF Next
<1>3. ShutdownBegin \/ ShutdownJoined \/ ShutdownJoinFailed \/ ShutdownTimedOut \/ ShutdownDrain
        => Next
  BY DEF Next, Shutdown
<1>4. DropBegin \/ DropEnd \/ Reopen \/ (\E t \in TaskIds : TaskStep(t)) => Next
  BY DEF Next
<1>5. Submit \/ CancelRequest \/ Pump => Next
  BY <1>1 DEF Submit, CancelRequest, Pump, PumpQuiet, PumpTerminal, PumpAttempt
<1>6. Decide => Next
  BY <1>1, <1>2 DEF Decide, AcceptCandidate, RejectCandidate, RejectStaleContext,
    RepairCandidate
<1>7. ShutdownStart \/ ShutdownWait \/ ShutdownReport \/ DropSession \/ TasksAndClock => Next
  BY <1>1, <1>3, <1>4 DEF ShutdownStart, ShutdownWait, ShutdownReport, DropSession, TasksAndClock
<1>8. SubmitRefused => UNCHANGED vars
  BY DEF SubmitRefused
<1> QED
  BY <1>5, <1>6, <1>7, <1>8 DEF SessionNext

\* The session uses the controller as its specification allows: what is proved of the
\* controller for a free caller holds under the editor (ai_service.rs).
THEOREM SessionUsesController == SessionSpec => Spec
<1>1. SessionInit => Init
  BY DEF SessionInit
<1>2. [SessionNext]_allVars => [Next]_vars
  BY SessionMovesController DEF allVars
<1> QED
  BY <1>1, <1>2, PTL DEF SessionSpec, Spec

\* A step of a task or of the deadline moves nothing the session looks at, and the
\* request keeps its task.
LEMMA BackgroundKeepsSession ==
  ASSUME ControllerInv, SessionInv, TasksAndClock
  PROVE  SessionInv'
<1>1. /\ UNCHANGED <<session, deciding, report>>
      /\ UNCHANGED <<main, pending>>
      /\ active'.request = active.request /\ active'.task = active.task
      /\ active = NoRequest => active' = NoRequest
  <2>1. UNCHANGED <<session, deciding, report>>
    BY DEF TasksAndClock, sessionVars
  <2>2. CASE \E t \in TaskIds : TaskStep(t)
    BY <2>1, <2>2, TaskStepMoves DEF TaskVars, ControllerInv
  <2>3. CASE CancelOverdue
    <3>1. active # NoRequest
      BY <2>3 DEF CancelOverdue, NoRequest
    <3>2. active \in ActiveRequests
      BY DEF ControllerInv, ControllerTypeOK
    <3> QED
      BY <2>1, <2>3, <3>1, <3>2 DEF CancelOverdue, ActiveRequests
  <2> QED
    BY <2>1, <2>2, <2>3 DEF TasksAndClock
<1>2. active.task = 0 /\ active' # NoRequest => active # NoRequest
  BY <1>1
<1>3. ASSUME Free, active.task = 0 PROVE active' = NoRequest
  BY <1>1, <1>3 DEF SessionInv, NothingUndecided
<1> QED
  BY <1>1, <1>3 DEF SessionInv, SessionAgreesWithController, DecidingRequest, NothingUndecided,
    DroppedSession, Free

\* The controller takes a request only when it has none, and the session notes its id.
LEMMA SubmitKeepsSession ==
  ASSUME ControllerInv, SessionInv, Submit \/ SubmitRefused
  PROVE  SessionInv'
<1>1. CASE Submit
  <2>1. /\ session' = requests + 1 /\ UNCHANGED <<deciding, pending, main>>
        /\ active'.request = requests + 1 /\ active'.task = spawned + 1
        /\ main = "Idle" /\ deciding = 0
    BY <1>1 DEF Submit, Start, Free, NoRequest
  <2>2. spawned \in Nat
    BY Constants DEF ControllerInv, ControllerTypeOK
  <2> QED
    BY <2>1, <2>2 DEF SessionInv, SessionAgreesWithController, DecidingRequest,
      NothingUndecided, DroppedSession, Free
<1>2. CASE SubmitRefused
  <2>1. UNCHANGED <<session, deciding, pending, main, active>>
    BY <1>2 DEF SubmitRefused, vars
  <2> QED
    BY <2>1 DEF SessionInv, SessionAgreesWithController, DecidingRequest, NothingUndecided,
      DroppedSession, Free
<1> QED
  BY <1>1, <1>2

\* Between calls the controller's request, if any, has a task: every attempt that was
\* joined has been decided.
LEMMA RequestHasTask ==
  ASSUME ControllerInv, SessionInv, Free
  PROVE  /\ pending = <<>> /\ main = "Idle" /\ deciding = 0
         /\ session = active.request
         /\ active.task = 0 <=> active = NoRequest
  BY Constants DEF SessionInv, SessionAgreesWithController, NothingUndecided, Free

\* A cancel finds a task to join, so the request stays until poll has joined it.
LEMMA CancelKeepsSession ==
  ASSUME ControllerInv, SessionInv, CancelRequest
  PROVE  SessionInv'
<1>1. /\ pending = <<>> /\ main = "Idle" /\ deciding = 0
      /\ session = active.request /\ active.task # 0
  BY RequestHasTask, Constants DEF CancelRequest
<1>2. /\ UNCHANGED <<session, deciding, pending, main>>
      /\ active'.request = active.request /\ active'.task = active.task
  <2>1. active \in ActiveRequests
    BY DEF ControllerInv, ControllerTypeOK
  <2> QED
    BY <1>1, <2>1 DEF CancelRequest, Cancel, CancelActive, sessionVars, ActiveRequests
<1> QED
  BY <1>1, <1>2 DEF SessionInv, SessionAgreesWithController, DecidingRequest, NothingUndecided,
    DroppedSession, Free

\* The first event of a poll is its only one, so the pump settles the request that
\* ended, or decides the attempt that was joined.
LEMMA PumpKeepsSession ==
  ASSUME ControllerInv, SessionInv, Pump
  PROVE  SessionInv'
<1>1. /\ pending = <<>> /\ main = "Idle" /\ deciding = 0
      /\ session = active.request
      /\ active.task = 0 <=> active = NoRequest
      /\ active.request \in Nat /\ active \in ActiveRequests
  <2>1. Free
    BY DEF Pump, PumpQuiet, PumpTerminal, PumpAttempt
  <2>2. active \in ActiveRequests
    BY DEF ControllerInv, ControllerTypeOK
  <2>3. active.request \in Nat
    BY <2>2, Constants DEF ActiveRequests
  <2> QED
    BY <2>1, <2>2, <2>3, RequestHasTask
<1>2. Poll => active.task # 0 /\ pending' = <<>> /\ main' = "Idle"
  BY <1>1 DEF Poll, PollPending, PollRunning, PollLost, PollJoinedCancelled, PollJoined,
    PollGuard, PollFrame
<1>3. Poll
  BY DEF Pump, PumpQuiet, PumpTerminal, PumpAttempt
<1>4. CASE PollRunning
  <2>1. returned' = <<>> /\ active'.request = active.request /\ active'.task = active.task
    BY <1>1, <1>4 DEF PollRunning, ActiveRequests
  <2>2. UNCHANGED <<session, deciding>>
    BY <2>1 DEF Pump, PumpQuiet, PumpTerminal, PumpAttempt, sessionVars
  <2> QED
    BY <1>1, <1>2, <1>3, <2>1, <2>2 DEF SessionInv, SessionAgreesWithController,
      DecidingRequest, NothingUndecided, DroppedSession, Free
<1>5. CASE PollLost \/ PollJoinedCancelled
  <2>1. active' = NoRequest
    BY <1>5 DEF PollLost, PollJoinedCancelled
  <2>2. PICK kind \in {"CancelledJoined", "FailedJoined"} :
          returned' = <<[kind |-> kind, request |-> active.request]>>
    BY <1>1, <1>5 DEF PollLost, PollJoinedCancelled
  <2>3. returned' # <<>> /\ returned'[1].kind # "AttemptJoined"
    BY <2>2
  <2>4. session' = 0 /\ deciding' = 0
    BY <1>1, <2>3 DEF Pump, PumpQuiet, PumpTerminal, PumpAttempt
  <2> QED
    BY <1>2, <1>3, <2>1, <2>4, Constants DEF SessionInv, SessionAgreesWithController,
      DecidingRequest, NothingUndecided, DroppedSession, Free
<1>6. CASE PollJoined
  <2>1. /\ returned' = <<[kind |-> "AttemptJoined", request |-> active.request]>>
        /\ active'.request = active.request /\ active'.task = 0
    BY <1>1, <1>6 DEF PollJoined, ActiveRequests
  <2>2. /\ returned' # <<>> /\ returned'[1].kind = "AttemptJoined"
        /\ returned'[1].request = active.request
    BY <2>1
  <2>3. session' = session /\ deciding' = active.request
    BY <2>2 DEF Pump, PumpQuiet, PumpTerminal, PumpAttempt
  <2>4. active.request # 0
    BY <1>1, <1>2, <1>3 DEF ControllerInv, ActiveRequest
  <2> QED
    BY <1>1, <1>2, <1>3, <2>1, <2>3, <2>4 DEF SessionInv, SessionAgreesWithController,
      DecidingRequest, NothingUndecided, DroppedSession, Free
<1>7. ~PollPending
  BY <1>1 DEF PollPending
<1> QED
  BY <1>3, <1>4, <1>5, <1>6, <1>7 DEF Poll

\* A decision ends the request on both sides, or starts its next task and keeps it.
LEMMA DecideKeepsSession ==
  ASSUME ControllerInv, SessionInv, Decide
  PROVE  SessionInv'
<1>1. /\ pending = <<>> /\ main = "Idle" /\ deciding # 0
      /\ session = deciding /\ active.request = deciding
  BY DEF SessionInv, NothingUndecided, DecidingRequest, Decide, AcceptCandidate,
    RejectCandidate, RejectStaleContext, RepairCandidate, Deciding
<1>2. CASE AcceptCandidate \/ RejectCandidate \/ RejectStaleContext
  <2>1. /\ active' = NoRequest /\ pending' = pending /\ main' = main
        /\ session' = 0 /\ deciding' = 0
    BY <1>2 DEF AcceptCandidate, RejectCandidate, RejectStaleContext, ResolveTerminal, Decided
  <2> QED
    BY <1>1, <2>1, Constants DEF SessionInv, SessionAgreesWithController, DecidingRequest,
      NothingUndecided, DroppedSession, Free
<1>3. CASE RepairCandidate
  <2>1. active \in ActiveRequests /\ spawned \in Nat
    BY Constants DEF ControllerInv, ControllerTypeOK
  <2>2. /\ active'.request = active.request /\ active'.task = spawned + 1
        /\ pending' = pending /\ main' = main
        /\ session' = session /\ deciding' = 0
    BY <1>3, <2>1 DEF RepairCandidate, ResolveRepair, ActiveRequests
  <2> QED
    BY <1>1, <2>1, <2>2 DEF SessionInv, SessionAgreesWithController, DecidingRequest,
      NothingUndecided, DroppedSession, Free
<1> QED
  BY <1>2, <1>3 DEF Decide

\* A shutdown takes the request from the controller while nobody can call, and the
\* session gives it up with the receipt.
LEMMA ShutdownKeepsSession ==
  ASSUME ControllerInv, SessionInv, ShutdownStart \/ ShutdownWait \/ ShutdownReport
  PROVE  SessionInv'
<1>1. CASE ShutdownStart
  <2>1. /\ pending = <<>> /\ main = "Idle" /\ deciding = 0
        /\ active.task = 0 <=> active = NoRequest
    BY <1>1, RequestHasTask DEF ShutdownStart
  <2>2. main' \in {"ShutdownDrain", "ShutdownJoin"} /\ deciding' = 0
    BY <1>1, <2>1 DEF ShutdownStart, ShutdownBegin, sessionVars
  <2>3. pending' = <<>>
    BY <1>1, <2>1 DEF ShutdownStart, ShutdownBegin, CancelActive, controllerVars
  <2> QED
    BY <2>2, <2>3 DEF SessionInv, SessionAgreesWithController, DecidingRequest,
      NothingUndecided, DroppedSession, Free
<1>2. CASE ShutdownWait
  <2>1. /\ main = "ShutdownJoin" /\ main' = "ShutdownDrain" /\ pending' = pending
        /\ UNCHANGED <<session, deciding>>
    BY <1>2 DEF ShutdownWait, ShutdownJoined, ShutdownJoinFailed, ShutdownTimedOut,
      ShutdownFrame, sessionVars
  <2> QED
    BY <2>1 DEF SessionInv, SessionAgreesWithController, DecidingRequest, NothingUndecided,
      DroppedSession, Free
<1>3. CASE ShutdownReport
  <2>1. /\ main = "ShutdownDrain" /\ main' = "Idle" /\ pending' = pending /\ active' = active
        /\ session' = 0 /\ deciding' = deciding
    BY <1>3 DEF ShutdownReport, ShutdownDrain, ShutdownFrame
  <2>2. active = NoRequest
    BY <2>1 DEF ControllerInv, ActiveRequest
  <2> QED
    BY <2>1, <2>2, Constants DEF SessionInv, SessionAgreesWithController, DecidingRequest,
      NothingUndecided, DroppedSession, Free
<1> QED
  BY <1>1, <1>2, <1>3

\* The session goes with its controller, and the next controller of the process starts
\* without a request, as its session does.
LEMMA DropKeepsSession ==
  ASSUME ControllerInv, SessionInv, DropSession
  PROVE  SessionInv'
<1>1. CASE Free /\ DropBegin /\ session' = 0 /\ UNCHANGED <<deciding, report>>
  <2>1. /\ main' \in {"Dropped", "DropJoin"} /\ pending' = pending /\ deciding' = 0
    BY <1>1 DEF DropBegin, Free
  <2> QED
    BY <1>1, <2>1 DEF SessionInv, SessionAgreesWithController, DecidingRequest,
      NothingUndecided, DroppedSession, Free
<1>2. CASE DropEnd /\ UNCHANGED sessionVars
  <2>1. /\ main = "DropJoin" /\ main' = "Dropped" /\ pending' = pending
        /\ UNCHANGED <<session, deciding>>
    BY <1>2 DEF DropEnd, sessionVars
  <2> QED
    BY <2>1 DEF SessionInv, SessionAgreesWithController, DecidingRequest, NothingUndecided,
      DroppedSession, Free
<1>3. CASE Reopen /\ report' = NoReport /\ UNCHANGED <<session, deciding>>
  <2>1. /\ main = "Dropped" /\ main' = "Idle" /\ pending' = <<>> /\ active' = active
        /\ UNCHANGED <<session, deciding>>
    BY <1>3 DEF Reopen
  <2>2. active = NoRequest
    BY <2>1 DEF ControllerInv, ActiveRequest
  <2> QED
    BY <2>1, <2>2, Constants DEF SessionInv, SessionAgreesWithController, DecidingRequest,
      NothingUndecided, DroppedSession, Free
<1> QED
  BY <1>1, <1>2, <1>3 DEF DropSession

\* Nothing runs and nothing waits when the session opens.
LEMMA SessionOpens == SessionInit => SessionInv
  BY Constants DEF SessionInit, Init, SessionInv, SessionAgreesWithController, DecidingRequest,
    NothingUndecided, DroppedSession, Free

\* Every step of the session keeps its invariant.
LEMMA SessionStepKeeps ==
  ControllerInv /\ SessionInv /\ [SessionNext]_allVars => SessionInv'
<1>1. ASSUME SessionInv, UNCHANGED allVars PROVE SessionInv'
  BY <1>1 DEF allVars, vars, sessionVars, SessionInv, SessionAgreesWithController,
    DecidingRequest, NothingUndecided, DroppedSession, Free
<1> QED
  BY <1>1, BackgroundKeepsSession, SubmitKeepsSession, CancelKeepsSession, PumpKeepsSession,
    DecideKeepsSession, ShutdownKeepsSession, DropKeepsSession DEF SessionNext

\* The invariant of the session and its controller, for every number of tasks.
THEOREM SessionInvariant == SessionSpec => [](ControllerInv /\ SessionInv)
<1>1. SessionSpec => []ControllerInv
  BY SessionUsesController, ControllerInvariant
<1> QED
  BY <1>1, SessionOpens, SessionStepKeeps, PTL DEF SessionSpec

\* Between two calls of the editor the session and its controller have the same request:
\* neither polls, cancels, decisions, shutdowns nor drops leave one of them alone with
\* one (ai_service.rs, active_llm_patch_request).
THEOREM SessionAndControllerAgree == SessionSpec => []SessionAgreesWithController
<1>1. SessionInv => SessionAgreesWithController
  BY DEF SessionInv
<1> QED
  BY <1>1, SessionInvariant, PTL

=============================================================================

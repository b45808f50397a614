--------------------------- MODULE LlmController ---------------------------
(***************************************************************************)
(* The owner of one language-model request of the editor                   *)
(* (editor_core/src/project_patch/llm_request_controller.rs):              *)
(* LlmRequestController, its LlmLifecycleStateMachine, and the process-    *)
(* wide LlmAsyncExecutor that runs the request tasks and keeps the handles *)
(* of the ones nobody could join in time.                                  *)
(*                                                                         *)
(* The caller is free here: any public method, in any order, from the one  *)
(* thread that owns the controller.  LlmSession restricts it to what the   *)
(* editor session does.  Calls that are refused change nothing and are     *)
(* not actions.  What a candidate contains is left out: a task's result is *)
(* "done" (any finished attempt) or "cancelled" (the transport saw the     *)
(* token).                                                                 *)
(***************************************************************************)
EXTENDS Naturals, Sequences

CONSTANTS MaxTasks,   \* bound: request tasks ever spawned in the process
          MaxEpochs   \* bound: controllers ever created in the process

ASSUME BoundsAssumption == MaxTasks \in Nat \ {0} /\ MaxEpochs \in Nat \ {0}

VARIABLES
  lifecycle,   \* LlmLifecycleStateMachine::state
  terminal,    \* LlmLifecycleStateMachine::terminal_committed
  active,      \* the ActiveLlmRequest, or NoRequest
  pending,     \* pending_events
  main,        \* where the thread that owns the controller is
  receipt,     \* the LlmShutdownReceipt of the last shutdown
  tasks,       \* the request tasks of the executor
  reapers,     \* LlmAsyncExecutor::reapers, the handles handed over
  spawned,     \* how many tasks were spawned
  requests,    \* how many requests were started
  epoch,       \* which controller of the process this is
  returned,    \* what the last poll returned
  cancelled,   \* history: the requests whose cancel was accepted
  terminals    \* history: the terminal states each request reached

controllerVars == <<lifecycle, terminal, active, pending>>
executorVars   == <<tasks, reapers, spawned>>
historyVars    == <<cancelled, terminals>>
vars == <<lifecycle, terminal, active, pending, main, receipt, tasks, reapers,
          spawned, requests, epoch, returned, cancelled, terminals>>

TaskIds    == 1 .. MaxTasks
RequestIds == 1 .. MaxTasks        \* every request spawns at least one task

JoinedTerminals == {"CompletedJoined", "FailedJoined", "CancelledJoined"}
Running         == {"RunningGenerate", "RunningRepair"}
Busy            == Running \cup {"Waiting", "Cancelling"}
Lifecycles      == {"Idle", "ShutdownJoinTimedOut"} \cup Busy \cup JoinedTerminals

\* No request: every field at rest.  cancel is "no", "asked" once cancel_started
\* is set and "overdue" once LLM_CANCEL_JOIN_DEADLINE has passed since.
NoRequest == [request |-> 0, attempt |-> 0, task |-> 0, owned |-> FALSE,
              output |-> "none", cancel |-> "no"]
\* A task: channel is what its attempt sent, token its CancellationToken, abort
\* whether JoinHandle::abort was called.
UnusedTask == [phase |-> "unused", outcome |-> "ok", channel |-> "none",
               token |-> FALSE, abort |-> FALSE, request |-> 0, epoch |-> 0]
\* request: history, the request this shutdown took away from the controller.
NoReceipt == [state |-> "none", join |-> "NotStarted", diagnostic |-> FALSE, request |-> 0]

ActiveRequests ==
  [request : {0} \cup RequestIds, attempt : Nat, task : {0} \cup TaskIds, owned : BOOLEAN,
   output : {"none", "done", "cancelled"}, cancel : {"no", "asked", "overdue"}]
Receipts ==
  [state : Lifecycles \cup {"none"}, diagnostic : BOOLEAN, request : {0} \cup RequestIds,
   join : {"NotStarted", "Joined", "Panicked", "JoinTimedOut"}]
Tasks ==
  [phase : {"unused", "running", "sent", "dying", "ended"}, outcome : {"ok", "panic", "abort"},
   channel : {"none", "done", "cancelled"}, token : BOOLEAN, abort : BOOLEAN,
   request : {0} \cup RequestIds, epoch : 0 .. MaxEpochs]
Events ==
  [kind : {"CancelledJoined", "FailedJoined", "AttemptJoined"}, request : RequestIds]

ControllerTypeOK ==
  /\ lifecycle \in Lifecycles
  /\ terminal \in BOOLEAN
  /\ active \in ActiveRequests
  /\ pending \in Seq(Events)
  /\ main \in {"Idle", "ShutdownJoin", "ShutdownDrain", "DropJoin", "Dropped"}
  /\ receipt \in Receipts
  /\ tasks \in [TaskIds -> Tasks]
  /\ reapers \in Seq(TaskIds)
  /\ spawned \in 0 .. MaxTasks
  /\ requests \in Nat
  /\ requests <= spawned
  /\ epoch \in 1 .. MaxEpochs
  /\ returned \in Seq(Events)
  /\ cancelled \subseteq RequestIds
  /\ terminals \in [RequestIds -> Seq({"Completed", "Failed", "Cancelled", "TimedOut"})]

Init ==
  /\ lifecycle = "Idle"
  /\ terminal = FALSE
  /\ active = NoRequest
  /\ pending = <<>>
  /\ main = "Idle"
  /\ receipt = NoReceipt
  /\ tasks = [t \in TaskIds |-> UnusedTask]
  /\ reapers = <<>>
  /\ spawned = 0
  /\ requests = 0
  /\ epoch = 1
  /\ returned = <<>>
  /\ cancelled = {}
  /\ terminals = [r \in RequestIds |-> <<>>]

-----------------------------------------------------------------------------
(* The request tasks. *)

Live(t) == tasks[t].phase \in {"running", "sent", "dying"}
Finished(t) == tasks[t].phase = "ended"          \* JoinHandle::is_finished

TaskVars == <<lifecycle, terminal, active, pending, main, receipt, reapers, spawned,
              requests, epoch, returned, cancelled, terminals>>

\* The attempt ends and its output goes into the channel.  The transport answers
\* "cancelled" only at an await point that saw the token.
TaskSend(t, result) ==
  /\ tasks[t].phase = "running"
  /\ result = "cancelled" => tasks[t].token
  /\ tasks' = [tasks EXCEPT ![t].phase = "sent", ![t].channel = result]
  /\ UNCHANGED TaskVars

\* The future panics, or meets the abort at an await point: its data and its
\* sender are dropped before the handle reads as finished.
TaskPanic(t) ==
  /\ tasks[t].phase = "running"
  /\ tasks' = [tasks EXCEPT ![t].phase = "dying", ![t].outcome = "panic"]
  /\ UNCHANGED TaskVars

TaskAborted(t) ==
  /\ tasks[t].phase = "running"
  /\ tasks[t].abort
  /\ tasks' = [tasks EXCEPT ![t].phase = "dying", ![t].outcome = "abort"]
  /\ UNCHANGED TaskVars

TaskEnd(t) ==
  /\ tasks[t].phase \in {"sent", "dying"}
  /\ tasks' = [tasks EXCEPT ![t].phase = "ended"]
  /\ UNCHANGED TaskVars

\* LLM_CANCEL_JOIN_DEADLINE passes since cancel_started.
CancelOverdue ==
  /\ active.cancel = "asked"
  /\ active' = [active EXCEPT !.cancel = "overdue"]
  /\ UNCHANGED <<lifecycle, terminal, pending, main, receipt, tasks, reapers, spawned,
                 requests, epoch, returned, cancelled, terminals>>

-----------------------------------------------------------------------------
(* The controller's methods. *)

CommitTerminal(state, request, kind) ==
  /\ lifecycle' = state
  /\ terminal' = TRUE
  /\ terminals' = [terminals EXCEPT ![request] = Append(@, kind)]

\* spawn_current_attempt: the owned data moves into a new task with a fresh
\* token and a fresh channel.
SpawnAttempt(request) ==
  /\ spawned < MaxTasks
  /\ spawned' = spawned + 1
  /\ tasks' = [tasks EXCEPT ![spawned + 1] =
                 [UnusedTask EXCEPT !.phase = "running", !.request = request,
                                    !.epoch = epoch]]

Start ==
  /\ main = "Idle"
  /\ active = NoRequest
  /\ lifecycle \in {"Idle"} \cup JoinedTerminals
  /\ SpawnAttempt(requests + 1)
  /\ lifecycle' = "RunningGenerate"
  /\ terminal' = FALSE
  /\ requests' = requests + 1
  /\ active' = [NoRequest EXCEPT !.request = requests + 1, !.task = spawned + 1]
  /\ UNCHANGED <<pending, main, receipt, reapers, epoch, returned, historyVars>>

\* A poll of a controller that waits for nothing hands out what a cancel left.
PollPending ==
  /\ main = "Idle"
  /\ active.task = 0
  /\ pending # <<>>
  /\ returned' = pending
  /\ pending' = <<>>
  /\ UNCHANGED <<lifecycle, terminal, active, main, receipt, executorVars,
                 requests, epoch, historyVars>>

PollGuard == main = "Idle" /\ active.task # 0
Output == IF active.output # "none" THEN active.output ELSE tasks[active.task].channel
AbortNever == UNCHANGED tasks
AbortIfOverdue ==
  tasks' = [tasks EXCEPT ![active.task].abort =
              @ \/ (lifecycle = "Cancelling" /\ active.cancel = "overdue")]
PollFrame == UNCHANGED <<main, receipt, reapers, spawned, requests, epoch, cancelled>>

\* The task still runs: it is aborted if its cancel is overdue; an output that
\* is already there is kept for the poll that finds the handle finished.
PollRunning ==
  /\ PollGuard
  /\ Live(active.task)
  /\ AbortIfOverdue
  /\ active' = [active EXCEPT !.output = Output]
  /\ returned' = pending
  /\ pending' = <<>>
  /\ PollFrame
  /\ UNCHANGED <<lifecycle, terminal, terminals>>

\* The channel is closed and the handle finished without an output: it is
\* joined, and the error decides between a cancel and a failure.
PollLost ==
  /\ PollGuard
  /\ Finished(active.task)
  /\ Output = "none"
  /\ LET kind == IF lifecycle = "Cancelling" /\ tasks[active.task].outcome = "abort"
                 THEN "CancelledJoined" ELSE "FailedJoined"
     IN /\ CommitTerminal(kind, active.request,
                          IF kind = "CancelledJoined" THEN "Cancelled" ELSE "Failed")
        /\ returned' = Append(pending, [kind |-> kind, request |-> active.request])
  /\ active' = NoRequest
  /\ pending' = <<>>
  /\ PollFrame
  /\ UNCHANGED tasks

PollCancelledUnjoined ==
  /\ PollGuard
  /\ Output # "none"
  /\ lifecycle = "Cancelling"
  /\ CommitTerminal("CancelledJoined", active.request, "Cancelled")
  /\ returned' = Append(pending, [kind |-> "CancelledJoined", request |-> active.request])
  /\ active' = NoRequest
  /\ pending' = <<>>
  /\ PollFrame
  /\ UNCHANGED tasks

\* The output is there and the handle finished: it is joined.  While Cancelling
\* the output is dropped with the request, otherwise it goes to the caller and
\* the request keeps its data for the decision.
PollJoinedCancelled ==
  /\ PollGuard
  /\ Finished(active.task)
  /\ Output # "none"
  /\ lifecycle = "Cancelling"
  /\ CommitTerminal("CancelledJoined", active.request, "Cancelled")
  /\ returned' = Append(pending, [kind |-> "CancelledJoined", request |-> active.request])
  /\ active' = NoRequest
  /\ pending' = <<>>
  /\ PollFrame
  /\ UNCHANGED tasks

PollJoinedAlways ==
  /\ PollGuard
  /\ Finished(active.task)
  /\ Output # "none"
  /\ lifecycle' = "Waiting"
  /\ returned' = Append(pending, [kind |-> "AttemptJoined", request |-> active.request])
  /\ active' = [active EXCEPT !.task = 0, !.owned = TRUE, !.output = "none"]
  /\ pending' = <<>>
  /\ PollFrame
  /\ UNCHANGED <<tasks, terminal, terminals>>

PollJoined ==
  /\ PollGuard
  /\ Finished(active.task)
  /\ Output # "none"
  /\ lifecycle # "Cancelling"
  /\ lifecycle' = "Waiting"
  /\ returned' = Append(pending, [kind |-> "AttemptJoined", request |-> active.request])
  /\ active' = [active EXCEPT !.task = 0, !.owned = TRUE, !.output = "none"]
  /\ pending' = <<>>
  /\ PollFrame
  /\ UNCHANGED tasks
  /\ UNCHANGED <<terminal, terminals>>

\* resolve_attempt(Complete | Fail): the request and its data are dropped.
ResolveTerminal(kind) ==
  /\ main = "Idle"
  /\ lifecycle = "Waiting"
  /\ active # NoRequest
  /\ ~terminal
  /\ CommitTerminal(IF kind = "Completed" THEN "CompletedJoined" ELSE "FailedJoined",
                    active.request, kind)
  /\ active' = NoRequest
  /\ UNCHANGED <<pending, main, receipt, executorVars, requests, epoch, returned, cancelled>>

\* resolve_attempt(ContinueRepair): the next attempt of the same request.
ResolveRepair ==
  /\ main = "Idle"
  /\ lifecycle = "Waiting"
  /\ active.owned
  /\ SpawnAttempt(active.request)
  /\ lifecycle' = "RunningRepair"
  /\ active' = [active EXCEPT !.attempt = @ + 1, !.owned = FALSE, !.task = spawned + 1]
  /\ UNCHANGED <<terminal, pending, main, receipt, reapers, requests, epoch, returned,
                 historyVars>>

CancelKeepingRequest ==
  /\ active # NoRequest
  /\ cancelled' = cancelled \cup {active.request}
  /\ IF active.task = 0
       THEN /\ CommitTerminal("CancelledJoined", active.request, "Cancelled")
            /\ pending' = <<[kind |-> "CancelledJoined", request |-> active.request]>>
            /\ UNCHANGED <<tasks, active>>
       ELSE /\ lifecycle' = "Cancelling"
            /\ active' = [active EXCEPT !.cancel = IF @ = "no" THEN "asked" ELSE @]
            /\ tasks' = [tasks EXCEPT ![active.task].token = TRUE]
            /\ UNCHANGED <<terminal, terminals, pending>>

\* cancel of the active request.  With no task to join the request ends here and
\* its event waits for the next poll; otherwise the token is set and poll joins.
CancelActive ==
  /\ active # NoRequest
  /\ cancelled' = cancelled \cup {active.request}
  /\ IF active.task = 0
       THEN /\ CommitTerminal("CancelledJoined", active.request, "Cancelled")
            /\ active' = NoRequest
            /\ pending' = Append(pending, [kind |-> "CancelledJoined",
                                           request |-> active.request])
            /\ UNCHANGED tasks
       ELSE /\ lifecycle' = "Cancelling"
            /\ active' = [active EXCEPT !.cancel = IF @ = "no" THEN "asked" ELSE @]
            /\ tasks' = [tasks EXCEPT ![active.task].token = TRUE]
            /\ UNCHANGED <<terminal, terminals, pending>>

Cancel ==
  /\ main = "Idle"
  /\ CancelActive
  /\ UNCHANGED <<main, receipt, reapers, spawned, requests, epoch, returned>>

-----------------------------------------------------------------------------
(* shutdown(deadline): cancel, join the task, then drain the reapers. *)

ShutdownBegin ==
  /\ main = "Idle"
  /\ IF active = NoRequest
       THEN UNCHANGED <<controllerVars, tasks, cancelled, terminals>>
       ELSE CancelActive
  /\ main' = IF active.task = 0 THEN "ShutdownDrain" ELSE "ShutdownJoin"
  /\ receipt' = NoReceipt
  /\ UNCHANGED <<reapers, spawned, requests, epoch, returned>>

ShutdownFrame == UNCHANGED <<pending, spawned, requests, epoch, returned, cancelled>>

\* The task ended well before the deadline.  The lifecycle is only settled at the
\* end of shutdown, in ShutdownDrain.
ShutdownJoined ==
  /\ main = "ShutdownJoin"
  /\ Finished(active.task)
  /\ tasks[active.task].outcome = "ok"
  /\ receipt' = [receipt EXCEPT !.join = "Joined", !.request = active.request]
  /\ active' = NoRequest
  /\ main' = "ShutdownDrain"
  /\ ShutdownFrame
  /\ UNCHANGED <<lifecycle, terminal, terminals, reapers, tasks>>

\* The join returned an error: a panic, or an abort by an earlier poll.
ShutdownJoinFailed ==
  /\ main = "ShutdownJoin"
  /\ Finished(active.task)
  /\ tasks[active.task].outcome # "ok"
  /\ receipt' = [receipt EXCEPT !.diagnostic = TRUE, !.request = active.request,
                   !.join = IF tasks[active.task].outcome = "panic"
                            THEN "Panicked" ELSE "Joined"]
  /\ active' = NoRequest
  /\ main' = "ShutdownDrain"
  /\ ShutdownFrame
  /\ UNCHANGED <<lifecycle, terminal, terminals, reapers, tasks>>

ShutdownDetaching ==
  /\ main = "ShutdownJoin"
  /\ Live(active.task)
  /\ receipt' = [receipt EXCEPT !.diagnostic = TRUE, !.join = "JoinTimedOut"]
  /\ CommitTerminal("ShutdownJoinTimedOut", active.request, "TimedOut")
  /\ active' = NoRequest
  /\ main' = "ShutdownDrain"
  /\ tasks' = [tasks EXCEPT ![active.task].abort = TRUE]
  /\ ShutdownFrame
  /\ UNCHANGED reapers

\* The deadline passed first: the handle is aborted and handed to a reaper; the
\* channel goes with the request.
ShutdownTimedOut ==
  /\ main = "ShutdownJoin"
  /\ Live(active.task)
  /\ receipt' = [receipt EXCEPT !.diagnostic = TRUE, !.request = active.request,
                               !.join = "JoinTimedOut"]
  /\ CommitTerminal("ShutdownJoinTimedOut", active.request, "TimedOut")
  /\ reapers' = Append(reapers, active.task)
  /\ active' = NoRequest
  /\ main' = "ShutdownDrain"
  /\ tasks' = [tasks EXCEPT ![active.task].abort = TRUE]
  /\ ShutdownFrame

ShutdownUndrained ==
  /\ main = "ShutdownDrain"
  /\ lifecycle' = IF receipt.join # "NotStarted" /\ ~receipt.diagnostic
                  THEN "CancelledJoined" ELSE lifecycle
  /\ receipt' = [receipt EXCEPT
       !.state = IF receipt.diagnostic THEN "ShutdownJoinTimedOut" ELSE lifecycle']
  /\ main' = "Idle"
  /\ ShutdownFrame
  /\ UNCHANGED <<active, tasks, terminal, terminals, reapers>>

\* drain_reapers joins handles in order until the deadline and puts the rest
\* back; then shutdown settles the lifecycle and returns its receipt.
ShutdownDrain ==
  /\ main = "ShutdownDrain"
  /\ \E joined \in 0 .. Len(reapers) :
       LET drained  == joined = Len(reapers)
           timedOut == ~drained /\ ~receipt.diagnostic
           settled  == receipt.join # "NotStarted" /\ ~receipt.diagnostic /\ ~timedOut
       IN /\ \A i \in 1 .. joined : Finished(reapers[i])
          /\ reapers' = SubSeq(reapers, joined + 1, Len(reapers))
          /\ lifecycle' = IF timedOut THEN "ShutdownJoinTimedOut"
                          ELSE IF settled THEN "CancelledJoined" ELSE lifecycle
          /\ terminal' = (terminal \/ timedOut \/ settled)
          /\ receipt' = [receipt EXCEPT
               !.state = IF timedOut \/ receipt.diagnostic THEN "ShutdownJoinTimedOut" ELSE lifecycle',
               !.join = IF timedOut THEN "JoinTimedOut" ELSE @,
               !.diagnostic = @ \/ timedOut]
          /\ terminals' = IF receipt.request # 0 /\ (timedOut \/ settled)
                          THEN [terminals EXCEPT ![receipt.request] =
                                  Append(@, IF timedOut THEN "TimedOut" ELSE "Cancelled")]
                          ELSE terminals
  /\ main' = "Idle"
  /\ ShutdownFrame
  /\ UNCHANGED <<active, tasks>>

-----------------------------------------------------------------------------
(* Drop, and the next controller of the process on the same executor. *)

DropBegin ==
  /\ main = "Idle"
  /\ IF active.task = 0
       THEN main' = "Dropped" /\ active' = NoRequest /\ UNCHANGED tasks
       ELSE /\ main' = "DropJoin"
            /\ tasks' = [tasks EXCEPT ![active.task].token = TRUE,
                                      ![active.task].abort = TRUE]
            /\ UNCHANGED active
  /\ UNCHANGED <<lifecycle, terminal, pending, receipt, reapers, spawned, requests, epoch,
                 returned, historyVars>>

\* The handle was joined within LLM_DROP_JOIN_BUDGET, or is handed to a reaper.
DropEnd ==
  /\ main = "DropJoin"
  /\ reapers' = IF Finished(active.task) THEN reapers ELSE Append(reapers, active.task)
  /\ active' = NoRequest
  /\ main' = "Dropped"
  /\ UNCHANGED <<lifecycle, terminal, pending, receipt, tasks, spawned, requests, epoch,
                 returned, historyVars>>

Reopen ==
  /\ main = "Dropped"
  /\ epoch < MaxEpochs
  /\ epoch' = epoch + 1
  /\ main' = "Idle"
  /\ lifecycle' = "Idle"
  /\ terminal' = FALSE
  /\ pending' = <<>>
  /\ returned' = <<>>
  /\ receipt' = NoReceipt
  /\ UNCHANGED <<active, executorVars, requests, historyVars>>

-----------------------------------------------------------------------------
TaskStep(t) ==
  \/ TaskSend(t, "done")
  \/ TaskSend(t, "cancelled")
  \/ TaskPanic(t)
  \/ TaskAborted(t)
  \/ TaskEnd(t)

Poll == PollPending \/ PollRunning \/ PollLost \/ PollJoinedCancelled \/ PollJoined
Shutdown == ShutdownBegin \/ ShutdownJoined \/ ShutdownJoinFailed \/ ShutdownTimedOut
              \/ ShutdownDrain

Next ==
  \/ \E t \in TaskIds : TaskStep(t)
  \/ CancelOverdue
  \/ Start
  \/ Poll
  \/ \E kind \in {"Completed", "Failed"} : ResolveTerminal(kind)
  \/ ResolveRepair
  \/ Cancel
  \/ Shutdown
  \/ DropBegin
  \/ DropEnd
  \/ Reopen

Spec == Init /\ [][Next]_vars

-----------------------------------------------------------------------------
(* Properties. *)

Handles == {reapers[i] : i \in 1 .. Len(reapers)}

\* Who still holds a request's prompt, context and credential: its running task,
\* the channel its receiver still reads, or the controller itself.
DataHeld(r) ==
  \/ \E t \in TaskIds : tasks[t].request = r /\ tasks[t].phase = "running"
  \/ active.request = r

\* Every task that has not ended has its handle with the controller or with a
\* reaper: no poll, cancel, shutdown or drop lets one run on detached.
NoDetachedTask ==
  \A t \in TaskIds : Live(t) => t = active.task \/ t \in Handles

\* A controller never has two request tasks running: a new request, or a repair
\* attempt, starts only after the task before it was joined.
OneLiveTaskPerController ==
  \A t, u \in TaskIds : Live(t) /\ Live(u) /\ tasks[t].epoch = tasks[u].epoch => t = u

\* A request has at most one terminal state, however cancel, completion,
\* shutdown and failure race.
OneTerminalPerRequest ==
  \A r \in RequestIds : Len(terminals[r]) <= 1

\* A request that was reported completed, failed or cancelled has no task left
\* that could still run, and nothing holds its data any more.
JoinedTerminalMeansStopped ==
  \A r \in RequestIds :
    (\E i \in 1 .. Len(terminals[r]) : terminals[r][i] # "TimedOut")
      => /\ ~DataHeld(r)
         /\ \A t \in TaskIds : tasks[t].request = r => ~Live(t)

\* Once a cancel was accepted no attempt of that request is handed to the
\* caller any more, and the request does not complete.
CancelWins ==
  [][/\ \A i \in 1 .. Len(returned') :
          returned'[i].kind = "AttemptJoined" /\ returned' # returned
            => returned'[i].request \notin cancelled
     /\ \A r \in cancelled : terminals'[r] # terminals[r]
            => terminals'[r][Len(terminals'[r])] # "Completed"]_vars

\* ShutdownJoinTimedOut is not left and starts nothing: only a new controller
\* can take another request.
TimedOutIsFinal ==
  [][lifecycle = "ShutdownJoinTimedOut" /\ epoch' = epoch
       => lifecycle' = lifecycle /\ active' = NoRequest]_vars

\* A shutdown that returns without a diagnostic leaves no task running and no
\* handle with a reaper, in the whole process.
CleanShutdownLeavesNothing ==
  [][main = "ShutdownDrain" /\ main' = "Idle" /\ ~receipt'.diagnostic
       => reapers' = <<>> /\ \A t \in TaskIds : ~Live(t)]_vars

-----------------------------------------------------------------------------
(* The invariant the proofs rest on. *)

SpawnedTasks ==
  \A t \in TaskIds :
    IF t > spawned THEN tasks[t] = UnusedTask
    ELSE /\ tasks[t].phase # "unused"
         /\ tasks[t].request # 0
         /\ tasks[t].request <= requests
         /\ tasks[t].epoch <= epoch

ActiveRequest ==
  /\ active.request = 0 => active = NoRequest
  /\ active.request # 0 => lifecycle \in Busy /\ active.request <= requests
  /\ active.request # 0 /\ active.task = 0 => lifecycle = "Waiting"
  /\ active.task # 0 => /\ lifecycle \in Running \cup {"Cancelling"}
                       /\ active.task <= spawned
                       /\ tasks[active.task].request = active.request
                       /\ tasks[active.task].epoch = epoch
  /\ main \in {"ShutdownJoin", "DropJoin"} => active.task # 0
  /\ main = "ShutdownJoin" => lifecycle = "Cancelling"
  /\ main \in {"ShutdownDrain", "Dropped"} => active = NoRequest

\* A live task the controller does not hold belongs to another request, and if
\* it is this controller's then a shutdown gave it up.
StrayTasks ==
  \A t \in TaskIds : Live(t) /\ t # active.task =>
    /\ t \in Handles
    /\ tasks[t].request # active.request
    /\ tasks[t].epoch = epoch => lifecycle = "ShutdownJoinTimedOut" \/ main = "Dropped"

\* The request a shutdown has joined but not yet settled.
ClosingRequest ==
  main = "ShutdownDrain" /\ ~receipt.diagnostic =>
    /\ receipt.join \in {"NotStarted", "Joined"}
    /\ receipt.request = 0 <=> receipt.join = "NotStarted"
    /\ receipt.request # 0 =>
         /\ lifecycle = "Cancelling"
         /\ receipt.request <= requests
         /\ terminals[receipt.request] = <<>>
         /\ \A t \in TaskIds : tasks[t].request = receipt.request => ~Live(t)

OpenRequests ==
  \A r \in RequestIds : r = active.request \/ r > requests => terminals[r] = <<>>

ControllerInv ==
  /\ ControllerTypeOK
  /\ SpawnedTasks
  /\ ActiveRequest
  /\ StrayTasks
  /\ OneLiveTaskPerController
  /\ ClosingRequest
  /\ OpenRequests
  /\ OneTerminalPerRequest
  /\ JoinedTerminalMeansStopped

-----------------------------------------------------------------------------
=============================================================================

------------------------------ MODULE RenderHost ------------------------------
(***************************************************************************)
(* EngineHostLoop with a dedicated RenderCommandDispatcher: the one thread *)
(* that owns the RenderThreadWorker handle, submits a frame and waits for  *)
(* it (two seconds at most), and shares the render resource owner, a       *)
(* Mutex, with the worker thread.  Every call of the handle is the one of  *)
(* RenderWorker, step by step; this module adds the order in which a tick  *)
(* makes them, the lock and what a tick does when a call disappoints it.   *)
(* Three steps of the host reach past the handle's methods and write its   *)
(* fields: they have to keep the worker's invariant Inv as well.           *)
(***************************************************************************)
EXTENDS RenderWorkerInvariant

CONSTANT CellBackend   \* ticks are given a runtime context with a cell backend

ASSUME CellBackendAssumption == CellBackend \in BOOLEAN
\* flush asks for no target frame
ASSUME FlushAssumption == 0 \in FenceTargets

VARIABLES
  resource_lock,          \* who holds the Mutex
  poisoned,               \* a holder unwound
  host_pc,
  in_tick,                \* inside tick, not render_thread_for_target
  host_control,           \* Exit was asked for
  faulted,                \* project_runtime_session_faulted
  after_lag,              \* what follows the update of the frame lag
  fence_status,           \* outcome of the last flush
  completed_frame_index   \* the dispatcher's own copy

ownerVars == <<resource_lock, poisoned>>
tickVars == <<in_tick, host_control, faulted, after_lag>>
dispatcherVars == <<fence_status, completed_frame_index>>
hostVars == <<ownerVars, host_pc, tickVars, dispatcherVars>>
allVars == <<vars, hostVars>>

HostInit ==
  /\ Init
  /\ resource_lock = "free"
  /\ poisoned = FALSE
  /\ host_pc = "idle"
  /\ in_tick = FALSE
  /\ host_control = FALSE
  /\ faulted = FALSE
  /\ after_lag = "end"
  /\ fence_status = "Pending"
  /\ completed_frame_index = 0

\* The host's own thread goes on only when no call is in progress.
At(pc) == host_pc = pc /\ call_pc = "idle"
Goto(pc) == host_pc' = pc

-----------------------------------------------------------------------------
(* The worker thread and the owner's lock *)

\* execute_packet locks the owner for the whole frame
LockOwner ==
  /\ Serving("SubmitFrame")
  /\ resource_lock = "free"
  /\ ~poisoned
  /\ resource_lock' = "worker"
  /\ UNCHANGED <<vars, poisoned, host_pc, tickVars, dispatcherVars>>

ExecuteFrame ==
  /\ resource_lock = "worker"
  /\ FinishFrame
  /\ resource_lock' = "free"
  /\ UNCHANGED <<poisoned, host_pc, tickVars, dispatcherVars>>

\* expect("render resource owner poisoned")
RefusePoisonedOwner ==
  /\ resource_lock = "free"
  /\ poisoned
  /\ PanicInFrame
  /\ UNCHANGED hostVars

PanicHoldingOwner ==
  /\ resource_lock = "worker"
  /\ PanicInFrame
  /\ resource_lock' = "free"
  /\ poisoned' = TRUE
  /\ UNCHANGED <<host_pc, tickVars, dispatcherVars>>

WorkerThread ==
  \/ /\ \/ WorkerStart \/ WorkerRecv \/ WorkerHangup \/ WorkerStop
        \/ WorkerAccept \/ SendProgress \/ AnswerFence
        \/ BeginShutdown \/ AnswerShutdown \/ ReportStopped \/ ThreadExit
     /\ UNCHANGED hostVars
  \/ LockOwner
  \/ ExecuteFrame
  \/ RefusePoisonedOwner

-----------------------------------------------------------------------------
(* The call in progress *)

FenceOutcome ==
  IF call_pc = "drain" /\ Answers # {} THEN "Completed"
  ELSE IF call_pc = "recvTimeout" THEN "WorkerLost"
  ELSE "Timeout"

CompletedAfterPoll ==
  IF call.id \in consumed' THEN call.id ELSE completed_frame_index

CompletedAfterWait ==
  IF FenceOutcome = "Completed"
    THEN (CHOOSE result \in Answers : TRUE).completed
    ELSE latest_report'.last_completed_frame

\* What the dispatcher keeps of the call that just returned.
Returned ==
  /\ call_pc' = "idle"
  /\ \/ /\ host_pc = "waiting"
        /\ fence_status' = FenceOutcome
        /\ completed_frame_index' = CompletedAfterWait
     \/ /\ host_pc = "polling"
        /\ completed_frame_index' = CompletedAfterPoll
        /\ UNCHANGED fence_status
     \/ /\ host_pc = "lagging"
        /\ completed_frame_index' = latest_report'.last_completed_frame
        /\ UNCHANGED fence_status
     \/ /\ host_pc \notin {"waiting", "polling", "lagging"}
        /\ UNCHANGED dispatcherVars

CallInProgress ==
  /\ CallStep
  /\ \/ Returned
     \/ call_pc' # "idle" /\ UNCHANGED dispatcherVars
  /\ UNCHANGED <<ownerVars, host_pc, tickVars>>

-----------------------------------------------------------------------------
(* Submitting a frame and waiting for it *)

\* Back to the tick, or to the caller of render_thread_for_target.
Submitted == IF in_tick THEN "lag" ELSE "idle"

\* submit_frame_output: a refused frame has its synthetic result at once.
Refused ==
  \/ ~AdmissionOpen
  \/ ~FrameSlotFree
  \/ CommandReceiverAlive /\ Len(commands) >= CommandCapacity

Submit ==
  /\ At("submit")
  /\ \/ /\ SubmitFrame
        /\ Goto(IF frames_admitted' = frames_admitted THEN Submitted ELSE "fence")
     \/ Refused /\ UNCHANGED vars /\ Goto(Submitted)
  /\ UNCHANGED <<ownerVars, tickVars, dispatcherVars>>

\* flush: the outcome of insert_fence is ignored, the wait follows anyway.
FlushFence ==
  /\ At("fence")
  /\ FenceCall
  /\ InsertFenceOf("RenderThread", 0)
  /\ Goto("wait")
  /\ UNCHANGED <<ownerVars, tickVars, dispatcherVars>>

FlushWait ==
  /\ At("wait")
  /\ WaitFence
  /\ call'.id = fences_created
  /\ Goto("waiting")
  /\ UNCHANGED <<ownerVars, tickVars, dispatcherVars>>

\* the ticket of the frame just submitted
Ticket == frames_admitted

PollResult ==
  /\ At("waiting")
  /\ PollSubmission
  /\ call'.id = Ticket
  /\ Goto("polling")
  /\ UNCHANGED <<ownerVars, tickVars, dispatcherVars>>

Polled ==
  /\ At("polling")
  /\ Goto(IF frames_admitted \in consumed THEN Submitted ELSE "missing")
  /\ UNCHANGED <<vars, ownerVars, tickVars, dispatcherVars>>

MissingResultLeavingAdmission == UNCHANGED <<stop_requested, latest_report>>

\* No result: admission closes; the frame still owns what it holds.
CloseAfterMissingResult ==
  /\ stop_requested' = TRUE
  /\ latest_report' = IF fence_status = "Timeout"
                        THEN [latest_report EXCEPT !.state = "ShuttingDown"]
                        ELSE latest_report

MissingResult ==
  /\ At("missing")
  /\ CloseAfterMissingResult
  /\ Goto(Submitted)
  /\ UNCHANGED <<commands, events, workerVars, outstanding_frames,
                 outstanding_fences, cached_submissions, cached_fences,
                 thread_handle, callVars, historyVars, ownerVars, tickVars,
                 dispatcherVars>>

-----------------------------------------------------------------------------
(* A tick *)

\* tick and render_thread_for_target each create one fence at the most
FenceLeft == fences_created < MaxFence

RenderForTarget ==
  /\ At("idle")
  /\ FenceLeft /\ frames_admitted < MaxFrame
  /\ Goto("submit")
  /\ UNCHANGED <<vars, ownerVars, tickVars, dispatcherVars>>

\* preparation_error: a poisoned owner fails the tick before anything else
TickBegin ==
  /\ At("idle")
  /\ FenceLeft
  /\ in_tick' = TRUE
  /\ \/ poisoned /\ Goto("reject") /\ host_control' = TRUE /\ UNCHANGED vars
     \/ ~poisoned /\ Goto("prepare") /\ LatestReport /\ UNCHANGED host_control
  /\ UNCHANGED <<ownerVars, faulted, after_lag, dispatcherVars>>

PreparationAllowedByPoison == ~poisoned
PreparationAllowed == AdmissionOpen

\* preparation_error and the early returns of tick_control_frame
Prepare ==
  /\ At("prepare")
  /\ \/ ~PreparationAllowed /\ Goto("reject") /\ host_control' = TRUE
     \/ PreparationAllowed /\ Goto("end") /\ UNCHANGED host_control
     \/ /\ PreparationAllowed /\ ~faulted /\ ~host_control
        /\ Goto("runtime")
        /\ UNCHANGED host_control
  /\ UNCHANGED <<vars, ownerVars, in_tick, faulted, after_lag, dispatcherVars>>

\* with_resources
WantsOwner == host_pc \in {"runtime", "snapshot", "close", "observe"}

AcquireOwner ==
  /\ WantsOwner
  /\ resource_lock = "free"
  /\ ~poisoned
  /\ resource_lock' = "host"
  /\ UNCHANGED <<vars, poisoned, host_pc, tickVars, dispatcherVars>>

\* lock() reports the poison: the frame fails, the other two ignore it.
OwnerPoisoned ==
  /\ WantsOwner
  /\ resource_lock = "free"
  /\ poisoned
  /\ \/ /\ host_pc = "runtime"
        /\ Goto("reject")
        /\ host_control' = TRUE
        /\ UNCHANGED <<in_tick, after_lag>>
     \/ /\ host_pc = "snapshot"
        /\ Goto("lag")
        /\ after_lag' = "reject"
        /\ host_control' = TRUE
        /\ UNCHANGED in_tick
     \/ /\ host_pc \in {"close", "observe"}
        /\ Goto("idle")
        /\ in_tick' = FALSE
        /\ UNCHANGED <<host_control, after_lag>>
  /\ UNCHANGED <<vars, ownerVars, faulted, dispatcherVars>>

ReleaseOwner == resource_lock = "host" /\ resource_lock' = "free"

\* The runtime frame succeeds, asks for the exit, or faults the session.
RunFrame ==
  /\ host_pc = "runtime"
  /\ ReleaseOwner
  /\ \/ /\ Goto("snapshot")
        /\ host_control' \in {host_control, TRUE}
        /\ UNCHANGED faulted
     \/ /\ Goto("end")
        /\ faulted' = TRUE
        /\ UNCHANGED host_control
  /\ UNCHANGED <<vars, poisoned, in_tick, after_lag, dispatcherVars>>

\* render_built or not
Snapshot ==
  /\ host_pc = "snapshot"
  /\ ReleaseOwner
  /\ \/ /\ frames_admitted < MaxFrame
        /\ Goto("submit")
        /\ after_lag' = "report"
     \/ /\ Goto("lag")
        /\ after_lag' = "end"
  /\ UNCHANGED <<vars, poisoned, in_tick, host_control, faulted, dispatcherVars>>

UpdateLag ==
  /\ At("lag")
  /\ LatestReport
  /\ Goto("lagging")
  /\ UNCHANGED <<ownerVars, tickVars, dispatcherVars>>

LagUpdated ==
  /\ At("lagging")
  /\ Goto(after_lag)
  /\ UNCHANGED <<vars, ownerVars, tickVars, dispatcherVars>>

\* reject_frame_output: the flag, then shutdown(ZERO)
RejectFrame ==
  /\ At("reject")
  /\ stop_requested' = TRUE
  /\ Goto("rejecting")
  /\ UNCHANGED <<commands, events, workerVars, handleVars, callVars, historyVars,
                 ownerVars, tickVars, dispatcherVars>>

RejectShutdown ==
  /\ At("rejecting")
  /\ Shutdown
  /\ Goto("report")
  /\ UNCHANGED <<ownerVars, tickVars, dispatcherVars>>

ReportWorker ==
  /\ At("report")
  /\ LatestReport
  /\ Goto("end")
  /\ UNCHANGED <<ownerVars, tickVars, dispatcherVars>>

\* tick_internal, after tick_control_frame
TickEnd ==
  /\ At("end")
  /\ IF CellBackend /\ (host_control \/ faulted)
       THEN Goto("close") /\ UNCHANGED in_tick
       ELSE Goto("idle") /\ in_tick' = FALSE
  /\ UNCHANGED <<vars, ownerVars, host_control, faulted, after_lag, dispatcherVars>>

\* advance_generated_content_native, or an observation of the snapshot
OwnerUsed ==
  /\ host_pc \in {"close", "observe"}
  /\ ReleaseOwner
  /\ Goto("idle")
  /\ in_tick' = FALSE
  /\ UNCHANGED <<vars, poisoned, host_control, faulted, after_lag, dispatcherVars>>

Observe ==
  /\ At("idle")
  /\ Goto("observe")
  /\ UNCHANGED <<vars, ownerVars, tickVars, dispatcherVars>>

\* The code run under the lock panics and a caller of the host catches it.
UnwindHoldingOwner ==
  /\ WantsOwner
  /\ ReleaseOwner
  /\ poisoned' = TRUE
  /\ Goto("idle")
  /\ in_tick' = FALSE
  /\ UNCHANGED <<vars, host_control, faulted, after_lag, dispatcherVars>>

\* Drop for RenderCommandDispatcher, then for the worker it owns
DropDispatcher ==
  /\ At("idle")
  /\ FenceLeft
  /\ Shutdown
  /\ Goto("dropping")
  /\ UNCHANGED <<ownerVars, tickVars, dispatcherVars>>

DropWorker ==
  /\ At("dropping")
  /\ DropHandle
  /\ Goto("dropped")
  /\ UNCHANGED <<ownerVars, tickVars, dispatcherVars>>

\* What the host's thread does once it has begun something.
HostContinues ==
  \/ CallInProgress
  \/ Submit \/ FlushFence \/ FlushWait \/ PollResult \/ Polled \/ MissingResult
  \/ Prepare \/ AcquireOwner \/ OwnerPoisoned \/ RunFrame \/ Snapshot
  \/ UpdateLag \/ LagUpdated \/ RejectFrame \/ RejectShutdown \/ ReportWorker
  \/ TickEnd \/ OwnerUsed \/ DropWorker

HostBegins == TickBegin \/ RenderForTarget \/ Observe \/ DropDispatcher

\* Out of bounds or released: nothing is left to happen.
HostReleased ==
  /\ \/ host_pc = "dropped" /\ call_pc = "dropped" /\ worker_pc = "finished"
     \/ At("idle") /\ ~FenceLeft
  /\ UNCHANGED allVars

HostNext ==
  \/ WorkerThread \/ PanicHoldingOwner
  \/ HostContinues \/ UnwindHoldingOwner \/ HostBegins \/ HostReleased

HostSpec == HostInit /\ [][HostNext]_allVars

\* The host's thread is scheduled and the clock passes the deadline of a wait;
\* the worker thread may hang.
HostFairness ==
  /\ WF_allVars(HostContinues)
  /\ SF_allVars(WaitTimeout /\ CallInProgress)

HostFairSpec == HostSpec /\ HostFairness

-----------------------------------------------------------------------------
(* Properties *)

\* submit_frame_output_and_wait: whenever the host is free to prepare a frame
\* with admission open, no earlier frame is owed: each was delivered, however
\* the waits before it ended.
NothingInFlightWhileOpen ==
  /\ host_pc \in {"idle", "runtime", "snapshot", "submit"}
  /\ call_pc = "idle"
  /\ AdmissionOpen
  => consumed = 1 .. frames_admitted /\ Owed = {}

\* preparation_error before with_resources: preparing a frame never waits for
\* a worker that still holds the owner.
PreparationNeverWaits ==
  host_pc \in {"runtime", "snapshot"} => resource_lock # "worker"

\* A frame was submitted and its result not yet looked for.
InFlight == host_pc \in {"fence", "wait", "waiting", "polling", "missing"}

\* The frames admitted before the one in flight were delivered, or admission
\* is closed for good.
DeliveredOrClosed ==
  \/ stop_requested
  \/ consumed = 1 .. frames_admitted
  \/ InFlight /\ consumed = 1 .. frames_admitted - 1

\* The worker holds the owner only while it executes a frame.
WorkerOwnsForFrame == resource_lock = "worker" => Serving("SubmitFrame")

\* with_resources, submit_frame_output_and_wait: what makes the preparation
\* safe at every step of both threads.
HostInv ==
  /\ Inv
  /\ resource_lock \in {"free", "worker", "host"}
  /\ after_lag \in {"end", "report", "reject"}
  /\ DeliveredOrClosed
  /\ WorkerOwnsForFrame
  /\ host_pc \in {"runtime", "snapshot"} => ~stop_requested /\ call_pc = "idle"

\* tick: although the worker hangs in a frame and never leaves the owner, every
\* tick ends or comes to the closing of the cell backend, which does wait.
TickEnds == in_tick ~> (~in_tick \/ host_pc = "close")

\* tick_internal after a failed preparation: the terminal tick does not wait
\* for the owner of the timed-out frame.
TerminalTickNeverWaits == host_pc = "close" => resource_lock # "worker"
=============================================================================

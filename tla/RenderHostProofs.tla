-------------------------- MODULE RenderHostProofs --------------------------
(***************************************************************************)
(* RenderHost!HostInv is inductive for every capacity, limit and bound:    *)
(* the host, although it writes fields of the handle, keeps the worker's   *)
(* invariant, preparing a frame never waits for the worker, and between    *)
(* frames nothing is in flight.                                            *)
(***************************************************************************)
EXTENDS RenderHost, RenderWorkerProofs

\* The two fields the host writes without a method of the handle.
HostWrites ==
  /\ stop_requested' = TRUE
  /\ latest_report' \in {latest_report, [latest_report EXCEPT !.state = "ShuttingDown"]}
  /\ call_pc = "idle"
  /\ UNCHANGED <<commands, events, workerVars, outstanding_frames,
                 outstanding_fences, cached_submissions, cached_fences,
                 thread_handle, callVars, historyVars>>

\* submit_frame_output_and_wait, reject_frame_output: closing the admission
\* behind the handle's back keeps the worker's invariant.
LEMMA HostWritesKeep == Inv /\ HostWrites => Inv'
<1> SUFFICES ASSUME Inv, HostWrites PROVE Inv'
  OBVIOUS
<1>1. TypeOK /\ FenceFacts
  BY DEF Inv
<1>2. /\ latest_report' \in HandleReport /\ Completed' = Completed
      /\ latest_report'.last_submitted_frame = latest_report.last_submitted_frame
  BY <1>1, ReportKept DEF HostWrites, Completed, TypeOK
<1>3. latest_report'.worker_lost \/ latest_report'.state = "WorkerLost" =>
        latest_report.worker_lost \/ latest_report.state = "WorkerLost"
  BY <1>1 DEF HostWrites, TypeOK, HandleReport
<1>4. /\ outstanding_fences' \in 0 .. FenceLimit /\ thread_handle' \in BOOLEAN
      /\ call' \in Call /\ call_pc' = call_pc /\ call_pc \in CallPc
      /\ fences_created <= MaxFence /\ call_pc = "idle"
  BY <1>1 DEF HostWrites, TypeOK, callVars, FenceFacts
<1> QED
  BY <1>2, <1>3, <1>4, HandleKeeps DEF HostWrites

\* Every step of the composition is a step of the worker's module, leaves it
\* alone, or is one of the host's writes.
LEMMA HostStepKinds ==
  HostNext => Next \/ UNCHANGED vars \/ HostWrites
<1> SUFFICES ASSUME HostNext PROVE Next \/ UNCHANGED vars \/ HostWrites
  OBVIOUS
<1>1. CASE WorkerThread
  BY <1>1 DEF WorkerThread, LockOwner, ExecuteFrame, RefusePoisonedOwner, Next, WorkerStep
<1>2. CASE PanicHoldingOwner
  BY <1>2 DEF PanicHoldingOwner, Next
<1>3. CASE CallInProgress
  BY <1>3 DEF CallInProgress, Next
<1>4. CASE FlushFence
  BY <1>4, FlushAssumption DEF FlushFence, InsertFence, SyncDepth, Next, NewCall
<1>5. CASE \/ Submit \/ FlushWait \/ PollResult \/ UpdateLag \/ RejectShutdown
           \/ ReportWorker \/ DropWorker \/ HostBegins
  BY <1>5 DEF Submit, FlushWait, PollResult, UpdateLag, RejectShutdown, ReportWorker,
    DropWorker, HostBegins, TickBegin, RenderForTarget, Observe, DropDispatcher,
    Next, NewCall
<1>6. CASE MissingResult \/ RejectFrame
  BY <1>6 DEF MissingResult, CloseAfterMissingResult, RejectFrame, At, HostWrites, handleVars
<1>7. CASE \/ Polled \/ Prepare \/ AcquireOwner \/ OwnerPoisoned \/ RunFrame \/ Snapshot
           \/ LagUpdated \/ TickEnd \/ OwnerUsed \/ UnwindHoldingOwner \/ HostReleased
  BY <1>7 DEF Polled, Prepare, AcquireOwner, OwnerPoisoned, RunFrame, Snapshot,
    LagUpdated, TickEnd, OwnerUsed, UnwindHoldingOwner, HostReleased, allVars
<1> QED
  BY <1>1, <1>2, <1>3, <1>4, <1>5, <1>6, <1>7 DEF HostNext, HostContinues

\* The worker's invariant survives the host.
LEMMA WorkerInvKept == Inv /\ [HostNext]_allVars => Inv'
<1>1. Inv /\ UNCHANGED vars => Inv'
  BY NextKeeps
<1>2. Inv /\ HostNext => Inv'
  BY <1>1, HostStepKinds, HostWritesKeep, NextKeeps
<1>3. UNCHANGED allVars => UNCHANGED vars
  BY DEF allVars
<1> QED
  BY <1>1, <1>2, <1>3

-----------------------------------------------------------------------------
(* What the calls and the worker do to the host's view *)

\* No step of the worker thread touches the handle.
LEMMA WorkerThreadLeaves ==
  ASSUME WorkerThread \/ PanicHoldingOwner
  PROVE  UNCHANGED <<stop_requested, frames_admitted, consumed, call_pc, call, host_pc>>
BY DEF WorkerThread, PanicHoldingOwner, LockOwner, ExecuteFrame, RefusePoisonedOwner,
     WorkerStart, WorkerRecv, WorkerHangup, WorkerStop, WorkerAccept, FinishFrame,
     PanicInFrame, SendProgress, AnswerFence, BeginShutdown, AnswerShutdown,
     ReportStopped, ThreadExit, LeaveLoop, Send, vars, sharedVars, callVars, historyVars,
     hostVars, tickVars

\* A call in progress admits no frame, takes results and never reopens a
\* closed admission.
LEMMA CallStepGrows ==
  ASSUME CallStep
  PROVE  /\ frames_admitted' = frames_admitted
         /\ consumed \subseteq consumed'
         /\ stop_requested => stop_requested'
         /\ call_pc # "idle"
         /\ UNCHANGED workerVars
<1>1. CASE DrainEvent \/ RecvEvent
  BY <1>1 DEF DrainEvent, RecvEvent, HandleEvent, historyVars
<1>2. CASE ReturnPoll
  BY <1>2 DEF ReturnPoll, TakeResult, Drained
<1>3. CASE ReturnReport \/ WaitMore
  BY <1>3 DEF ReturnReport, WaitMore, Drained, historyVars
<1>4. CASE WaitAnswered \/ WaitTimeout \/ RecvDisconnected
  <2>1. /\ frames_admitted' = frames_admitted /\ consumed' = consumed
        /\ call_pc # "idle" /\ UNCHANGED workerVars
    BY <1>4 DEF WaitAnswered, WaitTimeout, RecvDisconnected, Drained, historyVars
  <2>2. ASSUME NEW status, NEW report, EndWait(status, report, stop_requested \/ LossFound)
        PROVE  stop_requested => stop_requested'
    BY <2>2, Zenon DEF EndWait
  <2>3. ASSUME EndWait("WorkerLost", Lost(latest_report), stop_requested)
        PROVE  stop_requested => stop_requested'
    BY <2>3 DEF EndWait
  <2>4. stop_requested => stop_requested'
    BY <1>4, <2>2, <2>3, Zenon DEF WaitAnswered, WaitTimeout, RecvDisconnected
  <2> QED
    BY <2>1, <2>4
<1>5. CASE RecvNothing \/ ShutdownRefused \/ JoinThread \/ DropFields
  BY <1>5 DEF RecvNothing, ShutdownRefused, JoinThread, DropFields,
    sharedVars, historyVars
<1>6. CASE CloseAdmission
  <2>1. stop_requested => stop_requested'
    BY <1>6, Zenon DEF CloseAdmission
  <2> QED
    BY <1>6, <2>1 DEF CloseAdmission, historyVars
<1> QED
  BY <1>1, <1>2, <1>3, <1>4, <1>5, <1>6 DEF CallStep

\* Only frames that were admitted are consumed, before and after a step.
LEMMA ConsumedBounds ==
  /\ Inv => frames_admitted \in Nat /\ consumed \subseteq 1 .. frames_admitted
  /\ Inv' => frames_admitted' \in Nat /\ consumed' \subseteq 1 .. frames_admitted'
<1>1. MaxFrame \in Nat
  BY BoundAssumption
<1>2. Inv => /\ frames_admitted \in 0 .. MaxFrame /\ latest_report \in HandleReport
             /\ cached_submissions \cup consumed = 1 .. latest_report.last_completed_frame
             /\ latest_report.last_completed_frame <= frames_admitted
  BY DEF Inv, TypeOK, ResultFacts, Received, Completed
<1>3. Inv' => /\ frames_admitted' \in 0 .. MaxFrame /\ latest_report' \in HandleReport
              /\ cached_submissions' \cup consumed' = 1 .. latest_report'.last_completed_frame
              /\ latest_report'.last_completed_frame <= frames_admitted'
  BY DEF Inv, TypeOK, ResultFacts, Received, Completed
<1> QED
  BY <1>1, <1>2, <1>3 DEF HandleReport

-----------------------------------------------------------------------------
(* The parts of HostInv *)

\* submit_frame_output_and_wait: before the next frame the last one was
\* delivered, or the admission is closed for good.
LEMMA DeliveredKept ==
  ASSUME HostInv, HostNext, Inv'
  PROVE  DeliveredOrClosed'
<1>1. /\ Inv /\ DeliveredOrClosed
      /\ frames_admitted \in Nat /\ consumed \subseteq 1 .. frames_admitted
      /\ frames_admitted' \in Nat /\ consumed' \subseteq 1 .. frames_admitted'
  BY ConsumedBounds DEF HostInv
\* a step that admits nothing and loses nothing, outside the fragile states
<1>2. ASSUME frames_admitted' = frames_admitted, consumed \subseteq consumed',
             stop_requested => stop_requested',
             InFlight => InFlight' \/ frames_admitted \in consumed
      PROVE  DeliveredOrClosed'
  <2>1. CASE stop_requested
    BY <1>2, <2>1 DEF DeliveredOrClosed
  <2>2. CASE consumed = 1 .. frames_admitted
    BY <1>1, <1>2, <2>2 DEF DeliveredOrClosed
  <2>3. CASE InFlight /\ consumed = 1 .. frames_admitted - 1
    <3> \A n \in 1 .. frames_admitted : n = frames_admitted \/ n \in 1 .. frames_admitted - 1
      BY <1>1
    <3>1. CASE frames_admitted \in consumed'
      <4>1. consumed' = 1 .. frames_admitted
        BY <1>1, <1>2, <2>3, <3>1
      <4> QED
        BY <1>2, <4>1 DEF DeliveredOrClosed
    <3>2. CASE frames_admitted \notin consumed'
      <4>1. consumed' = 1 .. frames_admitted - 1
        BY <1>1, <1>2, <2>3, <3>2
      <4>2. InFlight'
        BY <1>2, <2>3, <3>2
      <4> QED
        BY <1>2, <4>1, <4>2 DEF DeliveredOrClosed
    <3> QED
      BY <3>1, <3>2
  <2> QED
    BY <1>1, <2>1, <2>2, <2>3 DEF DeliveredOrClosed
<1>3. CASE WorkerThread \/ PanicHoldingOwner
  BY <1>2, <1>3, WorkerThreadLeaves DEF InFlight
<1>4. CASE CallInProgress
  BY <1>2, <1>4, CallStepGrows DEF CallInProgress, InFlight
<1>5. CASE Submit
  <2>1. CASE SubmitFrame /\ frames_admitted' # frames_admitted
    <3>1. /\ ~stop_requested /\ frames_admitted' = frames_admitted + 1
          /\ consumed' = consumed
      BY <2>1 DEF SubmitFrame, AdmissionOpen
    <3>2. host_pc = "submit" /\ host_pc' = "fence"
      BY <1>5, <2>1 DEF Submit, At, Goto, vars, historyVars
    <3>3. consumed = 1 .. frames_admitted
      BY <1>1, <3>1, <3>2 DEF DeliveredOrClosed, InFlight
    <3> QED
      BY <1>1, <3>1, <3>2, <3>3 DEF DeliveredOrClosed, InFlight
  <2>2. CASE SubmitFrame /\ frames_admitted' = frames_admitted
    BY <1>2, <1>5, <2>2 DEF Submit, At, SubmitFrame, InFlight
  <2>3. CASE UNCHANGED vars
    BY <1>2, <1>5, <2>3 DEF Submit, At, InFlight, vars, sharedVars, historyVars
  <2> QED
    BY <1>5, <2>1, <2>2, <2>3 DEF Submit
<1>6. CASE FlushFence \/ FlushWait \/ PollResult
  BY <1>2, <1>6 DEF FlushFence, FlushWait, PollResult, FenceCall, WaitFence,
    PollSubmission, Goto, InFlight, sharedVars, historyVars
<1>7. CASE Polled
  BY <1>2, <1>7 DEF Polled, Goto, InFlight, vars, sharedVars, historyVars
<1>8. CASE MissingResult \/ RejectFrame
  BY <1>8 DEF MissingResult, CloseAfterMissingResult, RejectFrame, DeliveredOrClosed
<1>9. CASE \/ UpdateLag \/ RejectShutdown \/ ReportWorker \/ DropWorker
           \/ TickBegin \/ DropDispatcher
  <2>1. ~InFlight
    BY <1>9 DEF UpdateLag, RejectShutdown, ReportWorker, DropWorker, TickBegin,
      DropDispatcher, At, InFlight
  <2>2. /\ frames_admitted' = frames_admitted /\ consumed' = consumed
        /\ stop_requested => stop_requested'
    BY <1>9 DEF UpdateLag, RejectShutdown, ReportWorker, DropWorker, TickBegin,
      DropDispatcher, LatestReport, Shutdown, DropHandle, SendShutdown, vars,
      sharedVars, historyVars
  <2> QED
    BY <1>2, <2>1, <2>2
<1>10. CASE \/ Prepare \/ AcquireOwner \/ OwnerPoisoned \/ RunFrame \/ Snapshot
            \/ LagUpdated \/ TickEnd \/ OwnerUsed \/ UnwindHoldingOwner
            \/ HostReleased \/ RenderForTarget \/ Observe
  <2>1. InFlight => InFlight'
    BY <1>10 DEF Prepare, AcquireOwner, OwnerPoisoned, RunFrame, Snapshot, LagUpdated,
      TickEnd, OwnerUsed, UnwindHoldingOwner, HostReleased, RenderForTarget, Observe,
      WantsOwner, At, InFlight, allVars, hostVars
  <2>2. UNCHANGED vars
    BY <1>10 DEF Prepare, AcquireOwner, OwnerPoisoned, RunFrame, Snapshot, LagUpdated,
      TickEnd, OwnerUsed, UnwindHoldingOwner, HostReleased, RenderForTarget, Observe,
      allVars
  <2> QED
    BY <1>2, <2>1, <2>2 DEF vars, sharedVars, historyVars
<1> QED
  BY <1>3, <1>4, <1>5, <1>6, <1>7, <1>8, <1>9, <1>10
  DEF HostNext, HostContinues, HostBegins

\* with_resources: the worker takes the owner for a frame only, and gives it
\* up before it does anything else.
LEMMA WorkerOwnsKept ==
  ASSUME HostInv, HostNext
  PROVE  WorkerOwnsForFrame' /\ resource_lock' \in {"free", "worker", "host"}
<1>1. WorkerOwnsForFrame /\ resource_lock \in {"free", "worker", "host"}
  BY DEF HostInv
<1>2. ASSUME UNCHANGED workerVars, resource_lock' \in {resource_lock, "free", "host"}
      PROVE  WorkerOwnsForFrame' /\ resource_lock' \in {"free", "worker", "host"}
  BY <1>1, <1>2 DEF WorkerOwnsForFrame, Serving, workerVars
<1>3. CASE LockOwner \/ ExecuteFrame \/ RefusePoisonedOwner \/ PanicHoldingOwner
  BY <1>1, <1>3 DEF LockOwner, ExecuteFrame, RefusePoisonedOwner, PanicHoldingOwner,
    WorkerOwnsForFrame, Serving, vars, workerVars, hostVars, ownerVars
<1>4. CASE WorkerThread /\ ~(LockOwner \/ ExecuteFrame \/ RefusePoisonedOwner)
  BY <1>1, <1>4 DEF WorkerThread, WorkerStart, WorkerRecv, WorkerHangup, WorkerStop,
    WorkerAccept, SendProgress, AnswerFence, BeginShutdown, AnswerShutdown,
    ReportStopped, ThreadExit, WorkerOwnsForFrame, Serving, WorkerControl,
    hostVars, ownerVars
<1>5. CASE CallInProgress
  BY <1>2, <1>5, CallStepGrows DEF CallInProgress, ownerVars
<1>6. CASE \/ Submit \/ FlushFence \/ FlushWait \/ PollResult \/ MissingResult
           \/ UpdateLag \/ RejectFrame \/ RejectShutdown \/ ReportWorker
           \/ DropWorker \/ TickBegin \/ DropDispatcher
  <2>1. UNCHANGED workerVars
    BY <1>6 DEF Submit, FlushFence, FlushWait, PollResult, MissingResult, UpdateLag,
      RejectFrame, RejectShutdown, ReportWorker, DropWorker, TickBegin, DropDispatcher,
      SubmitFrame, FenceCall, WaitFence, PollSubmission, LatestReport, Shutdown,
      DropHandle, SendShutdown, vars
  <2>2. UNCHANGED resource_lock
    BY <1>6 DEF Submit, FlushFence, FlushWait, PollResult, MissingResult, UpdateLag,
      RejectFrame, RejectShutdown, ReportWorker, DropWorker, TickBegin, DropDispatcher,
      ownerVars
  <2> QED
    BY <1>2, <2>1, <2>2
<1>7. CASE \/ Polled \/ Prepare \/ AcquireOwner \/ OwnerPoisoned \/ RunFrame \/ Snapshot
           \/ LagUpdated \/ TickEnd \/ OwnerUsed \/ UnwindHoldingOwner
           \/ HostReleased \/ RenderForTarget \/ Observe
  <2>1. UNCHANGED workerVars
    BY <1>7 DEF Polled, Prepare, AcquireOwner, OwnerPoisoned, RunFrame, Snapshot,
      LagUpdated, TickEnd, OwnerUsed, UnwindHoldingOwner, HostReleased,
      RenderForTarget, Observe, allVars, vars
  <2>2. resource_lock' \in {resource_lock, "free", "host"}
    BY <1>7 DEF Polled, Prepare, AcquireOwner, OwnerPoisoned, RunFrame, Snapshot,
      LagUpdated, TickEnd, OwnerUsed, UnwindHoldingOwner, HostReleased,
      RenderForTarget, Observe, ReleaseOwner, allVars, hostVars, ownerVars
  <2> QED
    BY <1>2, <2>1, <2>2
<1> QED
  BY <1>3, <1>4, <1>5, <1>6, <1>7 DEF HostNext, HostContinues, HostBegins

\* preparation_error before with_resources: between the check and the end of
\* the preparation nothing closes the admission.
LEMMA PreparingKept ==
  ASSUME HostInv, HostNext, host_pc' \in {"runtime", "snapshot"}
  PROVE  ~stop_requested' /\ call_pc' = "idle"
<1>1. host_pc \in {"runtime", "snapshot"} => ~stop_requested /\ call_pc = "idle"
  BY DEF HostInv
<1>2. ASSUME host_pc' = host_pc, UNCHANGED <<stop_requested, call_pc>>
      PROVE  ~stop_requested' /\ call_pc' = "idle"
  BY <1>1, <1>2
<1>3. CASE WorkerThread \/ PanicHoldingOwner
  BY <1>2, <1>3, WorkerThreadLeaves
<1>4. CASE CallInProgress
  BY <1>1, <1>4, CallStepGrows DEF CallInProgress
<1>5. CASE Prepare
  BY <1>5 DEF Prepare, At, Goto, PreparationAllowed, AdmissionOpen, vars, sharedVars,
    callVars
<1>6. CASE AcquireOwner \/ HostReleased
  BY <1>1, <1>6 DEF AcquireOwner, HostReleased, allVars, hostVars, vars, sharedVars,
    callVars
<1>7. CASE RunFrame
  BY <1>1, <1>7 DEF RunFrame, Goto, vars, sharedVars, callVars
<1>8. CASE LagUpdated
  BY <1>8 DEF LagUpdated, Goto, HostInv
<1>9. CASE \/ Submit \/ FlushFence \/ FlushWait \/ PollResult \/ Polled \/ MissingResult
           \/ OwnerPoisoned \/ Snapshot \/ UpdateLag \/ RejectFrame \/ RejectShutdown
           \/ ReportWorker \/ TickEnd \/ OwnerUsed \/ DropWorker \/ UnwindHoldingOwner
           \/ HostBegins
  BY <1>9 DEF Submit, FlushFence, FlushWait, PollResult, Polled, MissingResult,
    OwnerPoisoned, Snapshot, UpdateLag, RejectFrame, RejectShutdown, ReportWorker,
    TickEnd, OwnerUsed, DropWorker, UnwindHoldingOwner, HostBegins, TickBegin,
    RenderForTarget, Observe, DropDispatcher, Goto, Submitted
<1> QED
  BY <1>3, <1>4, <1>5, <1>6, <1>7, <1>8, <1>9 DEF HostNext, HostContinues

\* resource_owner_failure_output: the tick goes on after the lag update where
\* the step that began it said.
LEMMA AfterLagKept ==
  ASSUME HostInv, HostNext
  PROVE  after_lag' \in {"end", "report", "reject"}
<1>1. CASE UNCHANGED after_lag
  BY <1>1 DEF HostInv
<1>2. CASE OwnerPoisoned \/ Snapshot
  BY <1>2 DEF HostInv, OwnerPoisoned, Snapshot
<1>3. HostNext => UNCHANGED after_lag \/ OwnerPoisoned \/ Snapshot
  BY DEF HostNext, WorkerThread, LockOwner, ExecuteFrame, RefusePoisonedOwner,
    PanicHoldingOwner, HostContinues, CallInProgress, Submit, FlushFence, FlushWait,
    PollResult, Polled, MissingResult, Prepare, AcquireOwner, RunFrame, UpdateLag,
    LagUpdated, RejectFrame, RejectShutdown, ReportWorker, TickEnd, OwnerUsed,
    DropWorker, UnwindHoldingOwner, HostBegins, TickBegin, RenderForTarget, Observe,
    DropDispatcher, HostReleased, allVars, hostVars, tickVars
<1> QED
  BY <1>1, <1>2, <1>3

-----------------------------------------------------------------------------
(* The theorems *)

\* HostInv holds initially and no step of either thread breaks it.
THEOREM HostInvAlways == HostSpec => []HostInv
<1>1. HostInit => HostInv
  BY InitInv DEF HostInit, HostInv, Init, DeliveredOrClosed, WorkerOwnsForFrame
<1>2. HostInv /\ [HostNext]_allVars => HostInv'
  <2> SUFFICES ASSUME HostInv, [HostNext]_allVars PROVE HostInv'
    OBVIOUS
  <2>1. Inv'
    BY WorkerInvKept DEF HostInv
  <2>2. CASE HostNext
    BY <2>1, <2>2, DeliveredKept, WorkerOwnsKept, AfterLagKept, PreparingKept DEF HostInv
  <2>3. CASE UNCHANGED allVars
    BY <2>1, <2>3 DEF HostInv, DeliveredOrClosed, InFlight, WorkerOwnsForFrame, Serving,
      allVars, hostVars, ownerVars, tickVars, vars, sharedVars, workerVars, callVars, historyVars
  <2> QED
    BY <2>2, <2>3
<1> QED
  BY <1>1, <1>2, PTL DEF HostSpec

\* Preparing a frame never waits for a worker that still holds the owner,
\* whatever happened to the frames before it.
THEOREM PreparationAlwaysFree == HostSpec => []PreparationNeverWaits
<1>1. HostInv => PreparationNeverWaits
  <2> SUFFICES ASSUME HostInv, host_pc \in {"runtime", "snapshot"},
                      resource_lock = "worker"
               PROVE  FALSE
    BY DEF PreparationNeverWaits
  <2>1. Serving("SubmitFrame") /\ Inv /\ ~stop_requested
    BY DEF HostInv, WorkerOwnsForFrame
  <2>2. consumed = 1 .. frames_admitted
    BY <2>1 DEF HostInv, DeliveredOrClosed, InFlight
  <2>3. /\ taken \in Message /\ IsFrame(taken) /\ taken # NoCommand
        /\ commands \in Seq(Message) /\ events \in Seq(Message)
        /\ Sent \in Nat /\ Completed \in Nat /\ frames_admitted \in Nat
        /\ taken.frame \in 1 .. MaxFrame
    <3>1. TypeOK /\ taken.kind = "SubmitFrame"
      BY <2>1 DEF Inv, Serving
    <3>2. taken \in FrameCommand
      BY <3>1 DEF TypeOK, RenderThreadCommand, FrameCommand, FenceCommand, NoCommand
    <3> QED
      BY <3>1, <3>2, QueueTypes DEF FrameCommand, IsFrame, NoCommand, Message,
        RenderThreadCommand
  \* the worker's frame is the first the handle has not received
  <2>4. taken.frame = Sent + 1
    <3>1. InService /\ CommandChain
      BY <2>1 DEF Inv, Serving, InService
    <3> QED
      BY <2>3, <3>1, MessageCount DEF CommandChain, Step
  <2>5. Completed <= Sent
    BY <2>1, <2>3, RunEnd DEF Inv, EventChain
  <2>6. taken.frame <= frames_admitted
    <3>1. Run(commands, taken.frame) /\ LastCount(commands, taken.frame) = frames_admitted
      BY <2>1 DEF Inv, CommandChain, Serving, InService, Taken
    <3>2. taken.frame \in Nat
      BY <2>3, BoundAssumption
    <3> QED
      BY <2>3, <3>1, <3>2, RunEnd
  <2>7. frames_admitted <= Completed
    <3>1. consumed \subseteq 1 .. Completed
      BY <2>1, HandleContext
    <3>2. frames_admitted \in consumed
      BY <2>2, <2>3, <2>4, <2>6
    <3> QED
      BY <2>3, <3>1, <3>2
  <2> QED
    BY <2>3, <2>4, <2>5, <2>6, <2>7
<1> QED
  BY <1>1, HostInvAlways, PTL

\* OwedAhead holds in every state of the host and its worker.
THEOREM OwedAlwaysAhead == HostSpec => []OwedAhead
<1>1. HostInit => OwedAhead
  BY DEF HostInit, Init, OwedAhead
<1>2. Inv /\ Inv' /\ OwedAhead /\ [HostNext]_allVars => OwedAhead'
  <2> SUFFICES ASSUME Inv, Inv', OwedAhead, [HostNext]_allVars PROVE OwedAhead'
    OBVIOUS
  <2>1. CASE Next \/ UNCHANGED vars
    BY <2>1, OwedStaysAhead
  <2>2. CASE HostWrites
    BY <2>2 DEF HostWrites, OwedAhead, Sent, workerVars, historyVars
  <2> QED
    BY <2>1, <2>2, HostStepKinds DEF allVars
<1>3. HostInv => Inv
  BY DEF HostInv
<1> QED
  BY <1>1, <1>2, <1>3, HostInvAlways, PTL DEF HostSpec

\* submit_frame_output_and_wait: between frames, with admission open, every
\* frame ever admitted was delivered and the worker owes none, in its hand, in
\* the channel or in a channel it has left.
THEOREM NothingEverInFlight == HostSpec => []NothingInFlightWhileOpen
<1>1. HostInv /\ OwedAhead => NothingInFlightWhileOpen
  <2> SUFFICES ASSUME HostInv, OwedAhead,
                      host_pc \in {"idle", "runtime", "snapshot", "submit"},
                      AdmissionOpen
               PROVE  consumed = 1 .. frames_admitted /\ Owed = {}
    BY DEF NothingInFlightWhileOpen
  <2>1. /\ consumed = 1 .. frames_admitted
        /\ TypeOK /\ EventChain /\ CommandChain /\ WorkerControl
    BY DEF AdmissionOpen, HostInv, DeliveredOrClosed, InFlight, Inv
  \* all frames are sent
  <2>2. /\ Sent \in Nat /\ frames_admitted \in Nat /\ Completed \in Nat
        /\ frames_admitted <= Completed /\ Completed <= Sent
    <3>1. /\ Sent \in Nat /\ frames_admitted \in Nat /\ Completed \in Nat
          /\ events \in Seq(Message)
      BY <2>1, QueueTypes
    <3>2. consumed \subseteq 1 .. Completed
      BY HandleContext DEF HostInv
    <3>3. frames_admitted <= Completed
      <4>1. CASE frames_admitted = 0
        BY <3>1, <4>1
      <4>2. CASE frames_admitted # 0
        <5>1. frames_admitted \in consumed
          BY <2>1, <3>1, <4>2
        <5> QED
          BY <3>1, <3>2, <5>1
      <4> QED
        BY <4>1, <4>2
    <3>4. Completed <= Sent
      BY <2>1, <3>1, RunEnd DEF EventChain
    <3> QED
      BY <3>1, <3>3, <3>4
  <2>3. ASSUME NEW i \in DOMAIN commands, commands[i].kind = "SubmitFrame"
        PROVE  FALSE
    <3>1. i \in 1 .. Len(commands) /\ commands[i] \in FrameCommand
      <4>1. commands \in Seq(RenderThreadCommand)
        BY <2>1 DEF TypeOK
      <4>2. i \in 1 .. Len(commands)
        BY <4>1
      <4> QED
        BY <2>3, <4>1, <4>2, ElementOfSeq
        DEF RenderThreadCommand, FrameCommand, FenceCommand
    <3>2. Sent < commands[i].frame /\ commands[i].frame <= frames_admitted
      BY <2>3, <3>1 DEF OwedAhead
    <3> QED
      BY <2>2, <3>1, <3>2, BoundAssumption DEF FrameCommand
  <2>4. taken.kind # "SubmitFrame"
    <3> SUFFICES ASSUME taken.kind = "SubmitFrame" PROVE FALSE
      OBVIOUS
    <3>1. taken \in FrameCommand /\ taken # NoCommand /\ Taken = taken.frame /\ InService
      BY <2>1, QueueTypes DEF NoCommand, Taken, WorkerControl, InService
    <3>2. taken.frame \in Nat
      BY <3>1, BoundAssumption DEF FrameCommand
    <3>3. FrameCount(taken) = Sent + Step(taken)
      BY <2>1, <3>1 DEF CommandChain
    <3>4. taken.frame = Sent + 1
      BY <3>1, <3>3 DEF FrameCount, Step, IsFrame
    <3>5. Taken <= LastCount(commands, Taken)
      BY <2>1, <3>1, <3>2, QueueTypes, RunEnd DEF CommandChain
    <3> QED
      BY <2>1, <2>2, <3>1, <3>4, <3>5 DEF CommandChain
  <2> QED
    BY <2>1, <2>3, <2>4 DEF Owed
<1> QED
  BY <1>1, HostInvAlways, OwedAlwaysAhead, PTL

=============================================================================

---------------------------- MODULE RenderWorker ----------------------------
(***************************************************************************)
(* RenderThreadWorker of engine_runtime_core: a handle owned by one        *)
(* producer thread, a bounded command channel into a dedicated OS thread,  *)
(* and an unbounded event channel back.  The handle's methods take         *)
(* &mut self, so one call runs at a time; every call interleaves with the  *)
(* worker thread at each channel operation.                                *)
(*                                                                         *)
(* Frames are numbered in admission order and a ticket is that number.     *)
(* The frame_index of a packet is another one: the caller chooses it, and  *)
(* it may skip, repeat or fall back.  Where the code keeps an index the    *)
(* model keeps the frame it was read from, and index_of turns the one into *)
(* the other wherever an index is compared or subtracted.  A fence carries *)
(* its mark: how many frames had been admitted when it was created.        *)
(***************************************************************************)
EXTENDS Naturals, Sequences, FiniteSets

CONSTANTS
  CommandCapacity,   \* bound of the command channel (4 in the code)
  FrameLimit,        \* outstanding frame results (8 in the code)
  FenceLimit,        \* outstanding fence results (16 in the code)
  MaxFrame,          \* bound: frames the producer ever submits
  MaxFence,          \* bound: fences the producer ever creates
  FrameIndexes,      \* bound: the values callers use for each frame_index
  FenceTargets       \* bound: target indices asked of a fence, 0 for None

ASSUME CapacityAssumption == CommandCapacity \in Nat \ {0}
ASSUME LimitAssumption == FrameLimit \in Nat \ {0} /\ FenceLimit \in Nat \ {0}
ASSUME BoundAssumption == /\ MaxFrame \in Nat /\ MaxFence \in Nat
                          /\ FenceTargets \subseteq Nat
                          /\ FrameIndexes \in [1 .. MaxFrame -> SUBSET Nat]

VARIABLES
  \* shared between the two threads
  commands,            \* the command channel
  events,              \* the event channel
  stop_requested,      \* the AtomicBool; only the producer stores it
  \* the worker thread
  worker_pc,
  taken,               \* the command received and not yet finished
  worker_report,       \* the worker's own copy of the report
  panicked,            \* the thread unwound instead of returning
  \* the handle
  outstanding_frames,
  outstanding_fences,
  cached_submissions,
  cached_fences,
  latest_report,
  thread_handle,       \* JoinHandle still present
  call,                \* the method in progress
  call_pc,
  \* history
  frames_admitted,
  index_of,            \* frame_index of an admitted frame, 0 for none
  consumed,            \* frames whose result the producer took
  fences_created,
  shutdown_called

sharedVars == <<commands, events, stop_requested>>
workerVars == <<worker_pc, taken, worker_report, panicked>>
handleVars == <<outstanding_frames, outstanding_fences, cached_submissions,
                cached_fences, latest_report, thread_handle>>
callVars == <<call, call_pc>>
historyVars == <<frames_admitted, index_of, consumed, fences_created,
                 shutdown_called>>
vars == <<sharedVars, workerVars, handleVars, callVars, historyVars>>

-----------------------------------------------------------------------------
(* Values *)

Call == [op : {"none", "poll", "wait", "report", "shutdown", "drop"}, id : Nat,
         status : {"Pending", "Completed", "NotObserved", "Timeout", "WorkerLost"}]
NoCall == [op |-> "none", id |-> 0, status |-> "Pending"]

\* Numbers given to fences: the last one is kept for the destructor.
FenceId == 1 .. MaxFence + 1

\* RhiSubmit and Present are answered as GpuCompletion is: never observed
SyncDepth == {"RenderThread", "GpuCompletion"}

\* target = 0 stands for target_frame_index = None
RenderFence == [id : FenceId, depth : SyncDepth,
                target : Nat, mark : 0 .. MaxFrame]

RenderWorkerState == {"Running", "ShuttingDown", "Stopped", "WorkerLost"}

\* what the worker sends: it never calls itself lost
WorkerReport == [state : RenderWorkerState \ {"WorkerLost"},
                 last_submitted_frame : 0 .. MaxFrame,
                 last_completed_frame : 0 .. MaxFrame]

HandleReport == [state : RenderWorkerState,
                 last_submitted_frame : 0 .. MaxFrame,
                 last_completed_frame : 0 .. MaxFrame,
                 worker_lost : BOOLEAN]

FenceResult == [id : FenceId, status : {"Completed", "NotObserved"},
                completed : 0 .. MaxFrame,
                target : Nat, mark : 0 .. MaxFrame]

FrameCommand == [kind : {"SubmitFrame"}, frame : 1 .. MaxFrame]
FenceCommand == [kind : {"InsertFence", "Shutdown"}, fence : RenderFence]
NoCommand == [kind |-> "None"]
RenderThreadCommand == FrameCommand \cup FenceCommand

RenderWorkerEvent ==
  [kind : {"Submission"}, frame : 1 .. MaxFrame]
    \cup [kind : {"Fence"}, result : FenceResult]
    \cup [kind : {"WorkerReport"}, report : WorkerReport]

CompletedResultIgnoringTarget(fence, completed) ==
  [id |-> fence.id,
   status |-> IF fence.depth = "RenderThread" THEN "Completed" ELSE "NotObserved",
   completed |-> completed, target |-> fence.target, mark |-> fence.mark]

\* RenderFenceResult::completed: only a CPU-depth fence whose target frame
\* has been reached is reported Completed.
CompletedResult(fence, completed) ==
  [id |-> fence.id,
   status |-> IF fence.depth = "RenderThread" /\ index_of[completed] >= fence.target
                THEN "Completed" ELSE "NotObserved",
   completed |-> completed,
   target |-> fence.target,
   mark |-> fence.mark]

Lost(report) == [report EXCEPT !.state = "WorkerLost", !.worker_lost = TRUE]

\* RenderWorkerReport::refresh_lag (saturating subtraction of indices)
IndexGap(from, to) ==
  IF index_of[to] > index_of[from] THEN index_of[to] - index_of[from] ELSE 0
InFlightFrames(report) ==
  IndexGap(report.last_completed_frame, report.last_submitted_frame)

-----------------------------------------------------------------------------
(* Channel ends.  On return or unwinding the thread drops the event sender  *)
(* first and the command receiver next; the JoinHandle reads finished last. *)

EventSenderAlive == worker_pc \notin {"dropReceiver", "exiting", "finished"}
CommandReceiverAlive == worker_pc \notin {"exiting", "finished"}
CommandSenderAlive == call_pc # "dropped"

\* let _ = event_sender.send(..): silent once the handle is gone
Send(event) ==
  events' = IF call_pc = "dropped" THEN events ELSE Append(events, event)

-----------------------------------------------------------------------------
Init ==
  /\ commands = << >>
  /\ events = << >>
  /\ stop_requested = FALSE
  /\ worker_pc = "start"
  /\ taken = NoCommand
  /\ worker_report = [state |-> "Running", last_submitted_frame |-> 0,
                      last_completed_frame |-> 0]
  /\ panicked = FALSE
  /\ outstanding_frames = 0
  /\ outstanding_fences = 0
  /\ cached_submissions = {}
  /\ cached_fences = {}
  /\ latest_report = [state |-> "Running", last_submitted_frame |-> 0,
                      last_completed_frame |-> 0, worker_lost |-> FALSE]
  /\ thread_handle = TRUE
  /\ call = NoCall
  /\ call_pc = "idle"
  /\ frames_admitted = 0
  /\ index_of = [n \in 0 .. MaxFrame |-> 0]
  /\ consumed = {}
  /\ fences_created = 0
  /\ shutdown_called = FALSE

-----------------------------------------------------------------------------
(* The worker thread: run_render_worker *)

WorkerStart ==
  /\ worker_pc = "start"
  /\ Send([kind |-> "WorkerReport", report |-> worker_report])
  /\ worker_pc' = "recv"
  /\ UNCHANGED <<commands, stop_requested, taken, worker_report, panicked,
                 handleVars, callVars, historyVars>>

WorkerRecv ==
  /\ worker_pc = "recv"
  /\ commands # << >>
  /\ taken' = Head(commands)
  /\ commands' = Tail(commands)
  /\ worker_pc' = "taken"
  /\ UNCHANGED <<events, stop_requested, worker_report, panicked,
                 handleVars, callVars, historyVars>>

\* recv fails: the channel is empty and its sender is gone
WorkerHangup ==
  /\ worker_pc = "recv"
  /\ commands = << >>
  /\ ~CommandSenderAlive
  /\ worker_pc' = "dropSender"
  /\ UNCHANGED <<sharedVars, taken, worker_report, panicked,
                 handleVars, callVars, historyVars>>

ContinueAfterStop == worker_pc' = "recv"
\* break: the thread function returns and drops its parameters
LeaveLoop == worker_pc' = "dropSender"

\* The stop flag is read after the command left the channel: the command
\* that wakes a stopped worker is discarded.
WorkerStop ==
  /\ worker_pc = "taken"
  /\ stop_requested
  /\ taken' = NoCommand
  /\ LeaveLoop
  /\ UNCHANGED <<sharedVars, worker_report, panicked,
                 handleVars, callVars, historyVars>>

\* The flag was clear: the command is served even if a stop request follows.
WorkerAccept ==
  /\ worker_pc = "taken"
  /\ ~stop_requested
  /\ worker_report' = IF taken.kind = "SubmitFrame"
                        THEN [worker_report EXCEPT
                                !.last_submitted_frame = taken.frame]
                        ELSE worker_report
  /\ worker_pc' = "serve"
  /\ UNCHANGED <<sharedVars, taken, panicked, handleVars, callVars, historyVars>>

Serving(kind) == worker_pc = "serve" /\ taken.kind = kind

FinishFrame ==
  /\ Serving("SubmitFrame")
  /\ worker_report' = [worker_report EXCEPT !.last_completed_frame = taken.frame]
  /\ Send([kind |-> "Submission", frame |-> taken.frame])
  /\ taken' = NoCommand
  /\ worker_pc' = "progress"
  /\ UNCHANGED <<commands, stop_requested, panicked,
                 handleVars, callVars, historyVars>>

\* execute_packet unwinds (a poisoned resource lock, a panic of the renderer)
PanicInFrame ==
  /\ Serving("SubmitFrame")
  /\ panicked' = TRUE
  /\ taken' = NoCommand
  /\ worker_pc' = "dropSender"
  /\ UNCHANGED <<sharedVars, worker_report, handleVars, callVars, historyVars>>

SendProgress ==
  /\ worker_pc = "progress"
  /\ Send([kind |-> "WorkerReport", report |-> worker_report])
  /\ worker_pc' = "recv"
  /\ UNCHANGED <<commands, stop_requested, taken, worker_report, panicked,
                 handleVars, callVars, historyVars>>

AnswerFence ==
  /\ Serving("InsertFence")
  /\ Send([kind |-> "Fence", result |->
             CompletedResult(taken.fence, worker_report.last_completed_frame)])
  /\ taken' = NoCommand
  /\ worker_pc' = "recv"
  /\ UNCHANGED <<commands, stop_requested, worker_report, panicked,
                 handleVars, callVars, historyVars>>

BeginShutdown ==
  /\ Serving("Shutdown")
  /\ worker_report' = [worker_report EXCEPT !.state = "ShuttingDown"]
  /\ Send([kind |-> "WorkerReport", report |-> worker_report'])
  /\ worker_pc' = "answerShutdown"
  /\ UNCHANGED <<commands, stop_requested, taken, panicked,
                 handleVars, callVars, historyVars>>

AnswerShutdown ==
  /\ worker_pc = "answerShutdown"
  /\ Send([kind |-> "Fence", result |->
             CompletedResult(taken.fence, worker_report.last_completed_frame)])
  /\ taken' = NoCommand
  /\ worker_pc' = "reportStopped"
  /\ UNCHANGED <<commands, stop_requested, worker_report, panicked,
                 handleVars, callVars, historyVars>>

ReportStopped ==
  /\ worker_pc = "reportStopped"
  /\ worker_report' = [worker_report EXCEPT !.state = "Stopped"]
  /\ Send([kind |-> "WorkerReport", report |-> worker_report'])
  /\ LeaveLoop
  /\ UNCHANGED <<commands, stop_requested, taken, panicked,
                 handleVars, callVars, historyVars>>

ThreadExit ==
  /\ \/ worker_pc = "dropSender" /\ worker_pc' = "dropReceiver"
     \/ worker_pc = "dropReceiver" /\ worker_pc' = "exiting"
     \/ worker_pc = "exiting" /\ worker_pc' = "finished"
  /\ UNCHANGED <<sharedVars, taken, worker_report, panicked,
                 handleVars, callVars, historyVars>>

\* Everything the operating system schedules for the worker, the end of a
\* frame's execution included.
WorkerStep ==
  \/ WorkerStart \/ WorkerRecv \/ WorkerHangup \/ WorkerStop
  \/ WorkerAccept \/ FinishFrame \/ SendProgress
  \/ AnswerFence \/ BeginShutdown \/ AnswerShutdown \/ ReportStopped
  \/ ThreadExit

-----------------------------------------------------------------------------
(* The handle: admission *)

AdmissionOpenByState == latest_report.state = "Running"
AdmissionOpen == ~stop_requested /\ latest_report.state = "Running"

FrameSlotFree == outstanding_frames < FrameLimit

\* submit_frame, accepted or refused because the receiver is gone.  The
\* refusals that change nothing (worker_stopped, queue_full) are no step.
SubmitFrame ==
  /\ call_pc = "idle"
  /\ frames_admitted < MaxFrame
  /\ AdmissionOpen
  /\ FrameSlotFree
  /\ \/ /\ CommandReceiverAlive
        /\ Len(commands) < CommandCapacity
        /\ commands' = Append(commands, [kind |-> "SubmitFrame",
                                         frame |-> frames_admitted + 1])
        /\ frames_admitted' = frames_admitted + 1
        /\ \E index \in FrameIndexes[frames_admitted + 1] :
             index_of' = [index_of EXCEPT ![frames_admitted + 1] = index]
        /\ outstanding_frames' = outstanding_frames + 1
        /\ latest_report' = [latest_report EXCEPT
                               !.last_submitted_frame = frames_admitted + 1]
     \/ /\ ~CommandReceiverAlive
        /\ latest_report' = Lost(latest_report)
        /\ UNCHANGED <<commands, frames_admitted, index_of, outstanding_frames>>
  /\ UNCHANGED <<events, stop_requested, workerVars, outstanding_fences,
                 cached_submissions, cached_fences, thread_handle, callVars,
                 consumed, fences_created, shutdown_called>>

FenceSlotAlwaysFree == TRUE
FenceSlotFree == outstanding_fences < FenceLimit

\* insert_fence: the fence exists whether or not it is admitted
InsertFenceOf(depth, target) ==
  LET fence == [id |-> fences_created + 1, depth |-> depth,
                target |-> target, mark |-> frames_admitted]
      tried == AdmissionOpen /\ FenceSlotFree
  IN \/ /\ tried /\ CommandReceiverAlive
        /\ Len(commands) < CommandCapacity
        /\ commands' = Append(commands, [kind |-> "InsertFence", fence |-> fence])
        /\ outstanding_fences' = outstanding_fences + 1
        /\ UNCHANGED latest_report
     \/ /\ tried /\ ~CommandReceiverAlive
        /\ latest_report' = Lost(latest_report)
        /\ UNCHANGED <<commands, outstanding_fences>>
     \/ /\ \/ ~tried
           \/ CommandReceiverAlive /\ Len(commands) >= CommandCapacity
        /\ UNCHANGED <<commands, outstanding_fences, latest_report>>

FenceCall ==
  /\ call_pc = "idle"
  /\ fences_created < MaxFence
  /\ fences_created' = fences_created + 1
  /\ UNCHANGED <<events, stop_requested, workerVars, outstanding_frames,
                 cached_submissions, cached_fences, thread_handle, callVars,
                 frames_admitted, index_of, consumed, shutdown_called>>

InsertFence ==
  /\ FenceCall
  /\ \E depth \in SyncDepth, target \in FenceTargets : InsertFenceOf(depth, target)

-----------------------------------------------------------------------------
(* The handle: calls that consume events *)

Return(pc) == call' = NoCall /\ call_pc' = pc

BeginCall(op, id) ==
  /\ call' = [op |-> op, id |-> id, status |-> "Pending"]
  /\ call_pc' = "drain"

PollSubmission ==
  /\ call_pc = "idle"
  /\ \E n \in 1 .. frames_admitted : BeginCall("poll", n)
  /\ UNCHANGED <<sharedVars, workerVars, handleVars, historyVars>>

WaitFence ==
  /\ call_pc = "idle"
  /\ \E id \in 1 .. fences_created : BeginCall("wait", id)
  /\ UNCHANGED <<sharedVars, workerVars, handleVars, historyVars>>

LatestReport ==
  /\ call_pc = "idle"
  /\ BeginCall("report", 0)
  /\ UNCHANGED <<sharedVars, workerVars, handleVars, historyVars>>

AcceptedReportErasingAdmission(report) ==
  [state |-> report.state,
   last_submitted_frame |-> report.last_submitted_frame,
   last_completed_frame |-> report.last_completed_frame,
   worker_lost |-> FALSE]

\* A WorkerReport event replaces the whole report except the larger index of
\* the two submitted ones, so a report sent before a stop request reads
\* Running again.
AcceptedReport(report) ==
  [state |-> report.state,
   last_submitted_frame |->
     IF index_of[report.last_submitted_frame]
          > index_of[latest_report.last_submitted_frame]
       THEN report.last_submitted_frame
       ELSE latest_report.last_submitted_frame,
   last_completed_frame |-> report.last_completed_frame,
   worker_lost |-> FALSE]

\* handle_event
HandleEvent ==
  LET event == Head(events)
  IN /\ events' = Tail(events)
     /\ \/ /\ event.kind = "Submission"
           /\ latest_report' = [latest_report EXCEPT
                                  !.last_completed_frame = event.frame]
           /\ cached_submissions' = cached_submissions \cup {event.frame}
           /\ UNCHANGED cached_fences
        \/ /\ event.kind = "Fence"
           /\ latest_report' = [latest_report EXCEPT
                                  !.last_completed_frame = event.result.completed]
           /\ cached_fences' = cached_fences \cup {event.result}
           /\ UNCHANGED cached_submissions
        \/ /\ event.kind = "WorkerReport"
           /\ latest_report' = AcceptedReport(event.report)
           /\ UNCHANGED <<cached_submissions, cached_fences>>
     /\ UNCHANGED <<commands, stop_requested, workerVars, outstanding_frames,
                    outstanding_fences, thread_handle, call, historyVars>>

\* One turn of drain_events' loop.
DrainEvent ==
  /\ call_pc = "drain"
  /\ events # << >>
  /\ HandleEvent
  /\ UNCHANGED call_pc

\* What drain_events leaves behind when it finds the channel empty: a closed
\* channel before a clean stop is a lost worker and closes the admission.
LossFound == ~EventSenderAlive /\ latest_report.state # "Stopped"
DrainedReport == IF LossFound THEN Lost(latest_report) ELSE latest_report
Drained == call_pc = "drain" /\ events = << >>

TakeResultKeepingSlot(frame) ==
  /\ cached_submissions' = cached_submissions \ {frame}
  /\ consumed' = consumed \cup {frame}
  /\ UNCHANGED outstanding_frames

TakeResult(frame) ==
  /\ cached_submissions' = cached_submissions \ {frame}
  /\ outstanding_frames' = outstanding_frames - 1
  /\ consumed' = consumed \cup {frame}

ReturnPoll ==
  /\ Drained
  /\ call.op = "poll"
  /\ IF call.id \in cached_submissions
       THEN TakeResult(call.id)
       ELSE UNCHANGED <<cached_submissions, outstanding_frames, consumed>>
  /\ latest_report' = DrainedReport
  /\ stop_requested' = (stop_requested \/ LossFound)
  /\ Return("idle")
  /\ UNCHANGED <<commands, events, workerVars, outstanding_fences,
                 cached_fences, thread_handle,
                 frames_admitted, index_of, fences_created, shutdown_called>>

ReturnReport ==
  /\ Drained
  /\ call.op = "report"
  /\ latest_report' = DrainedReport
  /\ stop_requested' = (stop_requested \/ LossFound)
  /\ Return("idle")
  /\ UNCHANGED <<commands, events, workerVars, outstanding_frames,
                 outstanding_fences, cached_submissions, cached_fences,
                 thread_handle, historyVars>>

Waiting == call.op \in {"wait", "shutdown", "drop"}
Answers == {result \in cached_fences : result.id = call.id}

\* The end of wait_fence: back to the caller, which shutdown itself may be.
EndWait(status, report, stop) ==
  /\ latest_report' = report
  /\ stop_requested' = stop
  /\ IF call.op = "wait"
       THEN Return("idle")
       ELSE /\ call' = [call EXCEPT !.status = status]
            /\ call_pc' = "waited"

WaitAnswered ==
  /\ Drained
  /\ Waiting
  /\ \E result \in Answers :
       /\ cached_fences' = cached_fences \ {result}
       /\ EndWait(result.status, DrainedReport, stop_requested \/ LossFound)
  /\ outstanding_fences' = IF outstanding_fences = 0 THEN 0
                           ELSE outstanding_fences - 1
  /\ UNCHANGED <<commands, events, workerVars, outstanding_frames,
                 cached_submissions, thread_handle, historyVars>>

WaitWithoutDeadline == FALSE

\* The deadline has passed and the channel was just seen empty.
WaitTimeout ==
  /\ Drained
  /\ Waiting
  /\ Answers = {}
  /\ EndWait("Timeout", DrainedReport, stop_requested \/ LossFound)
  /\ UNCHANGED <<commands, events, workerVars, outstanding_frames,
                 outstanding_fences, cached_submissions, cached_fences,
                 thread_handle, historyVars>>

WaitMore ==
  /\ Drained
  /\ Waiting
  /\ Answers = {}
  /\ latest_report' = DrainedReport
  /\ stop_requested' = (stop_requested \/ LossFound)
  /\ call_pc' = "recvTimeout"
  /\ UNCHANGED <<commands, events, workerVars, outstanding_frames,
                 outstanding_fences, cached_submissions, cached_fences,
                 thread_handle, call, historyVars>>

\* recv_timeout(1 ms): an event, nothing in time, or a closed channel
RecvEvent ==
  /\ call_pc = "recvTimeout"
  /\ events # << >>
  /\ HandleEvent
  /\ call_pc' = "drain"

RecvNothing ==
  /\ call_pc = "recvTimeout"
  /\ events = << >>
  /\ EventSenderAlive
  /\ call_pc' = "drain"
  /\ UNCHANGED <<sharedVars, workerVars, handleVars, call, historyVars>>

RecvDisconnected ==
  /\ call_pc = "recvTimeout"
  /\ events = << >>
  /\ ~EventSenderAlive
  /\ EndWait("WorkerLost", Lost(latest_report), stop_requested)
  /\ UNCHANGED <<commands, events, workerVars, outstanding_frames,
                 outstanding_fences, cached_submissions, cached_fences,
                 thread_handle, historyVars>>

-----------------------------------------------------------------------------
(* The handle: shutdown and Drop *)

AfterShutdown(op) == IF op = "drop" THEN "dropping" ELSE "idle"

\* A shutdown fence is neither counted nor refused by the fence limit.
SendShutdown(op) ==
  LET fence == [id |-> fences_created + 1, depth |-> "RenderThread",
                target |-> 0, mark |-> frames_admitted]
  IN /\ shutdown_called' = TRUE
     /\ fences_created' = fences_created + 1
     /\ \/ /\ CommandReceiverAlive
           /\ Len(commands) < CommandCapacity
           /\ commands' = Append(commands, [kind |-> "Shutdown", fence |-> fence])
           /\ latest_report' = [latest_report EXCEPT !.state = "ShuttingDown"]
           /\ BeginCall(op, fence.id)
           /\ UNCHANGED stop_requested
        \/ /\ CommandReceiverAlive
           /\ Len(commands) >= CommandCapacity
           /\ call' = [NoCall EXCEPT !.op = op]
           /\ call_pc' = "refused"
           /\ UNCHANGED <<commands, latest_report, stop_requested>>
        \/ /\ ~CommandReceiverAlive
           /\ stop_requested' = TRUE
           /\ latest_report' = Lost(latest_report)
           /\ Return(AfterShutdown(op))
           /\ UNCHANGED commands
     /\ UNCHANGED <<events, workerVars, outstanding_frames, outstanding_fences,
                    cached_submissions, cached_fences, thread_handle,
                    frames_admitted, index_of, consumed>>

\* The full queue refused the Shutdown command; the worker may have gone on
\* before the flag tells it to stop.
ShutdownRefused ==
  /\ call_pc = "refused"
  /\ stop_requested' = TRUE
  /\ latest_report' = [latest_report EXCEPT !.state = "ShuttingDown"]
  /\ Return(AfterShutdown(call.op))
  /\ UNCHANGED <<commands, events, workerVars, outstanding_frames,
                 outstanding_fences, cached_submissions, cached_fences,
                 thread_handle, historyVars>>

\* Inside shutdown anything but a completed fence closes the admission.  The
\* worker may have served more commands since the wait ended.
CloseAdmission ==
  /\ call_pc = "waited"
  /\ stop_requested' = (stop_requested \/ call.status # "Completed")
  /\ call_pc' = "join"
  /\ UNCHANGED <<commands, events, workerVars, handleVars, call, historyVars>>

FinalReportAlwaysStopped(join_failed) ==
  IF join_failed THEN Lost(latest_report)
  ELSE [latest_report EXCEPT !.state = "Stopped"]

FinalReport(join_failed) ==
  IF join_failed THEN Lost(latest_report)
  ELSE IF call.status = "Completed"
    THEN [latest_report EXCEPT !.state = "Stopped"]
    ELSE latest_report

\* The end of shutdown: a finished thread is joined, and a completed fence
\* names the state Stopped unless the join found a panic.
JoinThread ==
  /\ call_pc = "join"
  /\ LET joined == thread_handle /\ worker_pc = "finished"
     IN /\ thread_handle' = (thread_handle /\ ~joined)
        /\ latest_report' = FinalReport(joined /\ panicked)
  /\ Return(AfterShutdown(call.op))
  /\ UNCHANGED <<sharedVars, workerVars, outstanding_frames,
                 outstanding_fences, cached_submissions, cached_fences,
                 historyVars>>

Shutdown ==
  /\ call_pc = "idle"
  /\ fences_created < MaxFence
  /\ SendShutdown("shutdown")

\* Drop shuts down once more unless the thread was joined.
DropHandle ==
  /\ call_pc = "idle"
  /\ \/ thread_handle /\ SendShutdown("drop")
     \/ /\ ~thread_handle
        /\ call_pc' = "dropping"
        /\ UNCHANGED <<sharedVars, workerVars, handleVars, call, historyVars>>

\* The fields go and both channel ends of the producer close.  What is left
\* in the event channel stays in the variable but nobody can receive it.
DropFields ==
  /\ call_pc = "dropping"
  /\ call_pc' = "dropped"
  /\ UNCHANGED <<sharedVars, workerVars, handleVars, call, historyVars>>

\* A call in progress, whatever its outcome, driven by the producer alone.
CallStep ==
  \/ DrainEvent \/ ReturnPoll \/ ReturnReport \/ WaitAnswered \/ WaitTimeout
  \/ WaitMore \/ RecvEvent \/ RecvNothing \/ RecvDisconnected
  \/ ShutdownRefused \/ CloseAdmission \/ JoinThread \/ DropFields

NewCall ==
  \/ SubmitFrame \/ InsertFence \/ PollSubmission \/ WaitFence \/ LatestReport
  \/ Shutdown \/ DropHandle

\* Handle dropped, thread gone: nothing is left to happen.
Released ==
  /\ call_pc = "dropped"
  /\ worker_pc = "finished"
  /\ UNCHANGED vars

Next == WorkerStep \/ PanicInFrame \/ CallStep \/ NewCall \/ Released

Spec == Init /\ [][Next]_vars

\* The producer goes on with the call it started, and the clock passes every
\* deadline.  The worker may hang inside a frame: it is not assumed fair.
ProducerFairness == WF_vars(CallStep) /\ SF_vars(WaitTimeout)

ProducerFairSpec == Spec /\ ProducerFairness

\* The worker thread is scheduled and the execution of a frame ends.
WorkerScheduled == WF_vars(WorkerStep)

-----------------------------------------------------------------------------
(* Properties *)

SubmissionsOf(queue) ==
  {queue[i].frame : i \in {j \in DOMAIN queue : queue[j].kind = "Submission"}}

\* Frames whose result exists: on its way, cached, or taken.
Produced == SubmissionsOf(events) \cup cached_submissions \cup consumed
\* Frames whose result has reached the handle.
Received == cached_submissions \cup consumed
\* Frames the worker still has to execute.
Owed == {commands[i].frame : i \in {j \in DOMAIN commands :
                                       commands[j].kind = "SubmitFrame"}}
          \cup (IF taken.kind = "SubmitFrame" THEN {taken.frame} ELSE {})

WorkerPc == {"start", "recv", "taken", "serve", "progress", "answerShutdown",
             "reportStopped", "dropSender", "dropReceiver", "exiting", "finished"}
CallPc == {"idle", "drain", "recvTimeout", "refused", "waited", "join",
           "dropping", "dropped"}
\* The worker is in its loop and may still produce results.
InLoop == worker_pc \in {"start", "recv", "taken", "serve", "progress"}

\* Every variable has its type, and the two queues hold their messages only.
TypeOK ==
  /\ commands \in Seq(RenderThreadCommand)
  /\ events \in Seq(RenderWorkerEvent)
  /\ stop_requested \in BOOLEAN
  /\ worker_pc \in WorkerPc
  /\ taken \in RenderThreadCommand \cup {NoCommand}
  /\ worker_report \in WorkerReport
  /\ panicked \in BOOLEAN
  /\ outstanding_frames \in 0 .. FrameLimit
  /\ outstanding_fences \in 0 .. FenceLimit
  /\ cached_submissions \subseteq 1 .. MaxFrame
  /\ cached_fences \subseteq FenceResult
  /\ latest_report \in HandleReport
  /\ thread_handle \in BOOLEAN
  /\ call \in Call
  /\ call_pc \in CallPc
  /\ frames_admitted \in 0 .. MaxFrame
  /\ index_of \in [0 .. MaxFrame -> Nat]
  /\ consumed \subseteq 1 .. MaxFrame
  /\ fences_created \in 0 .. MaxFence + 1
  /\ shutdown_called \in BOOLEAN

\* submit_frame / handle_event: each frame has at most one result, in at most
\* one place, and results appear in admission order without a gap.
ResultsInOrder ==
  /\ \E n \in 0 .. frames_admitted : Produced = 1 .. n
  /\ cached_submissions \cap consumed = {}
  /\ SubmissionsOf(events) \cap Received = {}
  /\ \A i, j \in DOMAIN events :
       /\ i < j
       /\ events[i].kind = "Submission" /\ events[j].kind = "Submission"
       => events[i].frame < events[j].frame

\* submit_frame / poll_submission_output: the counter that closes admission at
\* FrameLimit is the number of admitted frames the caller has not taken, and
\* while the worker is in its loop each of them is owed or produced, not both.
AdmittedFramesAccounted ==
  /\ outstanding_frames = Cardinality((1 .. frames_admitted) \ consumed)
  /\ InLoop /\ CommandSenderAlive =>
       /\ Produced \cup Owed = 1 .. frames_admitted
       /\ Produced \cap Owed = {}

\* insert_fence / wait_fence: an answered fence proves that every frame
\* admitted before it has its result at the handle, so that flush followed by
\* poll never misses one; a fence that reports Completed also that a received
\* frame has at least the index it asked for.
CompletedFenceCoversFrames ==
  \A result \in cached_fences :
    /\ 1 .. result.mark \subseteq Received
    /\ result.status = "Completed" =>
         \E n \in Received \cup {0} : index_of[n] >= result.target

\* What the caller did with frame_index so far; nothing in the worker asks it.
IndicesNeverFall ==
  \A i, j \in 0 .. frames_admitted : i <= j => index_of[i] <= index_of[j]
IndicesGrow ==
  \A i, j \in 0 .. frames_admitted : i < j => index_of[i] < index_of[j]

\* handle_event, refresh_lag: however stale the report that replaced it, the
\* published last_completed_frame is the index of the newest result received,
\* and the published lag is never less than the distance of its index from the
\* newest admitted one.  It is that distance if the caller's indices never
\* fall, and if they grow it is zero exactly when no result is missing.
ReportMatchesResults ==
  /\ Received = 1 .. latest_report.last_completed_frame
  /\ InFlightFrames(latest_report)
       >= IndexGap(latest_report.last_completed_frame, frames_admitted)
  /\ IndicesNeverFall =>
       InFlightFrames(latest_report)
         = index_of[frames_admitted] - index_of[latest_report.last_completed_frame]
  /\ IndicesGrow =>
       (InFlightFrames(latest_report) = 0 <=> Received = 1 .. frames_admitted)

\* The event channel has no bound of its own (mpsc::channel):
\* admission bounds it, as long as every consuming call drains it first.
EventBacklogBounded == Len(events) <= 1 + 2 * FrameLimit + FenceLimit + 3

\* shutdown: the state Stopped is only published once the worker served every
\* command, so no admitted frame is left without its result at the handle.
CleanStopLosesNothing ==
  latest_report.state = "Stopped" =>
    /\ ~InLoop /\ ~panicked
    /\ Received = 1 .. frames_admitted

\* submit_frame, insert_fence, wait_fence, shutdown, drain_events: a lost
\* worker is only reported when its thread left the loop.
LossIsReal ==
  latest_report.worker_lost \/ latest_report.state = "WorkerLost" => ~InLoop

\* latest_report: in spite of three kinds of event that overwrite it, the
\* completed frame is never replaced by one admitted before it; the index
\* published for it falls only if the caller's indices did.
CompletedNeverRegresses ==
  [][/\ latest_report'.last_completed_frame >= latest_report.last_completed_frame
     /\ IndicesNeverFall' =>
          index_of'[latest_report'.last_completed_frame]
            >= index_of[latest_report.last_completed_frame]]_vars

\* wait_fence and shutdown are bounded: every call returns even if the worker
\* hangs inside a frame for ever.
CallsReturn ==
  call_pc \notin {"idle", "dropped"} ~> call_pc \in {"idle", "dropped"}

\* A worker that is scheduled gives every admitted frame a result or leaves
\* the loop.
EveryFrameResolved ==
  WorkerScheduled =>
    \A n \in 1 .. MaxFrame :
      n <= frames_admitted ~> (n \in Produced \/ ~InLoop)

\* A shutdown whose command was queued, answered or not in time, releases a
\* thread that is scheduled, and dropping the handle always does.  A shutdown refused by a full
\* queue alone does not: the worker may empty the queue before the flag is set
\* and then block in recv until the handle is dropped.
ThreadReleased ==
  WorkerScheduled => (call_pc \in {"join", "dropped"} ~> worker_pc = "finished")

-----------------------------------------------------------------------------
(* The handle and its thread implement the abstract frame service. *)

Service == INSTANCE FrameService WITH
  admitted <- frames_admitted,
  produced <- Produced,
  collected <- consumed,
  open <- ~(stop_requested \/ shutdown_called),
  alive <- worker_pc \notin {"dropSender", "dropReceiver", "exiting", "finished"}

\* Every step of the two threads is a step of the service or invisible to it.
ImplementsFrameService == Service!Spec
=============================================================================

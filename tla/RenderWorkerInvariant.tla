------------------------ MODULE RenderWorkerInvariant ------------------------
(***************************************************************************)
(* The inductive invariant behind the safety properties of RenderWorker.   *)
(* Admitted frames travel command channel -> worker -> event channel ->    *)
(* handle without overtaking, so every place holds a run of consecutive    *)
(* frame numbers, and every other message carries the number of frames     *)
(* that went before it.                                                    *)
(***************************************************************************)
EXTENDS RenderWorker

Message == RenderThreadCommand \cup RenderWorkerEvent

IsFrame(message) == message.kind \in {"SubmitFrame", "Submission"}

\* the number of the last frame that went before the message, or with it
FrameCount(message) ==
  IF IsFrame(message) THEN message.frame
  ELSE IF message.kind = "Fence" THEN message.result.completed
  ELSE IF message.kind = "WorkerReport" THEN message.report.last_completed_frame
  ELSE message.fence.mark

Step(message) == IF IsFrame(message) THEN 1 ELSE 0

FramesOf(queue) ==
  {queue[i].frame : i \in {j \in 1 .. Len(queue) : IsFrame(queue[j])}}

LastCount(queue, from) ==
  IF queue = << >> THEN from ELSE FrameCount(queue[Len(queue)])

\* The queue counts on from the number of frames that left it.
Run(queue, from) ==
  /\ \A i \in 1 .. Len(queue) :
       FrameCount(queue[i]) =
         (IF i = 1 THEN from ELSE FrameCount(queue[i - 1])) + Step(queue[i])
  /\ \A i, j \in 1 .. Len(queue) :
       i < j => FrameCount(queue[i]) + Step(queue[j]) <= FrameCount(queue[j])
  /\ FramesOf(queue) = from + 1 .. LastCount(queue, from)

\* frames whose result the handle received / the worker produced
Completed == latest_report.last_completed_frame
Sent == worker_report.last_completed_frame

EventChain ==
  /\ Run(events, Completed)
  /\ LastCount(events, Completed) <= Sent
  /\ CommandSenderAlive => LastCount(events, Completed) = Sent

\* What a message says of fences and admissions is already true of the frames
\* that went before it.
EventHolds(event) ==
  /\ FrameCount(event) <= frames_admitted
  /\ event.kind = "Fence" =>
       /\ event.result.mark <= event.result.completed
       /\ event.result.status = "Completed" =>
            event.result.target <= index_of[event.result.completed]
  /\ event.kind = "WorkerReport" =>
       event.report.last_submitted_frame <= frames_admitted

EventFacts == \A i \in 1 .. Len(events) : EventHolds(events[i])

InService == worker_pc \notin {"dropSender", "dropReceiver", "exiting", "finished"}

\* the number of frames the worker took
Taken == IF taken.kind = "SubmitFrame" THEN taken.frame ELSE Sent

CommandChain ==
  InService =>
    /\ taken # NoCommand => FrameCount(taken) = Sent + Step(taken)
    /\ Run(commands, Taken)
    /\ LastCount(commands, Taken) = frames_admitted

\* The worker holds a command exactly where its program counter says so.
WorkerControl ==
  /\ worker_pc \in {"taken", "serve", "answerShutdown"} <=> taken # NoCommand
  /\ worker_pc = "answerShutdown" => taken.kind = "Shutdown"
  /\ worker_report.last_submitted_frame <= frames_admitted
  /\ Sent <= frames_admitted

FenceFacts ==
  /\ \A result \in cached_fences :
       /\ result.mark <= Completed
       /\ result.completed <= Completed
       /\ result.status = "Completed" => result.target <= index_of[result.completed]
  /\ call_pc = "idle" => fences_created <= MaxFence
  /\ call_pc \in {"drain", "recvTimeout", "refused", "waited", "join"}
       /\ call.op # "drop"
     => fences_created <= MaxFence

ResultFacts ==
  /\ Received = 1 .. Completed
  /\ Completed <= frames_admitted
  /\ cached_submissions \cap consumed = {}
  /\ outstanding_frames = Cardinality((1 .. frames_admitted) \ consumed)
  /\ latest_report.last_submitted_frame <= frames_admitted
  /\ index_of[latest_report.last_submitted_frame] >= index_of[frames_admitted]

Inv ==
  /\ TypeOK
  /\ EventChain
  /\ EventFacts
  /\ CommandChain
  /\ WorkerControl
  /\ ResultFacts
  /\ FenceFacts
  /\ LossIsReal

-----------------------------------------------------------------------------
(* The second invariant: what a shutdown leaves behind.  Its fence is the   *)
(* newest one, only the worker's farewell may follow the answer, and no     *)
(* frame is admitted once it was called.                                    *)

LeavingPc == {"dropSender", "dropReceiver", "exiting", "finished"}

\* The worker answered a shutdown, which it does when nothing is left to serve.
Served == worker_pc \in LeavingPc \cup {"reportStopped"} /\ ~panicked

IsFarewell(event) == event.kind = "WorkerReport" /\ event.report.state = "Stopped"

\* After the first n events only farewells are under way.
QuietAfter(n) == \A j \in 1 .. Len(events) : n < j => IsFarewell(events[j])

InShutdown == call.op \in {"shutdown", "drop"}
AwaitsShutdown == InShutdown /\ call_pc \in {"drain", "recvTimeout"}

\* Every frame has its result at the handle, and nothing else will come.
AllReceived == Served /\ QuietAfter(0) /\ Completed = frames_admitted

CallShape ==
  /\ call_pc \in {"idle", "dropping", "dropped"} => call.op = "none"
  /\ call_pc = "recvTimeout" => Waiting
  /\ call_pc \in {"refused", "waited", "join"} => InShutdown

FenceIdsKnown ==
  /\ \A i \in 1 .. Len(commands) :
       commands[i].kind # "SubmitFrame" => commands[i].fence.id <= fences_created
  /\ taken.kind \in {"InsertFence", "Shutdown"} => taken.fence.id <= fences_created
  /\ \A i \in 1 .. Len(events) :
       events[i].kind = "Fence" => events[i].result.id <= fences_created
  /\ \A result \in cached_fences : result.id <= fences_created

\* A Shutdown command stands behind every frame there will ever be.
IsLast(command) ==
  command.kind = "Shutdown" => shutdown_called /\ command.fence.mark = frames_admitted

ShutdownIsLast ==
  /\ \A i \in 1 .. Len(commands) : IsLast(commands[i])
  /\ IsLast(taken)
  /\ worker_pc \in {"answerShutdown", "reportStopped"} =>
       shutdown_called /\ Sent = frames_admitted
  /\ panicked => worker_pc \in LeavingPc

\* Stopped is only said, and published, when all is served.
StoppedIsClean ==
  /\ worker_report.state = "Stopped" => worker_pc \in LeavingPc
  /\ \A i \in 1 .. Len(events) :
       IsFarewell(events[i]) =>
         /\ shutdown_called /\ Served
         /\ events[i].report.last_completed_frame = frames_admitted
  /\ latest_report.state = "Stopped" =>
       shutdown_called /\ Served /\ Completed = frames_admitted

\* The answer to the shutdown in progress.
AnswerIsLast ==
  AwaitsShutdown =>
    /\ \A i \in 1 .. Len(commands) :
         commands[i].kind = "InsertFence" => commands[i].fence.id # call.id
    /\ taken.kind = "InsertFence" => taken.fence.id # call.id
    /\ \A i \in 1 .. Len(events) :
         events[i].kind = "Fence" /\ events[i].result.id = call.id =>
           /\ Served /\ QuietAfter(i)
           /\ events[i].result.completed = frames_admitted
    /\ Answers # {} => AllReceived

ShutdownStages ==
  /\ InShutdown => shutdown_called
  /\ call_pc \in {"waited", "join"} /\ call.status = "Completed" => AllReceived
  /\ call_pc = "join" => stop_requested \/ call.status = "Completed"
  /\ shutdown_called /\ ~stop_requested /\ ~InShutdown =>
       AllReceived /\ latest_report.state # "Running"

ShutdownInv ==
  /\ CallShape
  /\ FenceIdsKnown
  /\ ShutdownIsLast
  /\ StoppedIsClean
  /\ AnswerIsLast
  /\ ShutdownStages

-----------------------------------------------------------------------------
\* Even the commands a worker left behind when it left its loop are frames it
\* did not send.
OwedAhead ==
  \A i \in 1 .. Len(commands) :
    commands[i].kind = "SubmitFrame" =>
      Sent < commands[i].frame /\ commands[i].frame <= frames_admitted

-----------------------------------------------------------------------------
(* The third invariant: what the worker may still send is paid for.  A      *)
(* frame pays for its result and its progress report, a fence for its       *)
(* answer, and the first report and a shutdown's three events come once.    *)

NamesFence(message) == message.kind \in {"InsertFence", "Fence"}
NamedFence(message) ==
  IF message.kind = "Fence" THEN message.result.id ELSE message.fence.id

FencesIn(queue) ==
  {NamedFence(queue[i]) : i \in {j \in 1 .. Len(queue) : NamesFence(queue[j])}}
EachFenceOnce(queue) ==
  \A i, j \in 1 .. Len(queue) :
    /\ NamesFence(queue[i]) /\ NamesFence(queue[j])
    /\ NamedFence(queue[i]) = NamedFence(queue[j])
    => i = j

TakenFence == IF NamesFence(taken) THEN {NamedFence(taken)} ELSE {}
CachedFences == {result.id : result \in cached_fences}

\* Fences the worker still has to answer, and those nobody has waited for.
OwedFences == FencesIn(commands) \cup TakenFence
UnclaimedFences == OwedFences \cup FencesIn(events) \cup CachedFences

\* A fence is in one place only.
FencesApart ==
  /\ EachFenceOnce(commands) /\ EachFenceOnce(events)
  /\ \A result, other \in cached_fences : result.id = other.id => result = other
  /\ FencesIn(commands) \cap TakenFence = {}
  /\ OwedFences \cap (FencesIn(events) \cup CachedFences) = {}
  /\ FencesIn(events) \cap CachedFences = {}

\* A worker that can still take commands has answered no shutdown, and every
\* fence it knows was counted.
FencesPaid == InLoop => Cardinality(UnclaimedFences) <= outstanding_fences

\* The events the worker sends at most if nothing more is asked of it.
ReportDue == IF worker_pc \in {"start", "progress"} THEN 1 ELSE 0

Due ==
  IF InLoop
    THEN ReportDue + 2 * (frames_admitted - Sent) + Cardinality(OwedFences) + 3
    ELSE IF worker_pc = "answerShutdown" THEN 2
    ELSE IF worker_pc = "reportStopped" THEN 1
    ELSE 0

EventsPaid ==
  Len(events) + Due <= 1 + 2 * outstanding_frames + outstanding_fences + 3

BacklogInv == (InLoop => FencesApart) /\ FencesPaid /\ EventsPaid
=============================================================================

# Formal models of AI First Game Engine

TLA+ models of the parts of the engine whose correctness depends on the order in
which threads, files and failures act, the TLC configurations that check them on
small instances, and proofs of the central safety properties for every instance.
Paths below are relative to `rust/crates/` of the repository.

## 1. The system

The engine is a Rust workspace: an editor, a runtime, an authoring tool surface
for language models and the gates that test them. Most of its code transforms
data in one thread (documents, scenes, UI trees, meshes, JSON). The parts below
are the ones that keep state across calls, and where that state is shared with
something that moves on its own: a thread, a process, the file system, a clock.

| Part | State it keeps | Operations | Meets |
|---|---|---|---|
| Dedicated render worker `engine_runtime_core/src/render_thread_worker.rs` | bounded command channel, unbounded event channel, stop flag; in the handle: outstanding counters, caches of results, last report, join handle | submit_frame, insert_fence, poll_submission, wait_fence, latest_report, shutdown, drop; the thread's loop | host loop (calls), OS thread (channels), render owner (mutex) |
| Host loop and dispatcher `engine_host_loop.rs`, `render_thread_worker.rs` 603-997 | host control, faulted session, dispatcher's fence status and completed index | tick, render_thread_for_target, observation of the owner, drop | render worker, frame loop, runtime session, owner mutex (poison) |
| In-process render queue `render_thread.rs` | queue and report | submit, drain | host loop, same thread |
| Bounded geometry preparation `render_geometry/prepare_tasks.rs` | shared cursor, lanes, results by index | run_bounded | scoped threads that may fail to spawn or panic |
| Atomic directory publish `engine_content/src/atomic_directory_publish.rs` | lock, staging, backup and final directories | publish, recover | file system, crash, other publishers |
| Atomic file replace `engine_content/src/atomic_file_replace.rs` | temp, backup and final file | replace, rollback | file system, crash |
| Project storage `engine_content/src/atomic_file_replace/project_storage.rs`, `project_storage/windows.rs` | directory handles, the exclusive lease of a namespace, one file for each key | open, read, write, delete | file system, other owners of the namespace |
| Runtime storage sessions `runtime_instance_loader/project_storage.rs` | a record for each request, charges, the owner or the one worker that has it | bind, accept, query, copy, abandon, advance, close, drop | worker thread, frame loop, streaming budget |
| LLM request controller `editor_core/src/project_patch/llm_request_controller.rs`, session `editor_core/src/services/ai_service.rs` | lifecycle machine, active request, pending events, cancel tokens; the process-wide executor's reapers; the session's request and report | start, poll, resolve, cancel, shutdown, drop; submit, pump, decide | request tasks of an async runtime, window's frame loop |
| Asset streaming `runtime_asset_loader.rs`, `runtime_asset_loader/streaming*.rs` | tickets with their closure of handles, the decoded cache and its reference counts, operations and retired operations (the charges), the worker | request, load, retain, release, mount, unmount, patch, poll, shutdown, drop; the thread's loop | the one worker thread (two bounded channels), frame loop, world cells (tickets), storage sessions (budget) |
| World cells, generated content `runtime_instance_loader/cells.rs`, `world_streaming.rs` | cell residency, pending loads | activate, advance, release | asset streaming, render owner |
| Frame loop `frame_loop.rs` | phase, frame index | run frame | runtime session, render extraction |
| Project runtime session `project_runtime_session.rs` | ABI handle, faulted flag | start, tick, stop | native module |
| Memory accounting `resource_memory.rs` | allocation samples | merge, summarise | all resource holders |
| Authoring mutation, authority lock `authoring_project_context/src/mutation.rs`, `authority_lock.rs` | a journal, a receipt and before material per mutation, lock file, the revision of each open context | open (with recovery), refresh, commit, rollback, save document | file system, several processes, programs that ignore the lock |
| Bounded child process `runtime_cli/src/bounded_child_process.rs` | child, output caps, deadline | run, kill, reap | OS process, reader threads |
| Editor, UI, importers, cookers | documents, selection, undo | commands | single-threaded |
| Renderer, RHI | GPU resources | frame encoding | driver |
| Simulation, input, text, audio, navigation | per-frame numeric state | step | frame loop |
| AI tool provider, authoring execution | per request | JSON requests | authoring core |
| Gates and tools | none at run time | | |

How they interact: the host loop owns the render worker's handle and is its only
caller (the methods take `&mut self`), so calls never overlap each other; they
do interleave with the worker thread at every channel operation and at the
mutex around the render resource owner. The frame loop and the runtime session
run inside a tick under that mutex. Publication and storage meet other
processes only through the file system, where each rename is one atomic step
and a process may die between any two.

What is hard, by part:

* Render worker: a result arriving after its wait timed out; a report queued
  before a stop and received after it; a stop flag read after a command was
  taken; channel ends that disappear one after the other; counters that close
  admission; a panic inside a frame; a frame that never ends.
* Host loop: what a tick may do after a wait disappointed it; a lock the timed
  out frame still holds; poison left by either side; fields of the handle
  written by the dispatcher behind the methods' back.
* Publication and storage: a crash between two renames, failure of the
  recovery itself, cleaning up after publication, two publishers.
* Geometry preparation: lanes racing for a job, a lane that never started.
* LLM requests: a cancel racing the answer, a task that panics, hangs or is
  aborted while somebody joins it, a shutdown whose join times out, a controller
  replaced while a task of the old one still runs.
* Authoring: a process that dies between any two renames, a failing rename or
  removal, a recovery that dies or fails itself, a program that writes a file
  meanwhile, a context that commits without having recovered.
* Runtime storage: a thread that panics or a rename whose error may come after the
  change, a read abandoned while it runs, a close or a drop beside running I/O, a
  table of records that is full.
* Streaming: a result that comes after its ticket was released, its package patched or
  its key asked for again; one operation that several tickets share; a sync load
  of what a worker is decoding; a channel that closes before its thread has ended.

What makes each part correct (in brackets: the property, where it is stated):

* Render worker: every admitted frame has at most one result, delivered in
  admission order, and a frame reported lost is lost [ImplementsFrameService; also
  ResultsInOrder and LossIsReal, which are proved]; the counter that closes
  admission counts the results not yet taken [AdmittedFramesAccounted]; a
  completed fence covers every frame before it [CompletedFenceCoversFrames]; the
  published report is what the handle really received [ReportMatchesResults];
  the event channel, unbounded in its type, is bounded [EventBacklogBounded]; a
  clean stop loses nothing [CleanStopLosesNothing]; no call blocks for ever [CallsReturn];
  every frame is resolved [EveryFrameResolved] and the thread released
  [ThreadReleased].
* Host loop: no frame is prepared beside another one in flight
  [NothingInFlightWhileOpen]; preparation never waits for a busy worker
  [PreparationNeverWaits]; ticks end [TickEnds].
* Directory publication: at every crash point the last good output or the new one
  can be found again (LastGoodSurvives, proved), a plain failure leaves in place the
  output its recovery settled on [FailureKeepsRecovered], no rename meets a directory in
  its way (RenameTargetsFree, proved as a part of PublishInv), what each error code says
  is true [OutcomeTellsTheOutput], the whole is an atomic replacement
  [ImplementsAtomicOutput]. That a failure leaves the *last good* output in place
  [FailureKeepsLastGood] the code does not give (section 5).
* Geometry preparation: each job runs once [JobsRunOnce], the result does not
  depend on threads [ResultIsSequential].
* LLM requests: no task runs on without somebody who holds its handle
  [NoDetachedTask]; a request has at most one terminal state
  [OneTerminalPerRequest], after which nothing of it is left running or held
  [JoinedTerminalMeansStopped]; after an accepted cancel no candidate of it is
  delivered [CancelWins]; a controller that gave a task up takes no request any
  more (TimedOutIsFinal, proved); a shutdown without a diagnostic leaves nothing
  [CleanShutdownLeavesNothing]. The session waits for the request the controller
  runs [SessionAgreesWithController]; after a cancel it lets go of the request and takes
  the next one, unless a shutdown or a drop gave its controller up [CancelSettles].
* Authoring: a mutation happens whole or not at all [ImplementsAtomicProject];
  recovery never has to choose between two mutations [AtMostOneUnfinished]; bytes
  of others are not overwritten unseen [ForeignBytesKept]; what was decided stays
  decided [OutcomeIsFinal]; a recovery that goes on to open has settled all there was
  [RecoverySettlesAll]; an operation ends and its lock with it [OperationEnds].
* Runtime storage: requests take effect one after the other, each at most once, and no
  answer says of a change what is not so [ImplementsOpaqueStore]; the lease is held
  while a change may still come [LeaseCoversIo]; I/O and unclaimed bytes are paid for
  [IoIsCharged] and the reservations are the charges [ReservationExact]; no result is
  forgotten unclaimed [ForgottenWasSettled]; every request is answered
  [RequestsSettle].
* Streaming: a cache entry is counted once for each handle that has it
  [RefCountsExact]; work in the thread's hands stays charged, once, within the limit
  [WorkIsCharged]; what a ready ticket holds stays resident until its release, and
  tickets settle once [ImplementsSharedAssets]; every ticket and charge settles
  [StreamsSettle].

## 2. Modules and their correspondence with the code

| Module | Models | Kind |
|---|---|---|
| `FrameService` | what a dedicated render thread promises | abstract specification |
| `RenderWorker` | `RenderThreadWorker` and `run_render_worker` | detailed specification, properties, fairness |
| `RenderWorkerInvariant` | | inductive invariants `Inv`, `ShutdownInv` and `BacklogInv` |
| `RenderWorkerProofs` | | proofs about `RenderWorker`, the refinement included |
| `RenderHost` | `EngineHostLoop` and `RenderCommandDispatcher` composed with `RenderWorker` | composition, properties |
| `RenderHostProofs` | | proofs about `RenderHost` |
| `AtomicOutput` | what publishing a directory promises | abstract specification |
| `DirectoryPublish` | `atomic_directory_publish_controlled` and the recovery | detailed specification, properties, inductive invariant |
| `DirectoryPublishProofs` | | proofs about `DirectoryPublish`, the refinement included |
| `BoundedPrepare` | `run_bounded` of the geometry preparation | specification, properties, inductive invariant |
| `BoundedPrepareProofs` | | proofs about `BoundedPrepare` |
| `LlmController` | `LlmRequestController`, its lifecycle machine and `LlmAsyncExecutor` | specification for a free caller, properties, inductive invariant |
| `LlmSession` | the editor session's requests over `LlmController` | composition, fairness, properties, inductive invariant |
| `LlmControllerProofs` | | proofs about `LlmController` and `LlmSession` |
| `AtomicProject` | what authoring transactions promise of a project | abstract specification |
| `AuthoringMutation` | commit, rollback, recovery, save, refresh and the lock of `mutation.rs` | detailed specification, fault model, properties |
| `AuthoringMutationProofs` | | inductive invariants of and proofs about `AuthoringMutation`, the refinement included |
| `OpaqueStore` | what a running project is promised of its stored bytes | abstract specification |
| `RuntimeStorage` | the storage session of a running project and the owner of its namespace | detailed specification, fault model, fairness, properties |
| `RuntimeStorageProofs` | | inductive invariants of and proofs about `RuntimeStorage`, the refinement included |
| `SharedAssets` | what the asset loader promises the holders of tickets | abstract specification |
| `AssetStreaming` | tickets, decoded cache and worker of the runtime asset loader | detailed specification, fault model, fairness, properties |
| `AssetStreamingProofs` | | inductive invariants of and proofs about `AssetStreaming`, the refinement included |
| `MC...` (one for each specification whose instance needs one) | | constants of the TLC instances, faulty variants the properties are tried on |

`RenderWorker`: `commands` and `events` are the two channels, `stop_requested`
the atomic flag. The worker's program counter has one value for each point of
`run_render_worker` between two visible effects: reading the flag after a
command left the channel, executing it, each send, and the three drops at the
end (event sender, command receiver, `is_finished`), which the handle observes
separately. A call of the handle is an action when it makes one visible step
(`SubmitFrame`, `InsertFence`) and a sequence of actions driven by `call` and
`call_pc` when it makes several: `drain_events` takes one event a step, `wait_fence`
alternates draining with `recv_timeout`, `shutdown` sends, waits, closes and
joins, and `Drop` runs `shutdown` again. Whatever the worker does may come in
between. A deadline is an always possible outcome of a wait that found nothing.

Abstractions of the data: a frame is known by its admission number and its content is
left out; `frame_index` is the caller's (the host passes its tick counter or the frame
loop's, `engine_host_loop.rs:923` and `1479`, and ticks that submit nothing leave gaps),
so `index_of` gives each admitted frame any member of `FrameIndexes`, and reports and
targets are compared by index; a fence carries a depth, a target and, as history, the number of
frames admitted before it (`mark`); the depths `RhiSubmit` and `Present` are
answered as `GpuCompletion` is and are represented by it; diagnostics and
timings are left out.

`RenderHost` EXTENDS the worker and adds the order in which a tick calls it.
`host_pc` names the place in `tick_internal`, `tick_control_frame`,
`submit_frame_output_and_wait` and `reject_frame_output`; the calls themselves
are the actions of `RenderWorker`, conjoined. The mutex of the render owner is
`resource_lock` and `poisoned`; the worker's frame is `LockOwner` followed by
`ExecuteFrame`, and the release of the lock is one step with the send of the
result (nothing the host does distinguishes the two, since it may only look for
the result after a further event). The three places where the dispatcher writes
the handle's fields itself (`CloseAfterMissingResult`, `RejectFrame`) are
actions of their own. The dispatcher's inline mode, where no thread exists, is
left out, as are input, audio and the content of a runtime frame: such a frame
succeeds, asks for the exit, faults the session or unwinds.

`FrameService` says it without channels: `Admit`, `Produce`, `Collect`, `Close`.
The mapping is in `RenderWorker!Service`: produced frames are those whose result
is in the event channel, cached or consumed; the service is open until the stop
flag is set or `shutdown` is called; it is alive until the worker leaves its loop.

`DirectoryPublish` has one action for each file system operation of an attempt,
with its failure as another outcome: the recovery (`Recover`, `DropBackup`,
`DropFinal`, `Restore`), the staging directory (`CreateStaging`, `WriteStaging`),
the two renames (`StageBackup`, `PublishStaging`), the post-check and the cleanup
(`CheckFinal`, `Cleanup`), `restore_last_good` (`RollbackFinal`, `GiveBack`) and
the removal of the staging directory (`Abandon`). `Crash` ends the process at any
of them. A rename is one step; `remove_dir_all` is not, so a removal that fails or
dies leaves a *torn* directory. A directory is known by the attempt that wrote it
and by whether it is whole; `Output` is the content recovery finds: the final
directory if it is whole, otherwise the backup. Attempts follow each other: the
lock file refuses a second publisher before it has touched anything and the
operating system releases the lock of a dead one, so two attempts never overlap.
A validator is the relation `Accepts`. That of a release package
(`editor_core/src/release_package.rs`) compares an exact inventory with hashes and
looks at the content alone; that of a runtime package
(`engine_runtime_core/src/runtime_package_builder.rs`) also asks for the files of
its own plan. With `Misreads` the judgement of a good directory may also fail on a read
error: `validate` at line 258 opens every file, and the recovery treats any `Err` alike.
A final directory that is not accepted is deleted in favour of the backup, so the
recovery may *settle* on an older output than it found; `base` remembers on which.
A backup that cannot be removed there gives `output_publish_cleanup_failed`
(`remove_owned_publish_dir`), the code of the cleanup after a publication too.

`AtomicOutput` is the promise: while an attempt runs the output is what was there
or what the attempt brings, and its end, of whatever kind, does not change it. It has
one exception, named `Doubt`: an attempt after one that did not end cleanly may fall
back on an older output before it replaces it.

`BoundedPrepare` is one call of `run_bounded`. What each job does (succeed, fail,
panic, or panic in a way that unwinds its lane) is chosen before the call, and
`SequentialResult` is what the loop of the browser build returns for the same
jobs (that loop catches no panic; for a job that panics the reference is the error
the parallel call reports for it): the parallel call has to agree with it. A lane runs a job and stores it in
one step (the slot is its own) and takes the next from the cursor in another.
Lanes without a thread stay with the caller, which runs them in order after the
spawning. What a job computes is left out.

`LlmController` lets its caller do anything: `start`, `poll_events`, the two
`resolve` calls, `cancel` and `shutdown` in any order, and the drop. A call that is
refused changes nothing and is no action. `lifecycle` and `terminal` are the
machine's two fields, `active` the `ActiveLlmRequest`, `main` says where the
caller's thread is while a call waits (`ShutdownJoin`, `ShutdownDrain`,
`DropJoin`). A request task is `tasks[t]`: it sends its answer (`TaskSend`: any
finished attempt is "done", one that saw its token is "cancelled"), ends, panics,
meets an await point after an abort (`TaskAborted`), or does nothing for ever. One
action is one branch of `poll_events`; the branches differ in what the channel
holds, whether the join handle is finished, and whether the cancel deadline
(`CancelOverdue`) has passed. A shutdown that cannot join in time hands the handle
to `reapers`, which belong to the process: `Reopen` makes the process's next
controller (`epoch`) while an old task may still run. What a candidate contains,
HTTP and credentials are left out; a prompt, context and credential are "held" as
long as the request's task runs or the controller keeps its record (`DataHeld`).

`LlmSession` EXTENDS it and restricts the caller to what `ai_service.rs` does:
submit, cancel, one pump a frame whose first event alone is looked at, and a
decision about a candidate inside the same pump (accept, reject, repair, or
refuse because the context moved on), a shutdown and its report.

`AuthoringMutation` has one variable for each thing on the disk (`files`,
`journals`, `receipts`, `used` for the transaction directories) and `op`, the
operation that holds the lock: there is never a second one, because the lock is
taken without waiting and refused calls change nothing. `op.pc` names the step,
`op.todo` the files still to write. A file and a journal are replaced by two
renames, the old one away (its name is free now) and the new one in; what a failed
or interrupted write leaves beside them is counted in `strays`, because the code's
inventory takes those files for sources: a revision is `[files, strays]`. A commit
seals what it saw (`Journal(state, seen, after)`), writes file by file and
compensates with the same steps when one fails; an open scans the journals,
classifies the one that is unfinished by what its files hold and finishes or
undoes it, or records that it cannot (`RecoveryRequired`). Every file system step
may fail (`ReadFails`, and the failing outcomes of the writes), and `Die` ends the
process anywhere. `ExternalWrite` is a program that does not know the lock.
`late` remembers the paths such a program wrote after the operation had last
looked. `torn` remembers that one of three things happened: a rollback ended
between two files under a journal that reads committed (`HalfRolledBack`), or a
`RecoveryRequired` record or a saved document was lost between its two renames
(`LostRecord`, `LostDocument`). `Recovered` and `DocumentSaved` give the lock
back and leave the context *refreshing*; `FinishRefresh` then captures the sources
without it, at any later time, and what another process or an outsider did in between
is in what it sees. Simplifications: capturing the inventory is one step,
because the code scans twice and fails when the scans differ; temporary names of
two processes do not collide.

`AtomicProject` says what a caller may rely on: `Commit` puts the outcome of a
mutation in place as a whole and keeps what it replaced, `Undo` gives that back,
`Save` replaces one file, `Outsiders` write what they like, and `Tear` is the only
other change. `Content` in `AuthoringMutation` is the mapping: the sealed content
for a mutation that is undecided, the committed one for a rollback that is not yet
recorded, the files otherwise.

`RuntimeStorage` is the storage of one running project: `records`, `released` and
`reserved` are the session's and the loader's own bookkeeping, `owner` and `worker`
say where the `Owner` of the namespace is, `lease` whether any is open. `main` says
what the loader's thread is in: a call of the frame loop ("open"), the join inside
`close_project_storage`, the join inside the drop, or no loader at all. There is at
most one thread; `thread` is its program counter and what it returns, and it ends
before `advance`, a close or the drop collects it. `advance` is one action for each
way it goes: nothing to start, the next request started, the session stopped.
Disk changes are single steps: the one rename of a write and the disposition of a
delete; an error that is not known to be a refusal may come before or after the
change (`CommitUnknown`). Left out are temporary files and the checks of paths,
handles and volumes, which fail as any call before the change does (`ThreadFails`).
Request ids only have to ascend, so the next one stands for any; a request writes its
own number. Queries change nothing and are no actions. Other users of the
streaming budget only make it smaller: what they leave is `MaxOperations` and `MaxBytes`.

`OpaqueStore` says it without sessions: a request is accepted, performed at most once
and in order while the namespace is held, and answered with the truth, or "unknown".

`AssetStreaming` counts tickets instead of handles: a ticket is a root handle, and
`keys[t]` are the cache keys of the handles that live and die with it, the root's
and its dependencies'. `pending[t]` are those still in `pending_cache_handles`: they
have no reference yet. A key is an asset at a revision of the package index, so a
patch makes new keys; the closure `Needs` is that of the index. `refs` and `typed`
are the decoded cache (a sync load leaves some types without the payload a
streamed one has, and a request for such a key decodes it again beside the first);
`operations`, `consumers` and `retired` are what the loader charges. A call is one
action, because the loader has one caller. A poll is several: `PollTake` receives
and applies one result, since the worker may send the next before it is looked for;
`PollPublish` settles tickets at the end of it, or `PollLost` finds the worker's
channel closed. `shutdown_streaming` is `Shutdown`, polls under `closing`, and
`ShutdownDone`, or a poll after which the time is up. The worker is `thread` with
its `work`, the two channels `queued` and `completed`, and after its loop or a panic
the three moments the loader can tell apart: its receiver dropped, its sender
dropped, the thread finished. A result is good or bad by choice (`ThreadDecodes`):
reading, integrity, decoding and the stop and cancel flags all end there. `limit` is
`max_operations` of the streaming budget, chosen at the start. The mailbox holds one
result less than `limit`, and 127 at most (`Room`); with a limit of one it holds
none and the send is a meeting: the thread stands at it (`Handing`) until the loader
takes the result out of its hands. A queue
has no order in the model, which covers every priority. Simplifications: a sync load makes
one handle for every path to a dependency and the model one per key; a failed sync
load gives its handles back and is no action; the budgets of bytes, edges and
handles only refuse requests and are left out; the reads of storage sessions that
count as operations are in `RuntimeStorage`, where the loader is the other user.

`SharedAssets` says it without a worker: a ticket asks or is granted, payloads
arrive, tickets turn ready, failed or released, and nothing a ready ticket holds
goes. `keys` and `Resident` are its `needs` and `resident`.

## 3. The runs

| Run | Question | Instance | Distinct states |
|---|---|---|---|
| `render_worker` | with all interleavings and a worker that may hang: are results counted, fenced and reported, is the event channel bounded, does a clean stop lose nothing, is `FrameService` implemented, does every call return? With the worker scheduled: is every frame resolved and the thread released? | capacity 1, 2 frame slots, 1 fence slot, 2 frames, 1 fence and the destructor's, fences with and without a target, indices that skip or fall back | 358 538 |
| `render_host` | do ticks, timeouts, panics and late results keep frames apart, does every tick end or come to the closing of the cell backend? | capacity 4 as in the code, 2 frame slots, 1 fence slot, 3 frames, 3 fences, with a cell backend | 184 858 |
| `render_host_terminal` | does a terminal tick avoid the owner a timed-out frame holds? (violated) | 2 frames, 2 fences | |
| `directory_publish` | is a publication an atomic replacement, does a plain failure keep what the recovery settled on, are the error codes true, whatever fails, is misread or dies? | 4 attempts, the third has a new file, read errors of the validator | 4 600 |
| `directory_publish_plan` | does a failure keep the last good output if validators look at their own plan? (violated) | 3 attempts, the third has a new file, no read errors | |
| `bounded_prepare` | do lanes run each job once and agree with the sequential loop? | up to 4 jobs allowed and 5 asked for, 3 lanes allowed and 4 asked for, every behaviour of every job | 107 143 |
| `llm_controller` | whatever the caller does and the tasks do: is no task detached, has no request two terminals, does a cancel win, does a clean shutdown leave nothing? | 3 tasks, 2 controllers | 1 146 844 |
| `llm_session` | does the editor's session agree with its controller, and take the next request after a cancel although providers may be silent for ever? | 2 tasks, 2 controllers | 59 458 |
| `authoring_mutation` | do commits, rollbacks, recoveries and saves keep a project whole through failures, crashes and foreign writes, and do operations end? | 1 process, 3 paths, 2 of them present, 2 mutations (one replaces and deletes, one moves), 2 faults or foreign writes, 1 save | 331 388 |
| `authoring_rollback` | does a reopen after a crash find a project that is not half rolled back? (violated) | 1 process, 1 mutation, 1 fault | |
| `runtime_storage` | do stored bytes change in order, once and only under the lease, is no answer wrong, no charge lost and no request forgotten, through failures, panics, closes and deaths? | 1 key, 3 requests, 2 loaders, 2 records, 2 operations, 3 bytes of which a read takes 2, 1 fault, 1 foreign write | 190 594 |
| `asset_streaming` | are reference counts and charges exact, does every holder keep what it holds, and does everything settle, through shared operations, releases, sync loads, patches, lost workers, shutdowns and drops? | 3 tickets, a prefab that needs a mesh, the mesh, 1 patch, unmount or panic, a budget of 1 and of 2 operations, 1 result a poll | 818 534 |

Bounds. `MaxFrame` and `MaxFence` cap what the producer ever does; all other
state of the worker is bounded by the code's own limits, which the instances make
small so that each is met: with capacity 1 the queue is full while the worker is
busy, with two frame slots the third frame would meet a full table, with one fence
slot an unanswered fence blocks the next. Two frames are enough to have one
answered and one owed at once; a second shutdown, or a drop after one, needs two
fences. The host instance keeps the code's capacity of 4, with
which a host that waits for each frame never fills the queue; three frames cover a timeout, the late answer,
the rejection and the tick after it. Beyond these bounds the safety properties
that have a theorem hold by proof.

For the publication, four attempts let a crash in one attempt, a crash in the
recovery of the next, a failed cleanup and a failure after them follow each other;
no property looks further back than the attempt before. For the preparation, four
jobs on three lanes leave a job to the cursor beyond every lane's first one, and
the fifth job and the fourth worker are the first refused.

For the LLM controller, three tasks are a request, its repair attempt and the task
of a later request, and two controllers let the second meet a task the first
gave up; the session needs two of each for a request that waits behind another.

For authoring, `MaxTrouble` counts failing calls, deaths and foreign writes together:
two of them are a failure during compensation, a death in the recovery from a death, a
foreign write under either, or two foreign writes (three, 1 927 110 states, were
checked once beyond the run). The two mutations write both files of the project, by
replacement, removal and move, and follow each other in either order. All files a
rename can tear are in the write set of one of them. The lock keeps operations apart and
recovery does not ask who wrote a journal, but a second process may work while the first
one refreshes; with it the instance has more than a million states even for one failure
and is left out of the run. Every property of the run but `OperationEnds` is proved for any
number of processes.

For runtime storage, the third request finds a full table of two records and is
refused or evicts; two reads exceed the bytes; a second loader meets the file the
first one left, and another owner may have written in between. With one key every
two requests conflict. Two keys, and two faults with one key, were checked once
each beyond the run.

For asset streaming, two tickets share an operation and a third comes late, joins, or
asks again for a key whose first operation is retired. The prefab needs two
operations, which is the whole budget, and shares the mesh with the tickets of the
mesh alone, which a sync load also leaves without a payload. One trouble is the
patch, the unmount or the panic; each can meet a ticket in every state. A budget of one
operation refuses the prefab's closure and makes the result channel a rendezvous. One result a poll lets every poll
end with results left behind. The proofs hold for every other bound.

Deadlock is checked in the render, publication and preparation runs: their
specifications end in an explicit stutter (`Released`, `HostReleased`, `Finished`,
`Returned`) that is enabled only when the handle is gone and the thread finished,
when the host instance used up its bounds, when no attempt is left, or when the call
returned. The LLM, authoring, storage and streaming runs do not check it: a caller who stops calling
stops the system, and a project whose recovery is blocked cannot be opened again.

Fairness. Every caller may stop calling; nothing assumes a new call.

* `ProducerFairSpec`: the producer goes on with a call it started (`WF` on
  `CallStep`), and the clock passes a deadline: a wait that finds its channel empty
  again and again cannot miss its deadline for ever (`SF` on `WaitTimeout`, strong
  because the loop of `wait_fence` leaves the point where it is read and comes
  back). Nothing is assumed of the worker, which may hang; only
  `EveryFrameResolved` and `ThreadReleased` have the hypothesis `WorkerScheduled`, that
  the operating system schedules it and a frame's execution ends. A panic is
  never forced.
* `HostFairSpec`: the same for the host's thread (`WF` on `HostContinues`, `SF` on
  the timeout).
* `FairSessionSpec`: the window pumps every frame and decides within the pump, a
  shutdown's wait has a deadline, time passes, and the executor runs what is ready:
  a future that ended completes, one that was cancelled or aborted meets an await
  point. A task nobody cancelled may wait for its provider for ever.
* `FairSpec` of `AuthoringMutation`: the process that holds the lock runs (`WF` on
  `OperationStep`). It may still die or fail as often as `MaxTrouble` lets it.
* `FairSpec` of `RuntimeStorage`: the frame loop polls (`WF` on `Advance`), the joins
  of a close and a drop return once their thread ended (`WF` on `CloseEnd`, `DropEnd`),
  and the thread runs and its calls return (`WF` on `ThreadStep`).
* `FairSpec` of `AssetStreaming`: the frame loop polls (`WF` on `Poll`; a shutdown polls
  itself), and the thread is scheduled and a read of the package ends (`WF` on `Thread`). It may
  still panic, and a shutdown whose time is up leaves it running.
* The publication, the preparation and the controller alone have no fairness: they promise safety.

## 4. The proofs

`RenderWorkerProofs` proves for every capacity, limit, bound and set of targets:
`InvAlways`, `TypeSafety`, `ResultsAlwaysInOrder`, `FramesAlwaysAccounted`,
`FencesAlwaysCover`, `ReportAlwaysMatches`, `LossAlwaysReal`, `CompletedOnlyGrows`,
`ShutdownInvAlways`, `CleanStopAlwaysLosesNothing`, `BacklogInvAlways`,
`BacklogAlwaysBounded` and the refinement `FrameServiceImplemented`.
`RenderHostProofs` proves `HostInvAlways`, `PreparationAlwaysFree`, `OwedAlwaysAhead`
and `NothingEverInFlight`.
`DirectoryPublishProofs` proves, for any number of attempts, any validators and any
read errors, `PublishInvAlways`, `LastGoodAlwaysSurvives`,
`FailureAlwaysKeepsRecovered`, `OutcomeAlwaysTellsTheOutput` and the refinement
`PublishIsAtomic`. `BoundedPrepareProofs` proves, for every number of jobs and
lanes, `PrepareInvAlways`, `JobsAlwaysRunOnce`, `AlwaysJoinedBeforeReturn` and
`ResultAlwaysSequential`. `LlmControllerProofs` proves, for any number of tasks and
controllers, `ControllerInvariant`, `ControllerTyped`, `NoTaskIsDetached`,
`OneTaskAtATime`, `SingleTerminal`, `JoinedIsStopped`, `TimedOutStays`,
`CleanShutdownJoinsAll` and `CancelAlwaysWins`, and of the session `SessionUsesController`,
`SessionInvariant` and `SessionAndControllerAgree`. `AuthoringMutationProofs` proves, for
any processes, paths, plans and faults, `AloneInvAlways`, `OneUnfinishedAlways`,
`OutcomesAreFinal`, `ProjectInvAlways`, `RecoveryAlwaysSettles`, `ForeignBytesAlwaysKept` and the
refinement `ProjectImplemented`. `RuntimeStorageProofs` proves, for any keys, limits,
charges and faults, `StorageInvAlways`, `LeaseCoversIoAlways`, `IoIsChargedAlways`,
`ForgottenWasSettledAlways`, `ReservationAlwaysExact` and the refinement
`OpaqueStoreImplemented`. `AssetStreamingProofs` proves, for any assets, closures,
limits and number of tickets, `TypeCorrect`, `RefCountsExactAlways`,
`WorkIsChargedAlways` and the refinement `SharedAssetsImplemented`. An inductive invariant that a theorem states has no run of its own.

Assumptions: the capacity and the limits are positive (`CapacityAssumption`,
`LimitAssumption`), the bounds are naturals and the targets are frames
(`BoundAssumption`), `CellBackend` is a Boolean, flush uses no target
(`FlushAssumption`); the bounds of the LLM controller are positive (`BoundsAssumption`); an
authoring plan touches each path once (`PlanAssumption`, which is what
`ProjectMutation::validate` refuses otherwise) and numbers its paths and mutations
(`NumberedAssumption`); the record limit and the charge of a
read are positive (`StorageAssumption`); assets are finitely many, a closure contains its
root, at least one operation is allowed and at least one result a poll
(`StreamingAssumption`).

The argument. `ResultsInOrder` is not inductive: that a result sent now is the
next one follows from what is in the command channel, and that in turn from
what was admitted. `Inv` therefore follows a frame along its whole way. Every
message has a count, the number of the last frame that went before it (or with
it), and `Run(queue, from)` says that a queue counts on from what already left
it: a frame adds one to its predecessor's count, any other message repeats it.
`EventChain` states this of the events, from the frames the handle received to
the frames the worker sent; `CommandChain` of the commands, from the frames the
worker took to the frames admitted. Taking the head or appending at the tail
keeps a run (lemmas `RunTail`, `RunAppend`), so each action preserves `Inv` by
looking at one end of one queue. `EventFacts`, `FenceFacts`, `ResultFacts` and
`WorkerControl` carry what the messages say about fences, counters and the
program counter; the properties of results, fences and reports follow from `Inv`
without further steps.

A stop needs more. `CleanStopLosesNothing` looks at a state the handle writes by
itself when a fence comes back completed, and a fence says nothing of the commands
behind it. `ShutdownInv`, inductive beside `Inv`, says that a shutdown's fence is the
newest there is and that no frame is admitted once it was called (`ShutdownIsLast`),
that its answer has only the worker's farewell behind it (`AnswerIsLast`), that
`Stopped` is said when all is served (`StoppedIsClean`), and what holds at each step
from the answer to the join (`ShutdownStages`). Together with `Inv` this also gives
the refinement: a step of the worker produces the next frame or is invisible,
draining moves results without changing which exist, and the service closes for good.

The code's event channel has no bound. `BacklogInv` bounds it by bookkeeping: `Due` is
what the worker may still send if nothing more is asked of it, two events for a
frame it owes, one for a fence, three for a shutdown, one for its first report or for the
progress it has not told. A step of the worker turns what is due into at most
as many events; an admission adds what its slot pays for; a slot is given back
only when the channel was just found empty, and then what is due is paid by what is
still owed. For the fences this needs that each is in one place (`FencesApart`) and
that, while the worker is in its loop, every fence it knows was counted (`FencesPaid`):
an answered shutdown takes back a slot it never had, but the worker has left its loop by then.

For the host, every action is shown to be a step of the worker, a step that
leaves the worker's variables alone, or one of the direct writes, and the direct
writes keep `Inv` (`HostWritesKeep`). `DeliveredOrClosed` says that before the
frame in flight all frames were delivered unless admission is closed for good,
`WorkerOwnsForFrame` that the worker only holds the owner while it serves a
frame: together they give that a host which passed the admission check meets
no worker at the mutex. `NothingInFlightWhileOpen` needs `OwedAhead`: the frames
in the command channel are not yet sent and were admitted, also when the worker
has left them behind or the host wrote the handle's fields itself.

For the publication, `PublishInv` says at each program point which directory
holds the old output and which the new one. `LastGoodSurvives` alone is not
inductive: that removing the backup loses nothing follows from the final
directory being whole at `dropBackup` and new at `cleanup`, that removing the
final one does from its being torn at `dropFinal` and from the backup being old
at `rollback`. One lemma per action shows that the invariant is kept; for the
refinement, `EndKeepsOutput` shows that the last step of an attempt does not
change the output, and `LastGoodSurvives` that every other step leaves it at the
old or the new one. A backup beside a final directory is only met after an attempt that
did not end cleanly, so only such an attempt can be followed by a recovery that settles
on less than it found; from then on `base` takes the place of `before` in every
conjunct.

For the preparation, `PrepareInv` follows each job: one that was handed out
(below the cursor, or a lane's first) is stored or in the hands of a lane
(`JobInv`), no two lanes have the same (`HandsApart`), and a lane that is over saw an
index past the last job (`LaneInv`). When every lane ended, the caller's own was
over, so every job had been handed out and the only empty slots are those of
lanes that unwound (`SlotsAtTheEnd`): the slots tell what the jobs did, whoever
ran them.

For the LLM controller, every property is about tasks the controller no longer
looks at, and none is inductive. `ControllerInv` says who has what: a spawned task
belongs to a request and a controller (`SpawnedTasks`), a busy lifecycle and the
active record belong together (`ActiveRequest`), a live task the controller does not
hold is with a reaper, of another request, and of this controller only if a
shutdown gave it up for good (`StrayTasks`), the request a shutdown has joined has
no live task before its terminal is written (`ClosingRequest`), and a request without
a terminal is the active one or not yet started (`OpenRequests`). The actions fall into
those that keep what the controller holds, those that release it after a join,
those that spawn, and those that give a task up; each kind has a lemma
(`HoldsKeeps`, `ReleasesKeeps`, `SpawnsKeeps`, `GivesUpKeeps`) and each action is shown to
be of its kind. `CancelAlwaysWins` carries a second invariant about cancelled requests.

The session is not proved from nothing: `SessionUsesController` shows that each of its
actions is a step of the controller's own specification, so that every theorem about
the controller holds under the editor too. `SessionInv` then adds that an attempt which
was joined is decided before the next call (`NothingUndecided`, `DecidingRequest`), which
is what makes the one event the pump reads the only one, and session and controller agree.

For authoring, `AtMostOneUnfinished` needs to know that a journal is only ever
written by the lock holder and only from a scan that found no other unfinished one:
`AloneInv` says of each step which journals may be unfinished (`WriterAlone`). That
outcomes are final needs more, which journal stands in place at each step of an
operation, during the two renames as well: `StepsInv` follows it, and `JournalsUsed`
(a transaction directory is made before its journal, and never twice) gives that a
fresh commit finds no journal in its place.

The refinement rests on `ProjectInv`, which says for each step what the files of the
operation's mutation may hold: what was sealed, what is to come, nothing between the
two renames of a swap, or an outsider's bytes (`Progress`, `Writing`), and which journal
says so (`StandingSealed`, `JournalInHand`). `Content` is then read off as *claims*: a
mutation that is undecided or being undone claims its paths, and its journal says what
they show; at most one has a claim (`OneHasAClaim`); every other path shows its file
(`ContentFollows`). Writing a file of a claimed path is invisible, and so is a death. The
journal that ends a claim is where a mutation happens, does not happen or is undone as a
whole: there the files have been verified, so what they show is what the claim promised.
What ends a claim otherwise is one of the torn endings, a `Tear` of the abstract project.
`RecoverySettlesAll` needs one invariant more (`Opening`: the context that is being opened
is empty, and no journal asks for recovery), and then that a project without a claim shows its files.
`ForeignBytesKept` needs `BytesKnown`: what an operation is going to write over is one of the
two states it sealed or came after its last look, and a commit applies its operations in order.

For runtime storage, `StorageInv` says who has the owner and what a record may be:
the session or the one thread has the owner, and with it the lease (`OneOwner`); the
worker's record is the active one and the thread serves it (`OneThread`); a record
that is queued or active is charged, one with a payload is an applied read and charged,
one that ended is neither queued nor active (`RecordsOK`); and one that ended has
its answer (`EndsAreTold`). The charge matters at the abandon of a read that runs: it
keeps the charge because it is active, so `IoIsCharged` survives the caller that left.

The reservation is a sum over records, but a record is charged for a read or for anything
else, so the sum is two cardinalities (`Charges`) and `ReservationInv` needs no induction: every
step charges, releases or moves one record. For the refinement `AnswerInv` says that who
has not ended was told nothing and who has was told its own end, and that the request at
work comes before all that wait, and `EffectInv` that nothing took effect before the
call that does it and that its return tells which. An answer of the session is then a truth
of the abstract store, or "unknown"; an effect is the next one in the order of the ids.

For asset streaming there are two invariants, each inductive. `Handled` is about
tickets: a handle that waits is in `pending` and has no reference, whoever waits
for an operation has its key pending, and a count is the number of holders. It
gives `RefCountsExact`, and the refinement: what a ready ticket holds is counted,
so it cannot go. `Worked` follows the id of an operation through the pipeline. It is in
one place at a time, and there it is charged, under its key or as retired;
while the thread runs nothing else is charged, so a result that is received returns
exactly its own charge; and a thread that has ended holds nothing, which is
why `PollLost` and `ShutdownDone` may forget all charges then and not before.

Only model-checked: the liveness properties `CallsReturn`, `EveryFrameResolved`,
`ThreadReleased`, `TickEnds`, `CancelSettles`, `OperationEnds`, `RequestsSettle` and
`StreamsSettle`. They rest on fairness, which the prover cannot reason about
(`ENABLED`). Every other property of a passing run has a theorem.

## 5. Disagreements between the code and its documents

`render_host_terminal`: with a cell backend, the tick that follows a render
timeout fails its preparation as intended, but its end (`engine_host_loop.rs:985`)
still calls `with_resources`, which locks the owner the timed-out frame may
hold, without a check and without a deadline. The comment at
`render_thread_worker.rs:695-697` asks for the admission check before any
resource preparation, and the test at `engine_host_loop.rs:3198` is named for the
terminal tick that does not wait; it passes no runtime context and so does not
reach that line.

`directory_publish_plan`: when the final directory and a backup both exist,
`recover_publish_orphan` asks the validator of the *new* attempt whether the final
one is good. The validator of a runtime package also asks for the files of its
own plan, so after an attempt whose backup could not be removed a later build
with one more file rejects the good output, deletes it and restores the older,
perhaps torn backup; if that build then fails, the last good output is lost. A read
error of the validator does the same whatever it asks for: a file of the good output that
is briefly locked or unreadable (`release_package.rs:697` turns that into a diagnostic)
makes line 266 delete it. The passing run and the theorems therefore promise what
the recovery settled on, with `Misreads` on.
`框架设计/引擎总体架构/236-...-v1方案.md:1003` promises that a failure before
publication keeps the last good final output.

`authoring_rollback`: `rollback_mutation` gives the files back one by one
(`mutation.rs:1438`) under a journal that still reads `Committed`. A process that dies in
between leaves a project whose next open succeeds, finds nothing to recover and shows
some files of before the mutation and some of after it. Document 309, lines 972-973,
rules out such a silent half commit and lines 671-672 a best-effort undo.

Noticed on the way, without a run:

* When the join inside the LLM controller's `shutdown` returns an error (the task
  panicked, or an earlier poll had aborted it), the request is dropped and the caller
  told `ShutdownJoinTimedOut`, but the lifecycle stays in `Cancelling`
  (`llm_request_controller.rs:864`). Nothing is owned any more, so nothing ends that
  state: `is_busy` stays true and the request gets no terminal, of which
  `框架设计/引擎总体架构/243-...-v1方案.md:466` promises exactly one;
  `ai_service_tests.rs:595` asserts that a session is not busy after its shutdown.
* Document 236, line 982, lists the recovery of orphan *backup and staging* state of a
  publication. The code recovers the backup; staging directories of dead processes stay.
* The session's report after a shutdown that timed out says that the credential is
  released and the local request stopped (`ai_service.rs:1038`), though the task may
  still run with it. `NoDetachedTask` says who holds the task meanwhile.
* `open_project` and `save_document` give the authority lock back before they refresh
  (`context.rs:142`, `289`), and `refresh` takes no lock and looks at no journal: a
  context may publish a revision that holds another process's half-done mutation. Document
  309, section 21 (lines 703-717), wants the publication under the gate after a recheck.
  A commit is not misled by it: under the lock it compares the revision again and
  refuses an unfinished journal.
* The backup that a recovery cannot remove is reported as
  `output_publish_cleanup_failed`, the code that otherwise means that the new output
  is in place (`OutcomeTellsTheOutput` says what it does mean).
* Temporary and backup files left by a write that failed or died stay in an
  authoring project and count as sources. A mutation that was applied whole but left
  one is taken for a foreign change: recovery restores the files of before it, where
  document 309, line 643, asks for the receipt to be completed.
* The `Committed` journal of a mutation is written before its receipt, and
  `reject_nonterminal_journal` (`mutation.rs:1812`) does not count a journal without one. A
  context that did not recover may commit the next mutation on top; from then on
  every open fails with `recovery_receipt_unprovable`, although only the engine wrote.
  Document 309, lines 639 and 643, has open and refresh check journals first and
  complete such a receipt.
* When a streamed ticket fails in a poll, `poll_async` (`streaming.rs:1401-1406`) releases its root and
  keeps the entry this leaves in the history of released handles. `fail_pending`
  (1464-1468) takes that entry out, and its comment says why: it could expire a later
  explicit release of the same handle.
* A journal whose process dies between the two renames of its replacement is
  gone, and recovery passes over it (`LostRecord`; for a mutation not yet
  decided, its directory without a journal).
* `close_project_storage` keeps the ended records so that they can be asked for, and
  `bind_project_storage` refuses to bind while there are any. Nothing removes them, so
  a loader that closed a used session cannot bind again; the error says that the
  storage is busy, though nobody holds the namespace.

## 6. What is not modelled, and the plan

1. Render worker and host loop: left is the inline mode. The two frame counters
   (`host_frame` and the frame loop's own) are not modelled as such: whichever the host
   passes is one of the indices the caller may give. In the handle's reports the lag is
   a difference of such indices and not a number of frames; `ReportMatchesResults` says
   what it is worth.
2. Directory publication: done. `atomic_file_replace` (temp, backup, commit, rollback
   twice) is left: document 236, section 9.2, promises it no safety in a crash, and its
   callers name no recovery, so a crash between its renames leaves the content in a
   backup nobody looks for.
3. Geometry preparation: `run_bounded` done, `join_validation` left.
4. LLM requests: the transport's own retries and the validation of a candidate are
   left out; both run inside a task and end in its answer.
5. Authoring: the manifest and the limits of a mutation, tampered control files,
   snapshots, leases and reads, and a lock file removed by hand are left out; so are the
   hidden hooks the tests stop a commit with, which die where `Die` does.
6. Runtime storage: temporary files and their removal at the next open, the checks of
   paths, handles and volumes.
7. Asset streaming: the budgets of bytes, edges and handles with
   `set_streaming_budget`, the history of released handles, priorities, the memory
   observation and the shedding of CPU payloads are left out; a closure is taken as a
   tree. Next are the world cells on top of it, then the bounded child process.

Left out for good: editor, UI, renderer, simulation, importers and gates, which
transform data in one thread and whose correctness is a matter of values, not of
order. They are most of the code by size.

--------------------------- MODULE BoundedPrepare ---------------------------
(***************************************************************************)
(* run_bounded of render_geometry/prepare_tasks: the jobs of one frame are *)
(* shared by up to MaxWorkers lanes.  Each lane keeps its first job, lanes *)
(* that no thread could be spawned for are run by the caller one after the *)
(* other, and a shared cursor hands out the rest.                          *)
(*                                                                         *)
(* What a job does is fixed before the call; the same call on the browser  *)
(* runs the jobs in order in one loop, and the result has to be the same.  *)
(***************************************************************************)
EXTENDS Naturals

CONSTANTS
  MaxJobs,      \* MAX_JOBS
  MaxWorkers,   \* MAX_WORKERS
  MaxCount,     \* bound: jobs ever asked for
  MaxRequest    \* bound: workers ever asked for

ASSUME CapacityAssumption == MaxJobs \in Nat /\ MaxWorkers \in Nat \ {0}
ASSUME RequestAssumption == MaxCount \in Nat /\ MaxRequest \in Nat

\* "unwind": a panic that catch_unwind stops and whose payload panics again
\* when it is dropped
Behaviour == {"ok", "error", "panic", "unwind"}
Stored(behaviour) == IF behaviour = "unwind" THEN "panic" ELSE behaviour

Lane == 0 .. MaxWorkers - 1
Phase == {"waiting", "running", "claiming", "over", "unwound"}

VARIABLES
  count, requested,   \* the arguments
  behaves,            \* what each job does
  workers,
  next,               \* the cursor
  spawned,            \* lanes a thread was tried for, the caller's included
  inline,             \* lanes the caller runs
  phase, index,       \* of each lane
  ordered,            \* the results by index
  result

arguments == <<count, requested, behaves>>
vars == <<arguments, workers, next, spawned, inline, phase, index, ordered, result>>

Job == 0 .. count - 1

NoResult == [kind |-> "none", at |-> 0]
Capacity == [kind |-> "capacity", at |-> 0]
Values == [kind |-> "values", at |-> 0]
Unwound == [kind |-> "unwound", at |-> 0]
ErrorAt(i, kind) == [kind |-> kind, at |-> i]

Init ==
  /\ count \in 0 .. MaxCount
  /\ requested \in 0 .. MaxRequest
  /\ behaves \in [Job -> Behaviour]
  /\ workers = 0
  /\ next = 0
  /\ spawned = 0
  /\ inline = {}
  /\ phase = [lane \in Lane |-> "waiting"]
  /\ index = [lane \in Lane |-> lane]
  /\ ordered = [i \in Job |-> "none"]
  /\ result = NoResult

Refused == count > MaxJobs \/ requested = 0 \/ requested > MaxWorkers

Refuse ==
  /\ result = NoResult /\ spawned = 0
  /\ Refused
  /\ result' = Capacity
  /\ UNCHANGED <<arguments, workers, next, spawned, inline, phase, index, ordered>>

\* a lane for each job at most, and one if there is none
LaneCount ==
  IF count = 0 THEN 1 ELSE IF requested < count THEN requested ELSE count

FirstSharedFromOne == 1
FirstShared == workers'

Begin ==
  /\ result = NoResult /\ spawned = 0
  /\ ~Refused
  /\ workers' = LaneCount
  /\ next' = FirstShared
  /\ spawned' = 1
  /\ inline' = {0}
  /\ UNCHANGED <<arguments, phase, index, ordered, result>>

SpawnFailedDropped ==
  phase' = [phase EXCEPT ![spawned] = "over"] /\ UNCHANGED inline
SpawnFailed == inline' = inline \cup {spawned} /\ UNCHANGED phase

\* spawn_scoped: the thread starts with its first job, or the caller keeps it.
Spawn ==
  /\ 0 < spawned /\ spawned < workers
  /\ spawned' = spawned + 1
  /\ \/ phase' = [phase EXCEPT ![spawned] = "running"] /\ UNCHANGED inline
     \/ SpawnFailed
  /\ UNCHANGED <<arguments, workers, next, index, ordered, result>>

\* The caller takes up its lanes in order, each to its end.
StartInline ==
  /\ spawned = workers
  /\ \E lane \in inline :
       /\ phase[lane] = "waiting"
       /\ \A earlier \in inline : earlier < lane => phase[earlier] = "over"
       /\ phase' = [phase EXCEPT ![lane] = "running"]
  /\ UNCHANGED <<arguments, workers, next, spawned, inline, index, ordered, result>>

RunJob(lane) ==
  /\ phase[lane] = "running"
  /\ \/ /\ index[lane] >= count
        /\ phase' = [phase EXCEPT ![lane] = "over"]
        /\ UNCHANGED ordered
     \/ /\ index[lane] < count /\ behaves[index[lane]] # "unwind"
        /\ ordered' = [ordered EXCEPT ![index[lane]] = behaves[index[lane]]]
        /\ phase' = [phase EXCEPT ![lane] = "claiming"]
     \/ /\ index[lane] < count /\ behaves[index[lane]] = "unwind"
        /\ phase' = [phase EXCEPT ![lane] = "unwound"]
        /\ UNCHANGED ordered
  /\ UNCHANGED <<arguments, workers, next, spawned, inline, index, result>>

\* fetch_add
Claim(lane) ==
  /\ phase[lane] = "claiming"
  /\ index' = [index EXCEPT ![lane] = next]
  /\ next' = next + 1
  /\ phase' = [phase EXCEPT ![lane] = "running"]
  /\ UNCHANGED <<arguments, workers, spawned, inline, ordered, result>>

Ended(lane) == phase[lane] \in {"over", "unwound"}
UsedLane == 0 .. workers - 1
CallerUnwound == \E lane \in inline : phase[lane] = "unwound"
CallerEnded == CallerUnwound \/ \A lane \in inline : phase[lane] = "over"

\* The scope ends when every thread has, also when the caller unwinds.
Joined == CallerEnded /\ \A lane \in UsedLane \ inline : Ended(lane)

\* a slot nobody filled was left by a lane that unwound
Slot(i) == IF ordered[i] = "none" THEN "panic" ELSE ordered[i]

FirstFailure(i) == Slot(i) # "ok" /\ \A j \in 0 .. i - 1 : Slot(j) = "ok"

Return ==
  /\ result = NoResult /\ 0 < spawned /\ spawned = workers
  /\ Joined
  /\ \/ CallerUnwound /\ result' = Unwound
     \/ /\ ~CallerUnwound
        /\ \A i \in Job : Slot(i) = "ok"
        /\ result' = Values
     \/ /\ ~CallerUnwound
        /\ \E i \in Job : FirstFailure(i) /\ result' = ErrorAt(i, Slot(i))
  /\ UNCHANGED <<arguments, workers, next, spawned, inline, phase, index, ordered>>

Returned == result # NoResult /\ UNCHANGED vars

LaneStep(lane) == RunJob(lane) \/ Claim(lane)
CallerStep == Refuse \/ Begin \/ Spawn \/ StartInline \/ Return

Next == CallerStep \/ (\E lane \in Lane : LaneStep(lane)) \/ Returned

Spec == Init /\ [][Next]_vars

-----------------------------------------------------------------------------
(* Properties *)

\* Every variable has its type.
TypeOK ==
  /\ count \in 0 .. MaxCount /\ requested \in 0 .. MaxRequest
  /\ behaves \in [Job -> Behaviour]
  /\ workers \in 0 .. MaxWorkers
  /\ next \in Nat
  /\ spawned \in 0 .. workers
  /\ inline \subseteq Lane
  /\ phase \in [Lane -> Phase]
  /\ index \in [Lane -> Nat]
  /\ ordered \in [Job -> {"none", "ok", "error", "panic"}]
  /\ result.kind \in {"none", "capacity", "values", "unwound", "error", "panic"}

Holds(lane) == phase[lane] \in {"waiting", "running"}

\* run_bounded: no job is in the hands of two lanes, none is run again after
\* its result was stored, whatever lanes were spawned, refused or unwound.
JobsRunOnce ==
  spawned # 0 =>
    \A lane \in UsedLane : Holds(lane) /\ index[lane] < count =>
      /\ ordered[index[lane]] = "none"
      /\ \A other \in UsedLane :
           Holds(other) /\ index[other] = index[lane] => other = lane

\* "Join every child before propagating any error": when the call returns or
\* unwinds, no thread it started is still at work.
JoinedBeforeReturn ==
  result # NoResult =>
    \A lane \in Lane \ inline : phase[lane] = "waiting" \/ Ended(lane)

\* What the loop of the browser build returns for the same jobs: the values,
\* or the failure of the first job that fails.
SequentialResult ==
  \/ (\A i \in Job : behaves[i] = "ok") /\ result = Values
  \/ \E i \in Job :
       /\ behaves[i] # "ok" /\ \A j \in 0 .. i - 1 : behaves[j] = "ok"
       /\ result = ErrorAt(i, Stored(behaves[i]))

\* "Resource exhaustion changes execution speed, never frame semantics or the
\* original output order": the result is that of the jobs run in order,
\* unless the caller itself ran a job that unwinds.
ResultIsSequential ==
  result.kind \notin {"none", "capacity"} =>
    \/ SequentialResult
    \/ result = Unwound /\ \E i \in Job : behaves[i] = "unwind"

-----------------------------------------------------------------------------
(* The inductive invariant of the proofs *)

Fresh ==
  /\ workers = 0 /\ inline = {}
  /\ \A lane \in Lane : phase[lane] = "waiting" /\ index[lane] = lane
  /\ \A i \in Job : ordered[i] = "none"
  /\ result \in {NoResult, Capacity}

\* A job handed out is in the hands of one lane, lost with it, or stored.
HasJob(lane) == phase[lane] \in {"waiting", "running", "unwound"}

LaneInv(lane) ==
  /\ lane >= spawned => phase[lane] = "waiting"
  /\ phase[lane] = "waiting" =>
       index[lane] = lane /\ (lane < spawned => lane \in inline)
  /\ index[lane] < next
  /\ HasJob(lane) /\ index[lane] < count => ordered[index[lane]] = "none"
  /\ phase[lane] = "over" => index[lane] >= count
  /\ phase[lane] = "unwound" => index[lane] < count /\ behaves[index[lane]] = "unwind"

HandsApart ==
  \A lane, other \in UsedLane :
    HasJob(lane) /\ HasJob(other) /\ index[other] = index[lane] => other = lane

JobInv(i) ==
  /\ ordered[i] # "none" => ordered[i] = behaves[i] /\ i < next
  /\ i < next =>
       \/ ordered[i] # "none"
       \/ \E lane \in UsedLane : HasJob(lane) /\ index[lane] = i

\* run_bounded: from the first spawn to the return every job that was handed
\* out can be found, and no two lanes have the same.
PrepareInv ==
  /\ TypeOK
  /\ spawned = 0 => Fresh
  /\ spawned # 0 =>
       /\ workers <= next /\ 0 \in inline
       /\ \A lane \in inline : lane < spawned
       /\ \A lane \in UsedLane : LaneInv(lane)
       /\ \A lane \in Lane \ UsedLane : phase[lane] = "waiting"
       /\ HandsApart
       /\ \A i \in Job : JobInv(i)
       /\ result # Capacity
       /\ result # NoResult => Joined /\ ResultIsSequential
=============================================================================

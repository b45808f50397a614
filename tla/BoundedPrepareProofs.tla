------------------------ MODULE BoundedPrepareProofs ------------------------
(***************************************************************************)
(* For every number of jobs and workers the lanes of run_bounded run each  *)
(* job once and return what the jobs run in order would have returned.     *)
(***************************************************************************)
EXTENDS BoundedPrepare, TLAPS

\* The lanes of a call are lanes, the caller's own is among them.
LEMMA LaneFacts ==
  ASSUME TypeOK
  PROVE  /\ UsedLane \subseteq Lane
         /\ workers \in Nat /\ count \in Nat /\ spawned \in Nat /\ next \in Nat
         /\ Lane \subseteq Nat /\ Job \subseteq Nat
         /\ \A i \in Job : i < count
         /\ workers # 0 => 0 \in UsedLane
BY CapacityAssumption, RequestAssumption DEF TypeOK, UsedLane, Lane, Job

\* The lanes of a call are the numbers below the number of its workers.
LEMMA Below ==
  ASSUME NEW n \in Nat, NEW m \in Nat, n <= m
  PROVE  /\ 0 .. n - 1 \subseteq 0 .. m - 1
         /\ \A lane \in 0 .. n - 1 : lane \in Nat /\ lane < n
         /\ \A lane \in Nat : lane < n => lane \in 0 .. n - 1
OBVIOUS

\* Before the call nothing is handed out.
LEMMA PrepareInit == Init => PrepareInv
<1> SUFFICES ASSUME Init PROVE PrepareInv
  OBVIOUS
<1>1. TypeOK
  BY CapacityAssumption, RequestAssumption
  DEF Init, TypeOK, Phase, NoResult, Lane
<1> QED
  BY <1>1 DEF Init, PrepareInv, Fresh

\* A refused call starts nothing.
LEMMA RefuseKeeps ==
  ASSUME PrepareInv, Refuse
  PROVE  PrepareInv'
<1>1. TypeOK'
  BY DEF PrepareInv, TypeOK, Refuse, arguments, Capacity, Job
<1> QED
  BY <1>1 DEF PrepareInv, Refuse, Fresh, arguments, Job

\* The first jobs, one for each lane, are handed out and the cursor is behind them.
LEMMA BeginKeeps ==
  ASSUME PrepareInv, Begin
  PROVE  PrepareInv'
<1>1. /\ count \in Nat /\ requested \in Nat
      /\ workers' \in 1 .. MaxWorkers /\ next' = workers' /\ spawned' = 1
      /\ inline' = {0} /\ result = NoResult /\ Fresh
      /\ UNCHANGED <<arguments, phase, index, ordered, result>>
  BY CapacityAssumption, RequestAssumption
  DEF Begin, Refused, LaneCount, FirstShared, PrepareInv, TypeOK
<1>2. /\ 0 \in Lane /\ UsedLane' \subseteq Lane
      /\ \A lane \in UsedLane' : lane \in Nat /\ lane < next'
      /\ \A lane \in Nat : lane < next' => lane \in UsedLane'
  <2>1. 0 \in Lane
    BY CapacityAssumption DEF Lane
  <2>2. UsedLane' = 0 .. workers' - 1
    BY DEF UsedLane
  <2>3. workers' \in Nat /\ workers' <= MaxWorkers /\ MaxWorkers \in Nat
    BY <1>1, CapacityAssumption
  <2> QED
    BY <1>1, <2>1, <2>2, <2>3, Below DEF Lane
<1>3. TypeOK'
  BY <1>1, <1>2, CapacityAssumption DEF PrepareInv, TypeOK, arguments, Job
<1>4. ASSUME NEW lane \in UsedLane'
      PROVE  LaneInv(lane)'
  <2>1. lane \in Lane /\ lane \in Nat /\ lane < next' /\ (lane < 1 => lane = 0)
    BY <1>1, <1>2
  <2>2. phase'[lane] = "waiting" /\ index'[lane] = lane
    BY <1>1, <2>1 DEF Fresh
  <2>3. lane < count => ordered'[lane] = "none"
    BY <1>1, <2>1 DEF Fresh, Job
  <2> QED
    BY <1>1, <2>1, <2>2, <2>3 DEF LaneInv, arguments
<1>5. HandsApart'
  BY <1>1, <1>2 DEF HandsApart, Fresh
<1>6. ASSUME NEW i \in Job'
      PROVE  JobInv(i)'
  <2>1. ordered'[i] = "none" /\ i \in Nat
    BY <1>1 DEF Fresh, Job, arguments
  <2>2. i < next' => i \in UsedLane' /\ phase'[i] = "waiting" /\ index'[i] = i
    BY <1>1, <1>2, <2>1 DEF Fresh
  <2> QED
    BY <2>1, <2>2 DEF JobInv, HasJob
<1>7. \A lane \in (Lane \ UsedLane)' : phase'[lane] = "waiting"
  BY <1>1 DEF Fresh, Lane
<1>8. NoResult # Capacity
  BY DEF NoResult, Capacity
<1> QED
  BY <1>1, <1>3, <1>4, <1>5, <1>6, <1>7, <1>8 DEF PrepareInv

\* A lane whose thread starts, and one the caller keeps, has its first job still.
LEMMA SpawnKeeps ==
  ASSUME PrepareInv, Spawn
  PROVE  PrepareInv'
<1>1. /\ spawned # 0 /\ spawned \in UsedLane /\ spawned \in Lane /\ spawned \in Nat
      /\ spawned' = spawned + 1 /\ spawned' \in 0 .. workers
      /\ UNCHANGED <<arguments, workers, next, index, ordered, result>>
      /\ phase[spawned] = "waiting"
  BY LaneFacts, CapacityAssumption
  DEF Spawn, PrepareInv, TypeOK, UsedLane, LaneInv
<1>2. /\ phase' \in [Lane -> Phase] /\ inline' \subseteq Lane
      /\ inline \subseteq inline'
      /\ \A lane \in inline' : lane \in inline \/ lane = spawned
      /\ \A lane \in Lane : lane # spawned => phase'[lane] = phase[lane]
      /\ \/ phase'[spawned] = "running"
         \/ phase'[spawned] = "waiting" /\ spawned \in inline'
  BY <1>1 DEF Spawn, SpawnFailed, PrepareInv, TypeOK, Phase
<1>3. TypeOK'
  BY <1>1, <1>2 DEF PrepareInv, TypeOK, arguments, Job
<1>4. result = NoResult
  <2>1. spawned \notin inline /\ ~Ended(spawned)
    BY <1>1, LaneFacts DEF PrepareInv, Ended
  <2> QED
    BY <1>1, <2>1 DEF PrepareInv, Joined
<1>5. ASSUME NEW lane \in UsedLane
      PROVE  LaneInv(lane)'
  <2>1. LaneInv(lane) /\ lane \in Lane /\ lane \in Nat
    BY <1>1, LaneFacts DEF PrepareInv
  <2>2. CASE lane # spawned
    BY <1>1, <1>2, <2>1, <2>2 DEF LaneInv, HasJob, arguments
  <2>3. CASE lane = spawned
    BY <1>1, <1>2, <2>1, <2>3 DEF LaneInv, HasJob, arguments
  <2> QED
    BY <2>2, <2>3
<1>6. \A lane \in Lane : HasJob(lane)' <=> HasJob(lane)
  BY <1>1, <1>2 DEF HasJob
<1>7. UsedLane' = UsedLane /\ UsedLane \subseteq Lane /\ Job' = Job
  BY <1>1, LaneFacts DEF UsedLane, Job, PrepareInv, arguments
<1>8. HandsApart'
  BY <1>1, <1>6, <1>7 DEF HandsApart, PrepareInv
<1>9. \A i \in Job : JobInv(i)'
  BY <1>1, <1>6, <1>7 DEF JobInv, PrepareInv, arguments
<1>10. \A lane \in inline' : lane < spawned'
  BY <1>1, <1>2, LaneFacts DEF PrepareInv, TypeOK
<1> QED
  BY <1>1, <1>2, <1>3, <1>4, <1>5, <1>7, <1>8, <1>9, <1>10 DEF PrepareInv, NoResult, Capacity

\* The caller takes up a lane of its own.
LEMMA StartInlineKeeps ==
  ASSUME PrepareInv, StartInline
  PROVE  PrepareInv'
<1>1. PICK started \in inline :
        /\ phase[started] = "waiting"
        /\ \A earlier \in inline : earlier < started => phase[earlier] = "over"
        /\ phase' = [phase EXCEPT ![started] = "running"]
  BY DEF StartInline
<1>2. /\ started \in Lane /\ spawned # 0 /\ started < spawned
      /\ UNCHANGED <<arguments, workers, next, spawned, inline, index, ordered, result>>
  BY DEF StartInline, PrepareInv, TypeOK, Fresh
<1>3. /\ phase' \in [Lane -> Phase] /\ phase'[started] = "running"
      /\ \A lane \in Lane : lane # started => phase'[lane] = phase[lane]
  BY <1>1, <1>2 DEF PrepareInv, TypeOK, Phase
<1>4. TypeOK'
  BY <1>2, <1>3 DEF PrepareInv, TypeOK, arguments, Job
<1>5. /\ UsedLane' = UsedLane /\ UsedLane \subseteq Lane /\ Job' = Job
      /\ started \in UsedLane
  BY <1>2, LaneFacts DEF UsedLane, Job, PrepareInv, arguments, TypeOK, Lane
<1>6. \A lane \in Lane : HasJob(lane)' <=> HasJob(lane)
  BY <1>1, <1>2, <1>3 DEF HasJob
<1>7. ASSUME NEW lane \in UsedLane
      PROVE  LaneInv(lane)'
  <2>1. LaneInv(lane) /\ lane \in Lane /\ lane \in Nat
    BY <1>2, LaneFacts DEF PrepareInv
  <2> QED
    BY <1>1, <1>2, <1>3, <2>1, LaneFacts DEF LaneInv, HasJob, arguments, PrepareInv
<1>8. HandsApart'
  BY <1>2, <1>5, <1>6 DEF HandsApart, PrepareInv
<1>9. \A i \in Job : JobInv(i)'
  BY <1>2, <1>5, <1>6 DEF JobInv, PrepareInv, arguments
<1>10. result # NoResult => Joined' /\ ResultIsSequential'
  <2> SUFFICES ASSUME result # NoResult PROVE Joined' /\ ResultIsSequential'
    OBVIOUS
  <2>1. CallerUnwound
    BY <1>1, <1>2 DEF PrepareInv, Joined, CallerEnded
  <2>2. CallerUnwound'
    BY <1>1, <1>2, <1>3, <2>1 DEF CallerUnwound, PrepareInv, TypeOK
  <2>3. Joined'
    BY <1>1, <1>2, <1>3, <1>5, <2>2 DEF Joined, CallerEnded, Ended, PrepareInv
  <2> QED
    BY <1>2, <1>5, <2>3 DEF PrepareInv, ResultIsSequential, SequentialResult, arguments
<1> QED
  BY <1>2, <1>3, <1>4, <1>5, <1>7, <1>8, <1>9, <1>10 DEF PrepareInv

\* A job is run by the lane that has it and stored where nothing was stored.
LEMMA RunJobKeeps ==
  ASSUME PrepareInv, NEW lane \in Lane, RunJob(lane)
  PROVE  PrepareInv'
<1>1. /\ spawned # 0 /\ lane \in UsedLane /\ phase[lane] = "running"
      /\ UNCHANGED <<arguments, workers, next, spawned, inline, index, result>>
  BY DEF RunJob, PrepareInv, Fresh
<1>2. UsedLane' = UsedLane /\ UsedLane \subseteq Lane /\ Job' = Job
  BY <1>1, LaneFacts DEF UsedLane, Job, PrepareInv, arguments
<1>3. /\ index[lane] \in Nat /\ count \in Nat /\ index[lane] < next /\ LaneInv(lane)
      /\ index[lane] < count => index[lane] \in Job
  BY <1>1, LaneFacts DEF PrepareInv, TypeOK, LaneInv, Job
<1>4. /\ \A other \in Lane : other # lane => phase'[other] = phase[other]
      /\ phase' \in [Lane -> Phase]
  BY DEF RunJob, PrepareInv, TypeOK, Phase
<1>5. \/ /\ index[lane] >= count /\ phase'[lane] = "over" /\ ordered' = ordered
      \/ /\ index[lane] < count /\ phase'[lane] = "claiming"
         /\ behaves[index[lane]] # "unwind"
         /\ ordered' = [ordered EXCEPT ![index[lane]] = behaves[index[lane]]]
      \/ /\ index[lane] < count /\ phase'[lane] = "unwound" /\ ordered' = ordered
         /\ behaves[index[lane]] = "unwind"
  BY DEF RunJob, PrepareInv, TypeOK
<1>6. ordered' \in [Job -> {"none", "ok", "error", "panic"}]
  BY <1>3, <1>5 DEF PrepareInv, TypeOK, Behaviour
<1>7. TypeOK'
  BY <1>1, <1>2, <1>4, <1>6 DEF PrepareInv, TypeOK, arguments
<1>8. ASSUME NEW other \in UsedLane, other # lane
      PROVE  LaneInv(other)'
  <2>1. LaneInv(other) /\ other \in Lane /\ other \in Nat /\ phase'[other] = phase[other]
    BY <1>1, <1>2, <1>4, <1>8, LaneFacts DEF PrepareInv
  <2>2. HasJob(other) => index[other] # index[lane]
    BY <1>1, <1>8 DEF PrepareInv, HandsApart, HasJob
  <2>3. HasJob(other) /\ index[other] < count => ordered'[index[other]] = "none"
    <3> SUFFICES ASSUME HasJob(other), index[other] < count
                 PROVE  ordered'[index[other]] = "none"
      OBVIOUS
    <3>1. index[other] \in Job /\ ordered[index[other]] = "none"
      BY <2>1, LaneFacts DEF LaneInv, Job, PrepareInv, TypeOK
    <3> QED
      BY <1>3, <1>5, <2>2, <3>1 DEF PrepareInv, TypeOK
  <2> QED
    BY <1>1, <2>1, <2>3 DEF LaneInv, HasJob, arguments
<1>9. LaneInv(lane)'
  BY <1>1, <1>3, <1>5 DEF LaneInv, HasJob, arguments
<1>10. HandsApart'
  BY <1>1, <1>2, <1>4, <1>5 DEF HandsApart, PrepareInv, HasJob
<1>11. ASSUME NEW i \in Job
       PROVE  JobInv(i)'
  <2>1. JobInv(i)
    BY <1>1 DEF PrepareInv
  <2>2. CASE i = index[lane]
    <3>1. i < count /\ i < next /\ i \in Nat
      BY <1>3, <2>2, LaneFacts DEF PrepareInv
    <3>2. CASE phase'[lane] = "claiming"
      <4>1. ordered'[i] = behaves[i]
        BY <1>5, <2>2, <3>2 DEF PrepareInv, TypeOK
      <4>2. behaves[i] # "none"
        BY DEF PrepareInv, TypeOK, Behaviour
      <4> QED
        BY <1>1, <3>1, <4>1, <4>2 DEF JobInv, arguments
    <3>3. CASE phase'[lane] = "unwound"
      <4>1. ordered' = ordered
        BY <1>5, <3>3
      <4> QED
        BY <1>1, <1>2, <2>1, <2>2, <3>1, <3>3, <4>1 DEF JobInv, arguments, HasJob
    <3> QED
      BY <1>3, <1>5, <2>2, <3>1, <3>2, <3>3
  <2>3. CASE i # index[lane]
    <3>1. ordered'[i] = ordered[i]
      BY <1>3, <1>5, <2>3 DEF PrepareInv, TypeOK
    <3> QED
      BY <1>1, <1>2, <1>4, <2>1, <2>3, <3>1 DEF JobInv, arguments, HasJob
  <2> QED
    BY <2>2, <2>3
<1>12. \A other \in Lane \ UsedLane : phase'[other] = "waiting"
  BY <1>1, <1>4 DEF PrepareInv
<1>13. result # NoResult => Joined' /\ ResultIsSequential'
  <2> SUFFICES ASSUME result # NoResult PROVE Joined' /\ ResultIsSequential'
    OBVIOUS
  <2>1. Joined /\ lane \in inline /\ CallerUnwound
    BY <1>1 DEF PrepareInv, Joined, CallerEnded, Ended
  <2>2. CallerUnwound'
    BY <1>1, <1>4, <2>1 DEF CallerUnwound, PrepareInv, TypeOK
  <2>3. \A other \in UsedLane \ inline : Ended(other)'
    BY <1>1, <1>2, <1>4, <2>1 DEF Joined, Ended
  <2>4. Joined'
    BY <1>1, <1>2, <2>2, <2>3 DEF Joined, CallerEnded
  <2> QED
    BY <1>1, <1>2, <2>4 DEF PrepareInv, ResultIsSequential, SequentialResult, arguments
<1> QED
  BY <1>1, <1>2, <1>7, <1>8, <1>9, <1>10, <1>11, <1>12, <1>13 DEF PrepareInv

\* The cursor hands a lane a job that no lane ever had.
LEMMA ClaimKeeps ==
  ASSUME PrepareInv, NEW lane \in Lane, Claim(lane)
  PROVE  PrepareInv'
<1>1. /\ spawned # 0 /\ lane \in UsedLane /\ phase[lane] = "claiming" /\ next' = next + 1
      /\ UNCHANGED <<arguments, workers, spawned, inline, ordered, result>>
      /\ next \in Nat /\ count \in Nat
  BY LaneFacts DEF Claim, PrepareInv, Fresh
<1>2. UsedLane' = UsedLane /\ UsedLane \subseteq Lane /\ Job' = Job
  BY <1>1, LaneFacts DEF UsedLane, Job, PrepareInv, arguments
<1>3. /\ \A other \in Lane : other # lane =>
           phase'[other] = phase[other] /\ index'[other] = index[other]
      /\ phase'[lane] = "running" /\ index'[lane] = next
      /\ phase' \in [Lane -> Phase] /\ index' \in [Lane -> Nat]
  BY <1>1 DEF Claim, PrepareInv, TypeOK, Phase
<1>4. TypeOK'
  BY <1>1, <1>2, <1>3 DEF PrepareInv, TypeOK, arguments
<1>5. ASSUME NEW other \in UsedLane, other # lane
      PROVE  LaneInv(other)'
  <2>1. /\ LaneInv(other) /\ other \in Lane /\ other \in Nat
        /\ index[other] \in Nat
    BY <1>1, <1>2, LaneFacts DEF PrepareInv, TypeOK
  <2> QED
    BY <1>1, <1>3, <1>5, <2>1 DEF LaneInv, HasJob, arguments
<1>6. LaneInv(lane)'
  <2>1. next < count => next \in Job /\ ordered[next] = "none"
    BY <1>1 DEF PrepareInv, JobInv, Job
  <2>2. LaneInv(lane) /\ lane \in Nat /\ spawned \in Nat
    BY <1>1, <1>2, LaneFacts DEF PrepareInv
  <2> QED
    BY <1>1, <1>3, <2>1, <2>2 DEF LaneInv, arguments
<1>7. HandsApart'
  <2>1. \A other \in UsedLane : index[other] < next /\ index[other] \in Nat
    BY <1>1, <1>2 DEF PrepareInv, LaneInv, TypeOK
  <2> QED
    BY <1>1, <1>2, <1>3, <2>1 DEF HandsApart, PrepareInv, HasJob
<1>8. ASSUME NEW i \in Job
      PROVE  JobInv(i)'
  <2>1. JobInv(i) /\ i \in Nat
    BY <1>1, LaneFacts DEF PrepareInv
  <2>2. CASE i = next
    <3>1. lane \in UsedLane' /\ HasJob(lane)' /\ index'[lane] = i
      BY <1>1, <1>2, <1>3, <2>2 DEF HasJob
    <3>2. ordered'[i] = "none"
      BY <1>1, <2>1, <2>2 DEF JobInv
    <3> QED
      BY <3>1, <3>2 DEF JobInv
  <2>3. CASE i # next
    <3>1. i < next' <=> i < next
      BY <1>1, <2>1, <2>3
    <3>2. \A other \in UsedLane : HasJob(other) =>
            HasJob(other)' /\ index'[other] = index[other]
      BY <1>1, <1>2, <1>3 DEF HasJob
    <3> QED
      BY <1>1, <1>2, <2>1, <3>1, <3>2 DEF JobInv, arguments
  <2> QED
    BY <2>2, <2>3
<1>9. \A other \in Lane \ UsedLane : phase'[other] = "waiting"
  BY <1>1, <1>3 DEF PrepareInv
<1>10. result # NoResult => Joined' /\ ResultIsSequential'
  <2> SUFFICES ASSUME result # NoResult PROVE Joined' /\ ResultIsSequential'
    OBVIOUS
  <2>1. Joined /\ lane \in inline /\ CallerUnwound
    BY <1>1 DEF PrepareInv, Joined, CallerEnded, Ended
  <2>2. CallerUnwound'
    BY <1>1, <1>3, <2>1 DEF CallerUnwound, PrepareInv, TypeOK
  <2>3. \A other \in UsedLane \ inline : Ended(other)'
    BY <1>1, <1>2, <1>3, <2>1 DEF Joined, Ended
  <2>4. Joined'
    BY <1>1, <1>2, <2>2, <2>3 DEF Joined, CallerEnded
  <2> QED
    BY <1>1, <1>2, <2>4 DEF PrepareInv, ResultIsSequential, SequentialResult, arguments
<1>11. workers' <= next'
  BY <1>1, LaneFacts DEF PrepareInv
<1> QED
  BY <1>1, <1>2, <1>4, <1>5, <1>6, <1>7, <1>8, <1>9, <1>10, <1>11 DEF PrepareInv

\* When every lane ended, every slot tells what its job did.
LEMMA SlotsAtTheEnd ==
  ASSUME PrepareInv, spawned # 0, Joined, ~CallerUnwound
  PROVE  \A i \in Job : Slot(i) = Stored(behaves[i])
<1> SUFFICES ASSUME NEW i \in Job PROVE Slot(i) = Stored(behaves[i])
  OBVIOUS
<1>1. /\ 0 \in inline /\ 0 \in UsedLane /\ phase[0] = "over" /\ LaneInv(0)
      /\ index[0] \in Nat
  BY LaneFacts DEF PrepareInv, Joined, CallerEnded, TypeOK
<1>2. i < next
  BY <1>1, LaneFacts DEF LaneInv, PrepareInv
<1>3. /\ ordered[i] # "none" => ordered[i] = behaves[i]
      /\ \/ ordered[i] # "none"
         \/ \E lane \in UsedLane : HasJob(lane) /\ index[lane] = i
  BY <1>2 DEF PrepareInv, JobInv
<1>4. behaves[i] \in Behaviour /\ ordered[i] \in {"none", "ok", "error", "panic"}
  BY DEF PrepareInv, TypeOK
<1>5. CASE ordered[i] # "none"
  BY <1>3, <1>4, <1>5 DEF Slot, Stored
<1>6. CASE ordered[i] = "none"
  <2>1. PICK lane \in UsedLane : HasJob(lane) /\ index[lane] = i
    BY <1>3, <1>6
  <2>2. phase[lane] \in {"over", "unwound"}
    BY <2>1 DEF Joined, CallerEnded, Ended
  <2>3. behaves[i] = "unwind"
    BY <2>1, <2>2 DEF HasJob, LaneInv, PrepareInv
  <2> QED
    BY <1>6, <2>3 DEF Slot, Stored
<1> QED
  BY <1>5, <1>6

\* What the call returns is what the jobs run in order return.
LEMMA ReturnKeeps ==
  ASSUME PrepareInv, Return
  PROVE  PrepareInv'
<1>1. /\ spawned # 0 /\ Joined
      /\ UNCHANGED <<arguments, workers, next, spawned, inline, phase, index, ordered>>
      /\ Job' = Job /\ UsedLane' = UsedLane
  BY LaneFacts DEF Return, PrepareInv, arguments, Job, UsedLane
<1>2. Joined'
  BY <1>1 DEF Joined, CallerEnded, CallerUnwound, Ended
<1>3. ASSUME CallerUnwound, result' = Unwound PROVE ResultIsSequential'
  <2>1. PICK lane \in inline : phase[lane] = "unwound"
    BY <1>3 DEF CallerUnwound
  <2>2. lane \in UsedLane
    BY <1>1, LaneFacts DEF PrepareInv, TypeOK, UsedLane
  <2>3. index[lane] \in Job /\ behaves[index[lane]] = "unwind"
    BY <1>1, <2>1, <2>2, LaneFacts DEF PrepareInv, LaneInv, TypeOK, Job
  <2> QED
    BY <1>1, <1>3, <2>3 DEF ResultIsSequential, arguments
<1>4. ASSUME ~CallerUnwound PROVE ResultIsSequential'
  <2>1. \A i \in Job : Slot(i) = Stored(behaves[i])
    BY <1>1, <1>4, SlotsAtTheEnd
  <2>2. \A i \in Job : Slot(i) = "ok" <=> behaves[i] = "ok"
    BY <2>1 DEF Stored
  <2>3. CASE (\A i \in Job : Slot(i) = "ok") /\ result' = Values
    BY <1>1, <2>2, <2>3 DEF ResultIsSequential, SequentialResult, arguments
  <2>4. CASE \E i \in Job : FirstFailure(i) /\ result' = ErrorAt(i, Slot(i))
    <3>1. PICK i \in Job : FirstFailure(i) /\ result' = ErrorAt(i, Slot(i))
      BY <2>4
    <3>2. \A j \in 0 .. i - 1 : j \in Job
      BY LaneFacts DEF Job, PrepareInv
    <3>3. /\ behaves[i] # "ok" /\ \A j \in 0 .. i - 1 : behaves[j] = "ok"
          /\ result' = ErrorAt(i, Stored(behaves[i]))
      BY <2>1, <2>2, <3>1, <3>2 DEF FirstFailure
    <3> QED
      BY <1>1, <3>3 DEF ResultIsSequential, SequentialResult, arguments
  <2> QED
    BY <1>4, <2>3, <2>4 DEF Return
<1>5. ResultIsSequential'
  BY <1>3, <1>4 DEF Return
<1>6. result'.kind \in {"none", "capacity", "values", "unwound", "error", "panic"}
  <2>1. \A i \in Job : Slot(i) # "ok" => Slot(i) \in {"error", "panic"}
    BY DEF Slot, PrepareInv, TypeOK
  <2> QED
    BY <2>1 DEF Return, Unwound, Values, ErrorAt, FirstFailure
<1>7. TypeOK'
  BY <1>1, <1>6 DEF PrepareInv, TypeOK, arguments
<1>8. result' # Capacity
  <2>1. \A i \in Job : Slot(i) # "capacity"
    BY DEF Slot, PrepareInv, TypeOK
  <2> QED
    BY <2>1 DEF Return, Unwound, Values, ErrorAt, Capacity
<1>9. HandsApart' /\ \A i \in Job : JobInv(i)'
  BY <1>1 DEF PrepareInv, HandsApart, JobInv, HasJob, arguments
<1>10. \A lane \in UsedLane : LaneInv(lane)'
  BY <1>1 DEF PrepareInv, LaneInv, HasJob, arguments
<1> QED
  BY <1>1, <1>2, <1>5, <1>7, <1>8, <1>9, <1>10 DEF PrepareInv

\* Every step of the caller and of the lanes preserves the inductive invariant.
LEMMA PrepareNext ==
  ASSUME PrepareInv, [Next]_vars
  PROVE  PrepareInv'
<1>1. CASE UNCHANGED vars
  BY <1>1
  DEF vars, arguments, PrepareInv, TypeOK, Fresh, LaneInv, HandsApart, JobInv, HasJob,
      Joined, CallerEnded, CallerUnwound, Ended, ResultIsSequential, SequentialResult,
      Job, UsedLane
<1>2. CASE Next
  BY <1>1, <1>2, RefuseKeeps, BeginKeeps, SpawnKeeps, StartInlineKeeps, RunJobKeeps,
    ClaimKeeps, ReturnKeeps
  DEF Next, CallerStep, LaneStep, Returned
<1> QED
  BY <1>1, <1>2

\* run_bounded: every job handed out can be found, no two lanes have the same.
THEOREM PrepareInvAlways == Spec => []PrepareInv
BY PrepareInit, PrepareNext, PTL DEF Spec

\* No job is run by two lanes or twice, whatever lanes were refused or unwound.
THEOREM JobsAlwaysRunOnce == Spec => []JobsRunOnce
<1>1. PrepareInv => JobsRunOnce
  BY DEF PrepareInv, JobsRunOnce, HandsApart, LaneInv, HasJob, Holds
<1> QED
  BY <1>1, PrepareInvAlways, PTL

\* When the call returns or unwinds, no thread it started is still at work.
THEOREM AlwaysJoinedBeforeReturn == Spec => []JoinedBeforeReturn
<1>1. PrepareInv => JoinedBeforeReturn
  BY DEF PrepareInv, JoinedBeforeReturn, Joined, Fresh
<1> QED
  BY <1>1, PrepareInvAlways, PTL

\* The result is that of the jobs run in order, whatever was spawned.
THEOREM ResultAlwaysSequential == Spec => []ResultIsSequential
<1>1. PrepareInv => ResultIsSequential
  <2> SUFFICES ASSUME PrepareInv PROVE ResultIsSequential
    OBVIOUS
  <2>1. CASE spawned = 0
    BY <2>1 DEF PrepareInv, Fresh, ResultIsSequential, NoResult, Capacity
  <2>2. CASE spawned # 0 /\ result # NoResult
    BY <2>2 DEF PrepareInv
  <2>3. CASE result = NoResult
    BY <2>3 DEF ResultIsSequential, NoResult
  <2> QED
    BY <2>1, <2>2, <2>3
<1> QED
  BY <1>1, PrepareInvAlways, PTL
=============================================================================

------------------------- MODULE RenderWorkerProofs -------------------------
(***************************************************************************)
(* RenderWorkerInvariant!Inv is an inductive invariant of RenderWorker for *)
(* every capacity, limit and bound, and implies its safety properties;     *)
(* with ShutdownInv, which is inductive beside it, it implies the clean    *)
(* stop and the refinement of FrameService, and with BacklogInv the bound  *)
(* of the event channel.                                                   *)
(***************************************************************************)
EXTENDS RenderWorkerInvariant, SequenceTheorems, FiniteSetTheorems, TLAPS

-----------------------------------------------------------------------------
(* Runs: what the two channels have in common *)

\* The count a message carries is a natural number bounded by the frames.
LEMMA MessageCount ==
  ASSUME NEW message \in Message
  PROVE  /\ FrameCount(message) \in 0 .. MaxFrame
         /\ IsFrame(message) => /\ FrameCount(message) = message.frame
                                /\ message.frame \in 1 .. MaxFrame
         /\ IsFrame(message) \in BOOLEAN
         /\ Step(message) \in 0 .. 1
BY BoundAssumption DEF Message, RenderThreadCommand, RenderWorkerEvent, FrameCommand,
     FenceCommand, RenderFence, FenceResult, WorkerReport, FrameCount, IsFrame, Step

\* An empty queue is a run from any number.
LEMMA RunEmpty ==
  ASSUME NEW from \in Nat
  PROVE  Run(<< >>, from) /\ LastCount(<< >>, from) = from
BY DEF Run, LastCount, FramesOf

\* The end of a run is never before its beginning.
LEMMA RunEnd ==
  ASSUME NEW from \in Nat, NEW queue \in Seq(Message), Run(queue, from)
  PROVE  /\ LastCount(queue, from) \in Nat
         /\ from <= LastCount(queue, from)
         /\ \A i \in 1 .. Len(queue) :
              /\ FrameCount(queue[i]) \in Nat
              /\ from + Step(queue[i]) <= FrameCount(queue[i])
              /\ FrameCount(queue[i]) <= LastCount(queue, from)
<1>1. \A i \in 1 .. Len(queue) : queue[i] \in Message
  BY ElementOfSeq
<1>2. \A i \in 1 .. Len(queue) :
        /\ FrameCount(queue[i]) \in Nat
        /\ Step(queue[i]) \in 0 .. 1
  BY <1>1, MessageCount
<1>3. \A i \in 1 .. Len(queue) : from + Step(queue[i]) <= FrameCount(queue[i])
  <2> SUFFICES ASSUME NEW i \in 1 .. Len(queue)
               PROVE  from + Step(queue[i]) <= FrameCount(queue[i])
    OBVIOUS
  <2>1. Len(queue) \in Nat /\ 1 \in 1 .. Len(queue)
    BY LenProperties
  <2>2. FrameCount(queue[1]) = from + Step(queue[1])
    BY <2>1 DEF Run
  <2>3. i # 1 => FrameCount(queue[1]) + Step(queue[i]) <= FrameCount(queue[i])
    BY <2>1 DEF Run
  <2>4. /\ FrameCount(queue[1]) \in Nat /\ FrameCount(queue[i]) \in Nat
        /\ Step(queue[1]) \in 0 .. 1 /\ Step(queue[i]) \in 0 .. 1
    BY <1>2, <2>1
  <2>5. CASE i = 1
    BY <2>2, <2>4, <2>5
  <2>6. CASE i # 1
    BY <2>2, <2>3, <2>4, <2>6
  <2> QED
    BY <2>5, <2>6
<1>4. \A i \in 1 .. Len(queue) : FrameCount(queue[i]) <= LastCount(queue, from)
  <2> SUFFICES ASSUME NEW i \in 1 .. Len(queue)
               PROVE  FrameCount(queue[i]) <= LastCount(queue, from)
    OBVIOUS
  <2>1. Len(queue) \in Nat /\ Len(queue) \in 1 .. Len(queue) /\ queue # << >>
    BY LenProperties, EmptySeq
  <2>2. LastCount(queue, from) = FrameCount(queue[Len(queue)])
    BY <2>1 DEF LastCount
  <2>3. i # Len(queue) => FrameCount(queue[i]) + Step(queue[Len(queue)])
                            <= FrameCount(queue[Len(queue)])
    BY <2>1 DEF Run
  <2> QED
    BY <1>2, <2>1, <2>2, <2>3
<1>5. queue # << >> => Len(queue) \in 1 .. Len(queue)
  BY EmptySeq, LenProperties
<1> QED
  BY <1>2, <1>3, <1>4, <1>5 DEF LastCount

\* A message that counts on from the end extends the run.
LEMMA RunAppend ==
  ASSUME NEW from \in Nat, NEW queue \in Seq(Message), Run(queue, from),
         NEW message \in Message,
         FrameCount(message) = LastCount(queue, from) + Step(message)
  PROVE  /\ Run(Append(queue, message), from)
         /\ LastCount(Append(queue, message), from) = FrameCount(message)
<1> DEFINE longer == Append(queue, message)
<1>1. /\ Len(queue) \in Nat /\ Len(longer) = Len(queue) + 1
      /\ longer # << >>
      /\ \A i \in 1 .. Len(queue) : longer[i] = queue[i]
      /\ longer[Len(queue) + 1] = message
  BY AppendProperties, LenProperties
<1>2. \A i \in 1 .. Len(queue) : queue[i] \in Message
  BY ElementOfSeq
<1>3. /\ LastCount(queue, from) \in Nat
      /\ from <= LastCount(queue, from)
      /\ \A i \in 1 .. Len(queue) :
           /\ FrameCount(queue[i]) \in Nat
           /\ FrameCount(queue[i]) <= LastCount(queue, from)
  BY RunEnd
<1>4. FrameCount(message) \in Nat /\ Step(message) \in 0 .. 1
  BY MessageCount
<1>5. LastCount(longer, from) = FrameCount(message)
  BY <1>1 DEF LastCount
<1>6. ASSUME NEW i \in 1 .. Len(longer)
      PROVE  FrameCount(longer[i]) =
               (IF i = 1 THEN from ELSE FrameCount(longer[i - 1])) + Step(longer[i])
  <2>1. CASE i \in 1 .. Len(queue)
    <3>1. i # 1 => i - 1 \in 1 .. Len(queue)
      BY <1>1, <2>1
    <3> QED
      BY <1>1, <2>1, <3>1 DEF Run
  <2>2. CASE i = Len(queue) + 1 /\ i = 1
    <3>1. queue = << >>
      BY <1>1, <2>2, EmptySeq
    <3> QED
      BY <1>1, <2>2, <3>1 DEF LastCount
  <2>3. CASE i = Len(queue) + 1 /\ i # 1
    <3>1. queue # << >> /\ i - 1 = Len(queue) /\ i - 1 \in 1 .. Len(queue)
      BY <1>1, <2>3, EmptySeq
    <3> QED
      BY <1>1, <2>3, <3>1 DEF LastCount
  <2> QED
    BY <1>1, <2>1, <2>2, <2>3
<1>7. ASSUME NEW i \in 1 .. Len(longer), NEW j \in 1 .. Len(longer), i < j
      PROVE  FrameCount(longer[i]) + Step(longer[j]) <= FrameCount(longer[j])
  <2>1. i \in 1 .. Len(queue)
    BY <1>1, <1>7
  <2>2. CASE j \in 1 .. Len(queue)
    BY <1>1, <1>7, <2>1, <2>2 DEF Run
  <2>3. CASE j = Len(queue) + 1
    BY <1>1, <1>3, <1>4, <2>1, <2>3
  <2> QED
    BY <1>1, <2>2, <2>3
<1>8. FramesOf(longer) = from + 1 .. FrameCount(message)
  <2>1. FramesOf(longer) =
          FramesOf(queue) \cup (IF IsFrame(message) THEN {message.frame} ELSE {})
    BY <1>1 DEF FramesOf
  <2>2. FramesOf(queue) = from + 1 .. LastCount(queue, from)
    BY DEF Run
  <2>3. CASE IsFrame(message)
    BY <1>3, <2>1, <2>2, <2>3, MessageCount DEF Step
  <2>4. CASE ~IsFrame(message)
    BY <1>3, <2>1, <2>2, <2>4 DEF Step
  <2> QED
    BY <2>3, <2>4
<1> QED
  BY <1>5, <1>6, <1>7, <1>8 DEF Run

\* The first message counts on from the beginning, the rest from the first.
LEMMA RunTail ==
  ASSUME NEW from \in Nat, NEW queue \in Seq(Message), Run(queue, from),
         queue # << >>
  PROVE  /\ FrameCount(Head(queue)) = from + Step(Head(queue))
         /\ Run(Tail(queue), FrameCount(Head(queue)))
         /\ LastCount(Tail(queue), FrameCount(Head(queue))) = LastCount(queue, from)
<1> DEFINE rest == Tail(queue)
           count == FrameCount(Head(queue))
<1>1. /\ Len(queue) \in Nat \ {0} /\ Len(rest) = Len(queue) - 1
      /\ Head(queue) = queue[1]
      /\ \A i \in 1 .. Len(rest) : rest[i] = queue[i + 1]
      /\ rest \in Seq(Message)
  BY HeadTailProperties, EmptySeq
<1>2. \A i \in 1 .. Len(queue) : queue[i] \in Message
  BY ElementOfSeq
<1>3. \A i \in 1 .. Len(queue) :
        /\ FrameCount(queue[i]) \in Nat
        /\ Step(queue[i]) \in 0 .. 1
        /\ IsFrame(queue[i]) => queue[i].frame = FrameCount(queue[i])
  BY <1>2, MessageCount
<1>4. count = from + Step(Head(queue))
  BY <1>1 DEF Run
<1>5. LastCount(rest, count) = LastCount(queue, from)
  <2>1. CASE Len(queue) = 1
    <3>1. Len(rest) = 0 /\ rest \in Seq(Message)
      BY <1>1, <2>1
    <3>2. rest = << >>
      BY <3>1, EmptySeq
    <3> QED
      BY <1>1, <2>1, <3>2 DEF LastCount
  <2>2. CASE Len(queue) # 1
    <3>0. Len(rest) \in Nat \ {0}
      BY <1>1, <2>2
    <3>1. rest # << >>
      <4>1. Len(<< >>) = 0
        OBVIOUS
      <4> HIDE DEF rest
      <4> QED
        BY <3>0, <4>1
    <3>2. rest[Len(rest)] = queue[Len(rest) + 1]
      BY <1>1, <3>0
    <3>3. Len(rest) + 1 = Len(queue)
      BY <1>1
    <3> QED
      BY <3>1, <3>2, <3>3 DEF LastCount
  <2> QED
    BY <2>1, <2>2
<1>6. ASSUME NEW i \in 1 .. Len(rest)
      PROVE  FrameCount(rest[i]) =
               (IF i = 1 THEN count ELSE FrameCount(rest[i - 1])) + Step(rest[i])
  <2>1. i + 1 \in 1 .. Len(queue) /\ i + 1 # 1 /\ (i + 1) - 1 = i
    BY <1>1
  <2>2. FrameCount(queue[i + 1]) = FrameCount(queue[i]) + Step(queue[i + 1])
    BY <2>1 DEF Run
  <2>3. rest[i] = queue[i + 1]
    BY <1>1
  <2>4. i # 1 => rest[i - 1] = queue[i]
    <3>1. i # 1 => i - 1 \in 1 .. Len(rest) /\ (i - 1) + 1 = i
      BY <1>1
    <3> QED
      BY <1>1, <3>1
  <2> QED
    BY <1>1, <2>2, <2>3, <2>4
<1>7. ASSUME NEW i \in 1 .. Len(rest), NEW j \in 1 .. Len(rest), i < j
      PROVE  FrameCount(rest[i]) + Step(rest[j]) <= FrameCount(rest[j])
  <2>1. /\ i + 1 \in 1 .. Len(queue) /\ j + 1 \in 1 .. Len(queue)
        /\ i + 1 < j + 1
    BY <1>1, <1>7
  <2> QED
    BY <1>1, <2>1 DEF Run
<1>8. FramesOf(rest) = count + 1 .. LastCount(rest, count)
  <2>1. FramesOf(queue) = from + 1 .. LastCount(queue, from)
    BY DEF Run
  <2>2. FramesOf(queue) =
          FramesOf(rest) \cup (IF IsFrame(queue[1]) THEN {queue[1].frame} ELSE {})
    <3>1. \A i \in 1 .. Len(queue) : i = 1 \/ i - 1 \in 1 .. Len(rest)
      BY <1>1
    <3>2. \A i \in 2 .. Len(queue) : i - 1 \in 1 .. Len(rest) /\ queue[i] = rest[i - 1]
      BY <1>1
    <3>3. \A i \in 1 .. Len(rest) : i + 1 \in 1 .. Len(queue) /\ rest[i] = queue[i + 1]
      BY <1>1
    <3>4. 1 \in 1 .. Len(queue)
      BY <1>1
    <3>5. ASSUME NEW f \in FramesOf(queue)
          PROVE  \/ f \in FramesOf(rest)
                 \/ IsFrame(queue[1]) /\ f = queue[1].frame
      <4>1. PICK i \in 1 .. Len(queue) : IsFrame(queue[i]) /\ f = queue[i].frame
        BY DEF FramesOf
      <4>2. CASE i = 1
        BY <4>1, <4>2
      <4>3. CASE i # 1
        <5>1. i - 1 \in 1 .. Len(rest) /\ queue[i] = rest[i - 1]
          BY <1>1, <4>3
        <5> QED
          BY <4>1, <5>1 DEF FramesOf
      <4> QED
        BY <4>2, <4>3
    <3>6. FramesOf(rest) \subseteq FramesOf(queue)
      BY <1>1, <3>3 DEF FramesOf
    <3>7. IsFrame(queue[1]) => queue[1].frame \in FramesOf(queue)
      BY <3>4 DEF FramesOf
    <3> QED
      BY <3>5, <3>6, <3>7
  <2>3. \A f \in FramesOf(rest) : f \in Nat /\ count < f
    <3>1. \A i \in 1 .. Len(rest) :
            /\ i + 1 \in 1 .. Len(queue) /\ 1 < i + 1 /\ 1 \in 1 .. Len(queue)
            /\ rest[i] = queue[i + 1]
      BY <1>1
    <3>2. \A i \in 1 .. Len(rest) :
            count + Step(rest[i]) <= FrameCount(rest[i])
      BY <1>1, <3>1 DEF Run
    <3>3. \A i \in 1 .. Len(rest) : IsFrame(rest[i]) =>
            rest[i].frame = FrameCount(rest[i]) /\ FrameCount(rest[i]) \in Nat
              /\ Step(rest[i]) = 1
      BY <1>3, <3>1 DEF Step
    <3>4. count \in Nat
      BY <1>1, <1>3
    <3> QED
      BY <3>2, <3>3, <3>4 DEF FramesOf
  <2>4. LastCount(queue, from) \in Nat /\ count \in Nat
    BY <1>1, <1>3, RunEnd
  <2>5. CASE IsFrame(queue[1])
    <3>1. queue[1].frame = count /\ count = from + 1
      BY <1>1, <1>3, <1>4, <2>5 DEF Step
    <3>2. FramesOf(queue) = count .. LastCount(queue, from)
      BY <2>1, <3>1
    <3>3. FramesOf(rest) = FramesOf(queue) \ {count}
      BY <1>1, <2>2, <2>3, <2>4, <2>5, <3>1
    <3>4. count .. LastCount(queue, from) \ {count}
            = count + 1 .. LastCount(queue, from)
      BY <2>4
    <3> QED
      BY <1>5, <3>2, <3>3, <3>4
  <2>6. CASE ~IsFrame(queue[1])
    <3>1. count = from
      BY <1>1, <1>4, <2>6 DEF Step
    <3> QED
      BY <1>1, <1>5, <2>1, <2>2, <2>6, <3>1
  <2> QED
    BY <2>5, <2>6
<1> QED
  BY <1>4, <1>5, <1>6, <1>7, <1>8 DEF Run

-----------------------------------------------------------------------------
(* What a step leaves alone *)

\* Both channels carry messages.
LEMMA QueueTypes ==
  ASSUME TypeOK
  PROVE  /\ events \in Seq(Message) /\ commands \in Seq(Message)
         /\ Completed \in Nat /\ Sent \in Nat /\ frames_admitted \in Nat
         /\ \A i \in 1 .. Len(events) : events[i] \in RenderWorkerEvent
         /\ taken # NoCommand => taken \in Message /\ taken \in RenderThreadCommand
         /\ (taken.kind = "SubmitFrame") => taken \in FrameCommand
<1>1. events \in Seq(RenderWorkerEvent) /\ commands \in Seq(RenderThreadCommand)
  BY DEF TypeOK
<1>2. events \in Seq(Message) /\ commands \in Seq(Message)
  BY <1>1, SeqMonotonic DEF Message
<1>3. \A i \in 1 .. Len(events) : events[i] \in RenderWorkerEvent
  BY <1>1, ElementOfSeq
<1>4. Completed \in Nat /\ Sent \in Nat /\ frames_admitted \in Nat
  BY BoundAssumption DEF TypeOK, Completed, Sent, HandleReport, WorkerReport
<1>5. taken \in RenderThreadCommand \cup {NoCommand}
  BY DEF TypeOK
<1>6. (taken.kind = "SubmitFrame") => taken \in FrameCommand
  BY <1>5 DEF RenderThreadCommand, FenceCommand, NoCommand
<1> QED
  BY <1>2, <1>3, <1>4, <1>5, <1>6 DEF Message

\* A step that sends nothing and receives nothing.
LEMMA EventsKept ==
  ASSUME TypeOK, EventChain, EventFacts,
         events' = events, Completed' = Completed, Sent' = Sent,
         frames_admitted' \in Nat, frames_admitted <= frames_admitted',
         \A n \in 0 .. frames_admitted : index_of'[n] = index_of[n],
         CommandSenderAlive' => CommandSenderAlive
  PROVE  EventChain' /\ EventFacts'
<1>1. EventChain'
  BY DEF EventChain
<1>2. ASSUME NEW i \in 1 .. Len(events), EventHolds(events[i])
      PROVE  EventHolds(events[i])'
  <2>1. events[i] \in RenderWorkerEvent
    BY QueueTypes
  <2>2. FrameCount(events[i]) \in Nat
    BY <2>1, MessageCount DEF Message
  <2>3. events[i].kind = "WorkerReport" =>
          events[i].report.last_submitted_frame \in Nat
    BY <2>1, BoundAssumption DEF RenderWorkerEvent, WorkerReport
  <2>4. frames_admitted \in Nat
    BY QueueTypes
  <2>5. events[i].kind = "Fence" =>
          index_of'[events[i].result.completed] = index_of[events[i].result.completed]
    BY <1>2, <2>2, <2>4 DEF EventHolds, FrameCount, IsFrame
  <2> QED
    BY <1>2, <2>2, <2>3, <2>4, <2>5 DEF EventHolds
<1> QED
  BY <1>1, <1>2 DEF EventFacts

\* An event that tells the truth joins the end of the event channel.
LEMMA EventSent ==
  ASSUME TypeOK, EventChain, EventFacts,
         NEW event \in RenderWorkerEvent, Send(event), EventHolds(event),
         FrameCount(event) = Sent + Step(event),
         Sent' = FrameCount(event), Completed' = Completed,
         frames_admitted' = frames_admitted, index_of' = index_of,
         call_pc' = call_pc
  PROVE  EventChain' /\ EventFacts' /\ events' \in Seq(RenderWorkerEvent)
<1>1. /\ events \in Seq(RenderWorkerEvent) /\ events \in Seq(Message)
      /\ event \in Message /\ Completed \in Nat /\ Sent \in Nat
      /\ Step(event) \in 0 .. 1
  BY QueueTypes, MessageCount DEF TypeOK, Message
<1>2. CommandSenderAlive' = CommandSenderAlive
  BY DEF CommandSenderAlive
<1>3. \A e : EventHolds(e)' = EventHolds(e)
  BY DEF EventHolds
<1>4. CASE call_pc = "dropped"
  <2>1. events' = events /\ ~CommandSenderAlive
    BY <1>4 DEF Send, CommandSenderAlive
  <2>2. LastCount(events, Completed) \in Nat
    BY <1>1, RunEnd DEF EventChain
  <2>3. EventChain'
    BY <1>1, <1>2, <2>1, <2>2 DEF EventChain
  <2>4. EventFacts'
    BY <1>3, <2>1 DEF EventFacts
  <2> QED
    BY <1>1, <2>1, <2>3, <2>4
<1>5. CASE call_pc # "dropped"
  <2>1. events' = Append(events, event) /\ CommandSenderAlive
    BY <1>5 DEF Send, CommandSenderAlive
  <2>2. FrameCount(event) = LastCount(events, Completed) + Step(event)
    BY <2>1 DEF EventChain
  <2>3. /\ Run(Append(events, event), Completed)
        /\ LastCount(Append(events, event), Completed) = FrameCount(event)
    BY <1>1, <2>2, RunAppend DEF EventChain
  <2>4. EventChain'
    BY <1>1, <2>1, <2>3 DEF EventChain
  <2>5. EventFacts'
    <3>1. /\ Len(Append(events, event)) = Len(events) + 1 /\ Len(events) \in Nat
          /\ \A i \in 1 .. Len(events) : Append(events, event)[i] = events[i]
          /\ Append(events, event)[Len(events) + 1] = event
      BY <1>1, AppendProperties, LenProperties
    <3>2. \A i \in 1 .. Len(Append(events, event)) :
            EventHolds(Append(events, event)[i])
      BY <3>1 DEF EventFacts
    <3> QED
      BY <1>3, <2>1, <3>2 DEF EventFacts
  <2> QED
    BY <1>1, <2>1, <2>4, <2>5, AppendProperties
<1> QED
  BY <1>4, <1>5

\* A step that neither sends nor receives a command.
LEMMA CommandsKept ==
  ASSUME CommandChain, UNCHANGED <<commands, taken, frames_admitted>>,
         Sent' = Sent, InService' => InService
  PROVE  CommandChain'
BY DEF CommandChain, Taken

\* A step that moves no result.
LEMMA ResultsKept ==
  ASSUME ResultFacts, Completed' = Completed,
         UNCHANGED <<cached_submissions, consumed, frames_admitted, index_of,
                     outstanding_frames, latest_report.last_submitted_frame>>
  PROVE  ResultFacts'
BY DEF ResultFacts, Received

\* A step that neither caches a fence result nor creates a fence.
LEMMA FencesKept ==
  ASSUME TypeOK, FenceFacts, Completed' \in Nat, Completed <= Completed',
         \A n \in 0 .. Completed : index_of'[n] = index_of[n],
         cached_fences' \subseteq cached_fences,
         UNCHANGED fences_created,
         call_pc' = "idle" => fences_created <= MaxFence,
         call_pc' \in {"drain", "recvTimeout", "refused", "waited", "join"}
           /\ call'.op # "drop" => fences_created <= MaxFence
  PROVE  FenceFacts'
<1>1. Completed \in Nat
  BY QueueTypes
<1>2. \A result \in cached_fences :
        result.mark \in Nat /\ result.target \in Nat /\ result.completed \in Nat
  BY BoundAssumption DEF TypeOK, FenceResult
<1>3. \A result \in cached_fences :
        index_of'[result.completed] = index_of[result.completed]
  BY <1>1, <1>2 DEF FenceFacts
<1> QED
  BY <1>1, <1>2, <1>3 DEF FenceFacts

-----------------------------------------------------------------------------
(* The initial states *)

\* Nothing has been admitted, sent or received.
LEMMA InitInv == Init => Inv
<1> SUFFICES ASSUME Init PROVE Inv
  OBVIOUS
<1>1. TypeOK
  <2>1. call \in Call /\ call_pc \in CallPc
    BY DEF Init, NoCall, Call, CallPc
  <2>2. worker_report \in WorkerReport /\ latest_report \in HandleReport
    BY BoundAssumption DEF Init, WorkerReport, HandleReport, RenderWorkerState
  <2>3. commands \in Seq(RenderThreadCommand) /\ events \in Seq(RenderWorkerEvent)
    BY EmptySeq DEF Init
  <2>4. /\ 0 \in 0 .. FrameLimit /\ 0 \in 0 .. FenceLimit /\ 0 \in 0 .. MaxFrame
        /\ 0 \in 0 .. MaxFence + 1
    BY BoundAssumption, LimitAssumption
  <2> QED
    BY <2>1, <2>2, <2>3, <2>4 DEF Init, TypeOK, WorkerPc
<1>2. Completed = 0 /\ Sent = 0 /\ frames_admitted = 0
  BY DEF Init, Completed, Sent
<1>3. EventChain /\ EventFacts
  BY <1>2, RunEmpty DEF Init, EventChain, EventFacts
<1>4. CommandChain
  BY <1>2, RunEmpty DEF Init, CommandChain, Taken, NoCommand
<1>5. WorkerControl
  BY <1>2 DEF Init, WorkerControl
<1>6. ResultFacts
  <2>1. latest_report.last_submitted_frame = 0 /\ index_of[0] = 0
    BY BoundAssumption DEF Init
  <2> QED
    BY <1>2, <2>1, FS_EmptySet DEF Init, ResultFacts, Received
<1>7. FenceFacts
  BY BoundAssumption DEF Init, FenceFacts
<1>8. LossIsReal
  BY DEF Init, LossIsReal
<1> QED
  BY <1>1, <1>3, <1>4, <1>5, <1>6, <1>7, <1>8 DEF Inv

-----------------------------------------------------------------------------
(* The worker thread's steps *)

\* No step of the worker touches the handle, and the worker never comes back.
LEMMA WorkerLeavesHandle ==
  ASSUME Inv, UNCHANGED <<stop_requested, handleVars, callVars, historyVars>>,
         commands' \in Seq(RenderThreadCommand), events' \in Seq(RenderWorkerEvent),
         worker_pc' \in WorkerPc, taken' \in RenderThreadCommand \cup {NoCommand},
         worker_report' \in WorkerReport, panicked' \in BOOLEAN,
         InLoop' => InLoop
  PROVE  TypeOK' /\ ResultFacts' /\ FenceFacts' /\ LossIsReal'
<1>1. TypeOK'
  BY DEF Inv, TypeOK, handleVars, callVars, historyVars
<1>2. ResultFacts'
  BY ResultsKept DEF Inv, Completed, handleVars, historyVars
<1>3. FenceFacts'
  BY DEF Inv, FenceFacts, Completed, handleVars, callVars, historyVars
<1>4. LossIsReal'
  BY DEF Inv, LossIsReal, handleVars
<1> QED
  BY <1>1, <1>2, <1>3, <1>4

\* What a step of the worker may rely on and keeps.
LEMMA WorkerContext ==
  ASSUME Inv, UNCHANGED <<stop_requested, handleVars, callVars, historyVars>>
  PROVE  /\ Completed' = Completed /\ frames_admitted' = frames_admitted
         /\ index_of' = index_of
         /\ call_pc' = call_pc /\ CommandSenderAlive' = CommandSenderAlive
         /\ TypeOK /\ EventChain /\ EventFacts /\ CommandChain /\ WorkerControl
         /\ worker_report \in WorkerReport /\ panicked \in BOOLEAN
         /\ events \in Seq(RenderWorkerEvent)
         /\ commands \in Seq(RenderThreadCommand)
         /\ taken \in RenderThreadCommand \cup {NoCommand}
         /\ Completed \in Nat /\ Sent \in Nat /\ frames_admitted \in Nat
         /\ Sent <= frames_admitted
BY QueueTypes DEF Inv, TypeOK, Completed, CommandSenderAlive, WorkerControl,
     handleVars, callVars, historyVars

\* A report of the worker counts the frames it sent.
LEMMA ReportEvent ==
  ASSUME WorkerControl, NEW report \in WorkerReport,
         report.last_completed_frame = Sent,
         report.last_submitted_frame <= frames_admitted
  PROVE  LET event == [kind |-> "WorkerReport", report |-> report]
         IN /\ event \in RenderWorkerEvent
            /\ FrameCount(event) = Sent /\ Step(event) = 0
            /\ EventHolds(event)
BY DEF RenderWorkerEvent, FrameCount, Step, IsFrame, EventHolds, WorkerControl

\* A fence is answered when every frame before it was.
LEMMA FenceEvent ==
  ASSUME TypeOK, WorkerControl, worker_report \in WorkerReport, NEW fence \in RenderFence,
         fence.mark = Sent
  PROVE  LET event == [kind |-> "Fence", result |-> CompletedResult(fence, Sent)]
         IN /\ event \in RenderWorkerEvent
            /\ FrameCount(event) = Sent /\ Step(event) = 0
            /\ EventHolds(event)
<1>1. Sent \in 0 .. MaxFrame
  BY DEF Sent, WorkerReport
<1>2. CompletedResult(fence, Sent) \in FenceResult
  BY <1>1 DEF CompletedResult, FenceResult, RenderFence
<1>3. /\ CompletedResult(fence, Sent).completed = Sent
      /\ CompletedResult(fence, Sent).mark = Sent
      /\ CompletedResult(fence, Sent).status = "Completed" =>
           CompletedResult(fence, Sent).target <= index_of[Sent]
  <2>1. fence.target \in Nat
    BY DEF RenderFence
  <2>2. index_of[Sent] \in Nat
    BY <1>1 DEF TypeOK
  <2> QED
    BY <2>1, <2>2 DEF CompletedResult
<1>4. Sent <= Sent
  BY <1>1
<1> QED
  BY <1>2, <1>3, <1>4
  DEF RenderWorkerEvent, FrameCount, Step, IsFrame, EventHolds, WorkerControl

\* Any step of the worker that only sends a truthful report.
LEMMA ReportSent ==
  ASSUME Inv, NEW report \in WorkerReport,
         UNCHANGED <<commands, stop_requested, taken, panicked,
                     handleVars, callVars, historyVars>>,
         worker_report' = report,
         report.last_completed_frame = Sent,
         report.last_submitted_frame <= frames_admitted,
         Send([kind |-> "WorkerReport", report |-> report]),
         worker_pc' \in WorkerPc, InLoop' => InLoop, InService' => InService,
         worker_pc' \in {"taken", "serve", "answerShutdown"} <=> taken # NoCommand,
         worker_pc' = "answerShutdown" => taken.kind = "Shutdown"
  PROVE  Inv'
<1> DEFINE event == [kind |-> "WorkerReport", report |-> report]
<1>1. /\ TypeOK /\ EventChain /\ EventFacts /\ CommandChain /\ WorkerControl
      /\ Sent \in Nat /\ Sent' = Sent
      /\ Completed' = Completed /\ frames_admitted' = frames_admitted
      /\ index_of' = index_of
      /\ call_pc' = call_pc
  BY WorkerContext DEF Sent
<1>2. /\ event \in RenderWorkerEvent /\ EventHolds(event)
      /\ FrameCount(event) = Sent /\ Step(event) = 0 /\ Send(event)
  BY <1>1, ReportEvent
<1>3. EventChain' /\ EventFacts' /\ events' \in Seq(RenderWorkerEvent)
  <2> HIDE DEF event
  <2> QED
    BY <1>1, <1>2, EventSent
<1>4. CommandChain'
  BY <1>1, CommandsKept
<1>5. WorkerControl'
  BY <1>1 DEF WorkerControl
<1>6. TypeOK' /\ ResultFacts' /\ FenceFacts' /\ LossIsReal'
  BY <1>1, <1>3, WorkerLeavesHandle DEF TypeOK
<1> QED
  BY <1>3, <1>4, <1>5, <1>6 DEF Inv

\* Any step of the worker that answers the fence it holds.
LEMMA AnswerSent ==
  ASSUME Inv, taken.kind \in {"InsertFence", "Shutdown"}, InService,
         UNCHANGED <<commands, stop_requested, worker_report, panicked,
                     handleVars, callVars, historyVars>>,
         Send([kind |-> "Fence", result |->
                 CompletedResult(taken.fence, worker_report.last_completed_frame)]),
         taken' = NoCommand,
         worker_pc' \in WorkerPc \ {"taken", "serve", "answerShutdown"},
         InLoop' => InLoop
  PROVE  Inv'
<1> DEFINE event == [kind |-> "Fence", result |-> CompletedResult(taken.fence, Sent)]
<1>1. /\ TypeOK /\ EventChain /\ EventFacts /\ CommandChain /\ WorkerControl
      /\ worker_report \in WorkerReport /\ Sent \in Nat /\ Sent' = Sent
      /\ Completed' = Completed /\ frames_admitted' = frames_admitted
      /\ index_of' = index_of
      /\ call_pc' = call_pc
      /\ taken \in RenderThreadCommand \cup {NoCommand}
  BY WorkerContext DEF Sent
<1>2. taken \in FenceCommand /\ taken # NoCommand
  BY <1>1 DEF RenderThreadCommand, FrameCommand, NoCommand
<1>3. taken.fence \in RenderFence /\ taken.fence.mark = Sent
  <2>1. FrameCount(taken) = Sent + Step(taken)
    BY <1>1, <1>2 DEF CommandChain
  <2> QED
    BY <1>1, <1>2, <2>1 DEF FrameCount, Step, IsFrame, FenceCommand
<1>4. /\ event \in RenderWorkerEvent /\ EventHolds(event)
      /\ FrameCount(event) = Sent /\ Step(event) = 0 /\ Send(event)
  BY <1>1, <1>3, FenceEvent DEF Sent
<1>5. EventChain' /\ EventFacts' /\ events' \in Seq(RenderWorkerEvent)
  <2> HIDE DEF event
  <2> QED
    BY <1>1, <1>4, EventSent
<1>6. CommandChain'
  <2>1. Taken = Sent /\ Taken' = Sent
    BY <1>1, <1>2 DEF Taken, NoCommand, FenceCommand
  <2> QED
    BY <1>1, <2>1 DEF CommandChain
<1>7. WorkerControl'
  BY <1>1 DEF WorkerControl, Sent
<1>8. TypeOK' /\ ResultFacts' /\ FenceFacts' /\ LossIsReal'
  BY <1>1, <1>5, WorkerLeavesHandle DEF TypeOK
<1> QED
  BY <1>5, <1>6, <1>7, <1>8 DEF Inv

\* Any step of the worker that touches neither channel's content and leaves
\* the loop or stays out of it.
LEMMA WorkerLeaves ==
  ASSUME Inv, taken' = NoCommand, panicked' \in BOOLEAN,
         UNCHANGED <<sharedVars, worker_report, handleVars, callVars, historyVars>>,
         worker_pc' \in {"dropSender", "dropReceiver", "exiting", "finished"}
  PROVE  Inv'
<1>1. /\ TypeOK /\ EventChain /\ EventFacts /\ WorkerControl
      /\ worker_report \in WorkerReport /\ Sent \in Nat /\ Sent' = Sent
      /\ Completed' = Completed /\ frames_admitted' = frames_admitted
      /\ index_of' = index_of
      /\ frames_admitted \in Nat /\ CommandSenderAlive' = CommandSenderAlive
      /\ UNCHANGED <<commands, events, stop_requested>>
  BY WorkerContext DEF Sent, sharedVars
<1>2. EventChain' /\ EventFacts'
  BY <1>1, EventsKept
<1>3. CommandChain'
  BY DEF CommandChain, InService
<1>4. WorkerControl'
  BY <1>1 DEF WorkerControl, Sent
<1>5. TypeOK' /\ ResultFacts' /\ FenceFacts' /\ LossIsReal'
  BY <1>1, WorkerLeavesHandle DEF TypeOK, WorkerPc, InLoop
<1> QED
  BY <1>2, <1>3, <1>4, <1>5 DEF Inv

\* run_render_worker, recv: the command goes from the channel to the worker's hand.
LEMMA WorkerRecvKeeps == Inv /\ WorkerRecv => Inv'
<1> SUFFICES ASSUME Inv, WorkerRecv PROVE Inv'
  OBVIOUS
<1>1. /\ UNCHANGED <<events, stop_requested, worker_report, panicked,
                     handleVars, callVars, historyVars>>
      /\ worker_pc = "recv" /\ worker_pc' = "taken" /\ commands # << >>
      /\ taken' = Head(commands) /\ commands' = Tail(commands) /\ Sent' = Sent
  BY DEF WorkerRecv, Sent
<1>2. /\ TypeOK /\ EventChain /\ EventFacts /\ CommandChain /\ WorkerControl
      /\ worker_report \in WorkerReport /\ Sent \in Nat
      /\ commands \in Seq(RenderThreadCommand)
      /\ Completed' = Completed /\ frames_admitted' = frames_admitted
      /\ index_of' = index_of
      /\ frames_admitted \in Nat /\ CommandSenderAlive' = CommandSenderAlive
  BY <1>1, WorkerContext
<1>3. taken = NoCommand /\ Taken = Sent /\ InService
  BY <1>1, <1>2 DEF WorkerControl, Taken, NoCommand, InService
<1>4. /\ commands' \in Seq(RenderThreadCommand)
      /\ taken' \in RenderThreadCommand /\ taken' \in Message
  BY <1>1, <1>2, HeadTailProperties DEF Message
<1>5. taken' # NoCommand
  BY <1>4 DEF RenderThreadCommand, FrameCommand, FenceCommand, NoCommand
<1>6. EventChain' /\ EventFacts'
  BY <1>1, <1>2, EventsKept
<1>7. CommandChain'
  <2>1. /\ FrameCount(taken') = Sent + Step(taken')
        /\ Run(commands', FrameCount(taken'))
        /\ LastCount(commands', FrameCount(taken')) = frames_admitted
    BY <1>1, <1>2, <1>3, QueueTypes, RunTail DEF CommandChain
  <2>2. Taken' = FrameCount(taken')
    <3>1. taken'.kind = "SubmitFrame" => FrameCount(taken') = taken'.frame
      BY DEF FrameCount, IsFrame
    <3>2. taken'.kind # "SubmitFrame" => Step(taken') = 0
      BY <1>4 DEF Step, IsFrame, RenderThreadCommand, FrameCommand, FenceCommand
    <3> QED
      BY <1>1, <1>2, <2>1, <3>1, <3>2 DEF Taken
  <2> QED
    BY <1>1, <1>2, <2>1, <2>2 DEF CommandChain
<1>8. WorkerControl'
  BY <1>1, <1>2, <1>5 DEF WorkerControl, Sent
<1>9. TypeOK' /\ ResultFacts' /\ FenceFacts' /\ LossIsReal'
  BY <1>1, <1>2, <1>4, WorkerLeavesHandle DEF TypeOK, WorkerPc, InLoop
<1> QED
  BY <1>6, <1>7, <1>8, <1>9 DEF Inv

\* run_render_worker: the flag was clear, so the command is served and a frame is recorded as submitted.
LEMMA WorkerAcceptKeeps == Inv /\ WorkerAccept => Inv'
<1> SUFFICES ASSUME Inv, WorkerAccept PROVE Inv'
  OBVIOUS
<1>1. /\ UNCHANGED <<sharedVars, taken, panicked, handleVars, callVars, historyVars>>
      /\ UNCHANGED <<commands, events, stop_requested>>
      /\ worker_pc = "taken" /\ worker_pc' = "serve"
  BY DEF WorkerAccept, sharedVars
<1>2. /\ TypeOK /\ EventChain /\ EventFacts /\ CommandChain /\ WorkerControl
      /\ worker_report \in WorkerReport /\ Sent \in Nat
      /\ taken \in RenderThreadCommand \cup {NoCommand}
      /\ Completed' = Completed /\ frames_admitted' = frames_admitted
      /\ index_of' = index_of
      /\ frames_admitted \in Nat /\ CommandSenderAlive' = CommandSenderAlive
  BY <1>1, WorkerContext
<1>3. taken.kind = "SubmitFrame" =>
        taken.frame \in 0 .. MaxFrame /\ taken.frame <= frames_admitted
  <2> SUFFICES ASSUME taken.kind = "SubmitFrame"
               PROVE  taken.frame \in 0 .. MaxFrame /\ taken.frame <= frames_admitted
    OBVIOUS
  <2>1. taken.frame \in 1 .. MaxFrame /\ Taken = taken.frame /\ InService
    BY <1>1, <1>2, QueueTypes DEF FrameCommand, Taken, InService
  <2>2. Taken <= LastCount(commands, Taken)
    BY <1>2, <2>1, QueueTypes, RunEnd DEF CommandChain
  <2> QED
    BY <1>2, <2>1, <2>2, BoundAssumption DEF CommandChain
<1>4. /\ worker_report' \in WorkerReport
      /\ worker_report'.last_submitted_frame <= frames_admitted /\ Sent' = Sent
  <2>1. worker_report' = IF taken.kind = "SubmitFrame"
                           THEN [worker_report EXCEPT
                                   !.last_submitted_frame = taken.frame]
                           ELSE worker_report
    BY DEF WorkerAccept
  <2>2. CASE taken.kind = "SubmitFrame"
    BY <1>2, <1>3, <2>1, <2>2 DEF WorkerReport, Sent
  <2>3. CASE taken.kind # "SubmitFrame"
    BY <1>2, <2>1, <2>3 DEF WorkerControl, Sent
  <2> QED
    BY <2>2, <2>3
<1>5. EventChain' /\ EventFacts'
  BY <1>1, <1>2, <1>4, EventsKept
<1>6. CommandChain'
  BY <1>1, <1>2, <1>4, CommandsKept DEF InService
<1>7. WorkerControl'
  BY <1>1, <1>2, <1>4 DEF WorkerControl
<1>8. TypeOK' /\ ResultFacts' /\ FenceFacts' /\ LossIsReal'
  BY <1>1, <1>2, <1>4, WorkerLeavesHandle DEF TypeOK, WorkerPc, InLoop
<1> QED
  BY <1>5, <1>6, <1>7, <1>8 DEF Inv

\* run_render_worker: the executed frame becomes the newest result in the event channel.
LEMMA FinishFrameKeeps == Inv /\ FinishFrame => Inv'
<1> SUFFICES ASSUME Inv, FinishFrame PROVE Inv'
  OBVIOUS
<1> DEFINE event == [kind |-> "Submission", frame |-> taken.frame]
<1>1. /\ UNCHANGED <<commands, stop_requested, panicked, handleVars, callVars,
                     historyVars>>
      /\ worker_pc = "serve" /\ worker_pc' = "progress"
      /\ taken.kind = "SubmitFrame" /\ taken' = NoCommand /\ Send(event)
      /\ worker_report' = [worker_report EXCEPT !.last_completed_frame = taken.frame]
  BY DEF FinishFrame, Serving
<1>2. /\ TypeOK /\ EventChain /\ EventFacts /\ CommandChain /\ WorkerControl
      /\ worker_report \in WorkerReport /\ Sent \in Nat
      /\ Completed' = Completed /\ frames_admitted' = frames_admitted
      /\ index_of' = index_of
      /\ frames_admitted \in Nat /\ call_pc' = call_pc
  BY <1>1, WorkerContext
<1>3. /\ taken.frame \in 1 .. MaxFrame /\ taken # NoCommand
      /\ Taken = taken.frame /\ InService
      /\ FrameCount(taken) = taken.frame /\ Step(taken) = 1
  BY <1>1, QueueTypes, <1>2
  DEF FrameCommand, Taken, InService, NoCommand, FrameCount, Step, IsFrame
<1>4. taken.frame = Sent + 1 /\ taken.frame <= frames_admitted
  <2>1. Taken <= LastCount(commands, Taken)
    BY <1>2, <1>3, QueueTypes, RunEnd DEF CommandChain
  <2> QED
    BY <1>2, <1>3, <2>1 DEF CommandChain
<1>5. /\ worker_report' \in WorkerReport /\ Sent' = taken.frame
      /\ worker_report'.last_submitted_frame = worker_report.last_submitted_frame
  BY <1>1, <1>2, <1>3, BoundAssumption DEF WorkerReport, Sent
<1>6. /\ event \in RenderWorkerEvent /\ EventHolds(event)
      /\ FrameCount(event) = taken.frame /\ Step(event) = 1
  BY <1>3, <1>4 DEF RenderWorkerEvent, EventHolds, FrameCount, Step, IsFrame
<1>7. EventChain' /\ EventFacts' /\ events' \in Seq(RenderWorkerEvent)
  <2> HIDE DEF event
  <2> QED
    BY <1>1, <1>2, <1>4, <1>5, <1>6, EventSent
<1>8. CommandChain'
  <2>1. Taken' = taken.frame
    BY <1>1, <1>5 DEF Taken, NoCommand
  <2> QED
    BY <1>1, <1>2, <1>3, <2>1 DEF CommandChain
<1>9. WorkerControl'
  BY <1>1, <1>2, <1>4, <1>5 DEF WorkerControl
<1>10. TypeOK' /\ ResultFacts' /\ FenceFacts' /\ LossIsReal'
  BY <1>1, <1>2, <1>5, <1>7, WorkerLeavesHandle DEF TypeOK, WorkerPc, InLoop
<1> QED
  BY <1>7, <1>8, <1>9, <1>10 DEF Inv

\* Every step of the worker thread keeps the invariant.
LEMMA WorkerKeeps == Inv /\ (WorkerStep \/ PanicInFrame) => Inv'
<1> SUFFICES ASSUME Inv, WorkerStep \/ PanicInFrame PROVE Inv'
  OBVIOUS
<1>1. /\ WorkerControl /\ TypeOK /\ worker_report \in WorkerReport
      /\ panicked \in BOOLEAN
      /\ worker_pc \in {"taken", "serve", "answerShutdown"} <=> taken # NoCommand
  BY DEF Inv, TypeOK, WorkerControl
<1>2. ASSUME WorkerStart PROVE Inv'
  BY <1>1, <1>2, ReportSent DEF WorkerStart, WorkerControl, WorkerPc, InLoop,
     InService, Sent
<1>3. ASSUME WorkerHangup PROVE Inv'
  BY <1>1, <1>3, WorkerLeaves DEF WorkerHangup
<1>4. ASSUME WorkerStop PROVE Inv'
  BY <1>1, <1>4, WorkerLeaves DEF WorkerStop, LeaveLoop
<1>5. ASSUME PanicInFrame PROVE Inv'
  BY <1>1, <1>5, WorkerLeaves DEF PanicInFrame
<1>6. ASSUME SendProgress PROVE Inv'
  BY <1>1, <1>6, ReportSent DEF SendProgress, WorkerControl, WorkerPc, InLoop,
     InService, Sent
<1>7. ASSUME AnswerFence PROVE Inv'
  BY <1>1, <1>7, AnswerSent DEF AnswerFence, Serving, WorkerPc, InLoop, InService
<1>8. ASSUME AnswerShutdown PROVE Inv'
  BY <1>1, <1>8, AnswerSent DEF AnswerShutdown, WorkerControl, WorkerPc, InLoop,
     InService
<1>9. ASSUME BeginShutdown PROVE Inv'
  <2>1. /\ worker_report' \in WorkerReport
        /\ worker_report'.last_completed_frame = Sent
        /\ worker_report'.last_submitted_frame <= frames_admitted
    BY <1>1, <1>9
    DEF BeginShutdown, WorkerReport, RenderWorkerState, Sent, WorkerControl
  <2> QED
    BY <1>1, <1>9, <2>1, ReportSent
    DEF BeginShutdown, Serving, WorkerPc, InLoop, InService
<1>10. ASSUME ReportStopped PROVE Inv'
  <2>1. /\ worker_report' \in WorkerReport
        /\ worker_report'.last_completed_frame = Sent
        /\ worker_report'.last_submitted_frame <= frames_admitted
    BY <1>1, <1>10
    DEF ReportStopped, WorkerReport, RenderWorkerState, Sent, WorkerControl
  <2> QED
    BY <1>1, <1>10, <2>1, ReportSent
    DEF ReportStopped, LeaveLoop, WorkerPc, InLoop, InService
<1>11. ASSUME ThreadExit PROVE Inv'
  BY <1>1, <1>11, WorkerLeaves DEF ThreadExit
<1> QED
  BY <1>2, <1>3, <1>4, <1>5, <1>6, <1>7, <1>8, <1>9, <1>10, <1>11,
     WorkerRecvKeeps, WorkerAcceptKeeps, FinishFrameKeeps DEF WorkerStep

-----------------------------------------------------------------------------
(* The handle's steps *)

\* A call that is over leaves no call behind.
LEMMA CallValues ==
  /\ NoCall \in Call /\ NoCall.op = "none"
  /\ \A c \in Call : \A status \in {"Completed", "NotObserved", "Timeout", "WorkerLost"} :
       LET d == [c EXCEPT !.status = status] IN d \in Call /\ d.op = c.op
  /\ \A op \in {"poll", "wait", "report", "shutdown", "drop"}, n \in Nat :
       LET d == [op |-> op, id |-> n, status |-> "Pending"]
       IN d \in Call /\ d.op = op
  /\ \A op \in {"shutdown", "drop"} :
       LET d == [NoCall EXCEPT !.op = op] IN d \in Call /\ d.op = op
BY DEF NoCall, Call

\* Any step of the handle that moves no command, no event and no frame result.
LEMMA HandleKeeps ==
  ASSUME Inv,
         UNCHANGED <<commands, events, workerVars, outstanding_frames,
                     cached_submissions, historyVars>>,
         latest_report' \in HandleReport,
         Completed' = Completed,
         latest_report'.last_submitted_frame = latest_report.last_submitted_frame,
         latest_report'.worker_lost \/ latest_report'.state = "WorkerLost" =>
           \/ ~InLoop
           \/ latest_report.worker_lost \/ latest_report.state = "WorkerLost",
         cached_fences' \subseteq cached_fences,
         outstanding_fences' \in 0 .. FenceLimit,
         stop_requested' \in BOOLEAN, thread_handle' \in BOOLEAN,
         call' \in Call, call_pc' \in CallPc,
         call_pc = "dropped" => call_pc' = "dropped",
         call_pc' = "idle" => fences_created <= MaxFence,
         call_pc' \in {"drain", "recvTimeout", "refused", "waited", "join"}
           /\ call'.op # "drop" => fences_created <= MaxFence
  PROVE  Inv'
<1>1. /\ TypeOK /\ EventChain /\ EventFacts /\ CommandChain /\ WorkerControl
      /\ ResultFacts /\ FenceFacts /\ LossIsReal
      /\ Sent' = Sent /\ frames_admitted' = frames_admitted
      /\ index_of' = index_of
      /\ frames_admitted \in Nat /\ Completed \in Nat /\ taken' = taken
      /\ worker_pc' = worker_pc /\ worker_report' = worker_report
      /\ consumed' = consumed
      /\ fences_created' = fences_created
  BY QueueTypes DEF Inv, Sent, workerVars, historyVars
<1>2. TypeOK'
  BY <1>1 DEF TypeOK, workerVars, historyVars
<1>3. EventChain' /\ EventFacts'
  BY <1>1, EventsKept DEF CommandSenderAlive
<1>4. CommandChain'
  BY <1>1, CommandsKept DEF InService
<1>5. WorkerControl'
  BY <1>1 DEF WorkerControl
<1>6. ResultFacts'
  BY <1>1, ResultsKept
<1>7. FenceFacts'
  BY <1>1, FencesKept
<1>8. LossIsReal'
  BY <1>1 DEF LossIsReal, InLoop
<1> QED
  BY <1>2, <1>3, <1>4, <1>5, <1>6, <1>7, <1>8 DEF Inv

\* Finding the channel closed changes only the state and the loss flag, and
\* only once the thread is gone.
LEMMA ReportKept ==
  ASSUME TypeOK
  PROVE  /\ \A r \in {DrainedReport, Lost(latest_report), latest_report,
                     [latest_report EXCEPT !.state = "ShuttingDown"],
                     [latest_report EXCEPT !.state = "Stopped"]} :
              /\ r \in HandleReport
              /\ r.last_completed_frame = Completed
              /\ r.last_submitted_frame = latest_report.last_submitted_frame
         /\ DrainedReport.worker_lost \/ DrainedReport.state = "WorkerLost" =>
              ~InLoop \/ latest_report.worker_lost \/ latest_report.state = "WorkerLost"
         /\ LossFound \in BOOLEAN /\ stop_requested \in BOOLEAN
<1>1. latest_report \in HandleReport /\ stop_requested \in BOOLEAN
  BY DEF TypeOK
<1>2. Lost(latest_report) \in HandleReport
  BY <1>1 DEF Lost, HandleReport, RenderWorkerState
<1>3. /\ [latest_report EXCEPT !.state = "ShuttingDown"] \in HandleReport
      /\ [latest_report EXCEPT !.state = "Stopped"] \in HandleReport
  BY <1>1 DEF HandleReport, RenderWorkerState
<1>4. DrainedReport \in {Lost(latest_report), latest_report}
  BY DEF DrainedReport
<1>5. LossFound => ~InLoop
  BY DEF LossFound, EventSenderAlive, InLoop
<1>6. LossFound \in BOOLEAN
  BY DEF LossFound, EventSenderAlive
<1>7. /\ Lost(latest_report).last_completed_frame = Completed
      /\ Lost(latest_report).last_submitted_frame
           = latest_report.last_submitted_frame
  BY <1>1 DEF Lost, Completed, HandleReport
<1>8. \A s \in {"ShuttingDown", "Stopped"} :
        LET r == [latest_report EXCEPT !.state = s]
        IN /\ r.last_completed_frame = Completed
           /\ r.last_submitted_frame = latest_report.last_submitted_frame
  BY <1>1 DEF Completed, HandleReport
<1>9. DrainedReport = latest_report \/ LossFound
  BY DEF DrainedReport
<1> QED
  BY <1>1, <1>2, <1>3, <1>4, <1>5, <1>6, <1>7, <1>8, <1>9 DEF Completed

\* Calls that begin, and the end of a call that takes no frame result.
LEMMA QuietCallKeeps ==
  ASSUME Inv,
         \/ PollSubmission \/ WaitFence \/ LatestReport \/ ReturnReport
         \/ WaitAnswered \/ WaitTimeout \/ WaitMore \/ RecvNothing
         \/ RecvDisconnected \/ ShutdownRefused \/ CloseAdmission
         \/ JoinThread \/ DropFields
  PROVE  Inv'
<1>1. /\ TypeOK /\ FenceFacts /\ LossIsReal
      /\ latest_report \in HandleReport /\ stop_requested \in BOOLEAN
      /\ outstanding_fences \in 0 .. FenceLimit /\ cached_fences \subseteq FenceResult
      /\ thread_handle \in BOOLEAN /\ call \in Call /\ call_pc \in CallPc
      /\ Completed = latest_report.last_completed_frame
      /\ fences_created \in Nat
  BY BoundAssumption DEF Inv, TypeOK, Completed
<1>2. /\ call_pc = "idle" => fences_created <= MaxFence
      /\ call_pc \in {"drain", "recvTimeout", "refused", "waited", "join"}
           /\ call.op # "drop" => fences_created <= MaxFence
  BY <1>1 DEF FenceFacts
<1>3. ASSUME PollSubmission PROVE Inv'
  <2>1. PICK n \in 1 .. frames_admitted : BeginCall("poll", n)
    BY <1>3 DEF PollSubmission
  <2>2. /\ UNCHANGED <<sharedVars, workerVars, handleVars, historyVars>>
        /\ call_pc = "idle"
    BY <1>3 DEF PollSubmission
  <2>3. n \in Nat
    BY QueueTypes, <1>1
  <2> QED
    BY <1>1, <1>2, <2>1, <2>2, <2>3, HandleKeeps, CallValues
    DEF BeginCall, CallPc, sharedVars, handleVars, historyVars, Completed
<1>4. ASSUME WaitFence PROVE Inv'
  <2>1. PICK n \in 1 .. fences_created : BeginCall("wait", n)
    BY <1>4 DEF WaitFence
  <2>2. /\ UNCHANGED <<sharedVars, workerVars, handleVars, historyVars>>
        /\ call_pc = "idle"
    BY <1>4 DEF WaitFence
  <2>3. n \in Nat
    BY <1>1
  <2> QED
    BY <1>1, <1>2, <2>1, <2>2, <2>3, HandleKeeps, CallValues
    DEF BeginCall, CallPc, sharedVars, handleVars, historyVars, Completed
<1>5. ASSUME LatestReport PROVE Inv'
  BY <1>1, <1>2, <1>5, HandleKeeps, CallValues
  DEF LatestReport, BeginCall, CallPc, sharedVars, handleVars, historyVars, Completed
<1>6. ASSUME ReturnReport PROVE Inv'
  BY <1>1, <1>2, <1>6, HandleKeeps, CallValues, ReportKept
  DEF ReturnReport, Drained, Return, CallPc, Completed
<1>7. ASSUME call_pc \in {"drain", "recvTimeout"}, events = << >>,
             NEW status \in {"Completed", "NotObserved", "Timeout", "WorkerLost"},
             NEW report \in {DrainedReport, Lost(latest_report)},
             report = Lost(latest_report) /\ report # DrainedReport => ~InLoop,
             NEW stop \in BOOLEAN, EndWait(status, report, stop),
             cached_fences' \subseteq cached_fences,
             outstanding_fences' \in 0 .. FenceLimit,
             UNCHANGED <<commands, events, workerVars, outstanding_frames,
                         cached_submissions, thread_handle, historyVars>>
      PROVE  Inv'
  <2>1. /\ latest_report' \in HandleReport /\ Completed' = Completed
        /\ latest_report'.last_submitted_frame = latest_report.last_submitted_frame
        /\ latest_report'.worker_lost \/ latest_report'.state = "WorkerLost" =>
             \/ ~InLoop
             \/ latest_report.worker_lost \/ latest_report.state = "WorkerLost"
    BY <1>1, <1>7, ReportKept DEF EndWait, Completed
  <2>2. /\ call' \in Call /\ call_pc' \in {"idle", "waited"}
        /\ call_pc' = "idle" => call.op = "wait"
        /\ call_pc' # "idle" => call'.op = call.op
    <3>1. CASE call.op = "wait"
      BY <1>7, <3>1, CallValues DEF EndWait, Return
    <3>2. CASE call.op # "wait"
      BY <1>1, <1>7, <3>2 DEF EndWait, Call
    <3> QED
      BY <3>1, <3>2
  <2>3. call_pc' \in CallPc /\ stop_requested' \in BOOLEAN
    BY <1>7, <2>2 DEF CallPc, EndWait
  <2>4. /\ call_pc' = "idle" => fences_created <= MaxFence
        /\ call_pc' = "waited" /\ call'.op # "drop" => fences_created <= MaxFence
    BY <1>2, <1>7, <2>2
  <2> QED
    BY <1>1, <1>7, <2>1, <2>2, <2>3, <2>4, HandleKeeps
<1>8. ASSUME WaitAnswered PROVE Inv'
  <2>1. PICK result \in Answers :
          /\ cached_fences' = cached_fences \ {result}
          /\ EndWait(result.status, DrainedReport, stop_requested \/ LossFound)
    BY <1>8 DEF WaitAnswered
  <2>2. result.status \in {"Completed", "NotObserved", "Timeout", "WorkerLost"}
    BY <1>1 DEF Answers, FenceResult
  <2>3. outstanding_fences' \in 0 .. FenceLimit
    BY <1>1, <1>8, LimitAssumption DEF WaitAnswered
  <2>4. (stop_requested \/ LossFound) \in BOOLEAN
    BY <1>1, ReportKept
  <2>5. cached_fences' \subseteq cached_fences
    BY <2>1
  <2>6. /\ call_pc = "drain" /\ events = << >>
        /\ UNCHANGED <<commands, events, workerVars, outstanding_frames,
                       cached_submissions, thread_handle, historyVars>>
    BY <1>8 DEF WaitAnswered, Drained
  <2> QED
    BY <1>7, <2>1, <2>2, <2>3, <2>4, <2>5, <2>6
<1>9. ASSUME WaitTimeout PROVE Inv'
  <2>1. (stop_requested \/ LossFound) \in BOOLEAN
    BY <1>1, ReportKept
  <2> QED
    BY <1>1, <1>7, <1>9, <2>1 DEF WaitTimeout, Drained
<1>10. ASSUME WaitMore PROVE Inv'
  BY <1>1, <1>2, <1>10, HandleKeeps, ReportKept
  DEF WaitMore, Drained, CallPc, Completed
<1>11. ASSUME RecvNothing PROVE Inv'
  BY <1>1, <1>2, <1>11, HandleKeeps
  DEF RecvNothing, CallPc, sharedVars, handleVars, Completed
<1>12. ASSUME RecvDisconnected PROVE Inv'
  <2>1. ~InLoop
    BY <1>12 DEF RecvDisconnected, EventSenderAlive, InLoop
  <2>2. /\ call_pc = "recvTimeout" /\ events = << >>
        /\ EndWait("WorkerLost", Lost(latest_report), stop_requested)
        /\ UNCHANGED <<commands, events, workerVars, outstanding_frames,
                       outstanding_fences, cached_submissions, cached_fences,
                       thread_handle, historyVars>>
    BY <1>12 DEF RecvDisconnected
  <2> QED
    BY <1>1, <1>2, <1>7, <2>1, <2>2
<1>13. ASSUME ShutdownRefused PROVE Inv'
  BY <1>1, <1>2, <1>13, HandleKeeps, CallValues, ReportKept
  DEF ShutdownRefused, Return, AfterShutdown, CallPc, Completed
<1>14. ASSUME CloseAdmission PROVE Inv'
  BY <1>1, <1>2, <1>14, HandleKeeps
  DEF CloseAdmission, CallPc, handleVars, Completed
<1>15. ASSUME JoinThread PROVE Inv'
  <2> DEFINE joined == thread_handle /\ worker_pc = "finished"
  <2>1. /\ call_pc = "join" /\ Return(AfterShutdown(call.op))
        /\ thread_handle' = (thread_handle /\ ~joined)
        /\ latest_report' = FinalReport(joined /\ panicked)
        /\ UNCHANGED <<sharedVars, workerVars, outstanding_frames,
                       outstanding_fences, cached_submissions, cached_fences,
                       historyVars>>
    BY <1>15 DEF JoinThread
  <2>2. /\ latest_report' \in {Lost(latest_report), latest_report,
                               [latest_report EXCEPT !.state = "Stopped"]}
        /\ joined \/ latest_report' \in {latest_report,
                               [latest_report EXCEPT !.state = "Stopped"]}
    BY <2>1 DEF FinalReport
  <2>3. joined => ~InLoop
    BY DEF InLoop
  <2>4. /\ latest_report' \in HandleReport /\ Completed' = Completed
        /\ latest_report'.last_submitted_frame = latest_report.last_submitted_frame
    BY <1>1, <2>2, ReportKept DEF Completed
  <2>5. latest_report'.worker_lost \/ latest_report'.state = "WorkerLost" =>
          \/ ~InLoop
          \/ latest_report.worker_lost \/ latest_report.state = "WorkerLost"
    BY <1>1, <2>2, <2>3 DEF HandleReport
  <2>6. thread_handle' \in BOOLEAN
    BY <1>1, <2>1
  <2>7. /\ call' \in Call /\ call_pc' \in {"idle", "dropping"}
        /\ call_pc' = "idle" => call.op # "drop"
    BY <2>1, CallValues DEF Return, AfterShutdown
  <2> QED
    BY <1>1, <1>2, <2>1, <2>4, <2>5, <2>6, <2>7, HandleKeeps DEF sharedVars, CallPc
<1>16. ASSUME DropFields PROVE Inv'
  BY <1>1, <1>2, <1>16, HandleKeeps
  DEF DropFields, CallPc, sharedVars, handleVars, Completed
<1> QED
  BY <1>3, <1>4, <1>5, <1>6, <1>8, <1>9, <1>10, <1>11, <1>12, <1>13, <1>14,
     <1>15, <1>16

\* A command that counts on from the admitted frames joins the command channel.
LEMMA CommandSent ==
  ASSUME TypeOK, CommandChain, NEW command \in RenderThreadCommand,
         commands' = Append(commands, command),
         FrameCount(command) = frames_admitted + Step(command),
         frames_admitted' = FrameCount(command),
         UNCHANGED workerVars
  PROVE  CommandChain' /\ commands' \in Seq(RenderThreadCommand)
<1>1. /\ commands \in Seq(RenderThreadCommand) /\ commands \in Seq(Message)
      /\ command \in Message /\ Taken' = Taken /\ Sent' = Sent
      /\ taken' = taken /\ InService' = InService
  BY QueueTypes DEF TypeOK, Message, workerVars, Taken, Sent, InService
<1>2. commands' \in Seq(RenderThreadCommand)
  BY <1>1, AppendProperties
<1>3. ASSUME InService PROVE Taken \in Nat
  BY QueueTypes, <1>1 DEF Taken, FrameCommand
<1>4. ASSUME InService
      PROVE  /\ Run(Append(commands, command), Taken)
             /\ LastCount(Append(commands, command), Taken) = FrameCount(command)
  BY <1>1, <1>3, <1>4, RunAppend DEF CommandChain
<1> QED
  BY <1>1, <1>2, <1>4 DEF CommandChain

\* What a step of the handle may rely on.
LEMMA HandleContext ==
  ASSUME Inv
  PROVE  /\ TypeOK /\ EventChain /\ EventFacts /\ CommandChain /\ WorkerControl
         /\ ResultFacts /\ FenceFacts /\ LossIsReal
         /\ latest_report \in HandleReport
         /\ frames_admitted \in 0 .. MaxFrame /\ MaxFrame \in Nat /\ MaxFence \in Nat
         /\ Completed \in 0 .. MaxFrame /\ Sent \in Nat
         /\ Completed <= frames_admitted /\ consumed \subseteq 1 .. Completed
         /\ fences_created \in 0 .. MaxFence + 1
         /\ outstanding_fences \in 0 .. FenceLimit
         /\ outstanding_frames \in 0 .. FrameLimit
         /\ FrameLimit \in Nat \ {0} /\ FenceLimit \in Nat \ {0}
<1>1. /\ TypeOK /\ EventChain /\ EventFacts /\ CommandChain /\ WorkerControl
      /\ ResultFacts /\ FenceFacts /\ LossIsReal
  BY DEF Inv
<1>2. /\ latest_report \in HandleReport
      /\ frames_admitted \in 0 .. MaxFrame /\ MaxFrame \in Nat /\ MaxFence \in Nat
      /\ fences_created \in 0 .. MaxFence + 1
      /\ outstanding_fences \in 0 .. FenceLimit
      /\ outstanding_frames \in 0 .. FrameLimit
      /\ FrameLimit \in Nat \ {0} /\ FenceLimit \in Nat \ {0}
  BY <1>1, BoundAssumption, LimitAssumption DEF TypeOK
<1>3. Completed \in 0 .. MaxFrame
  BY <1>2 DEF Completed, HandleReport
<1>4. Sent \in Nat
  BY <1>1, <1>2 DEF Sent, TypeOK, WorkerReport
<1>5. Completed <= frames_admitted /\ consumed \subseteq 1 .. Completed
  BY <1>1 DEF ResultFacts, Received
<1> QED
  BY <1>1, <1>2, <1>3, <1>4, <1>5

\* One more admitted frame is one more frame whose result is not taken.
LEMMA AdmitCount ==
  ASSUME NEW n \in Nat, NEW gone \in SUBSET (1 .. n)
  PROVE  Cardinality((1 .. n + 1) \ gone) = Cardinality((1 .. n) \ gone) + 1
<1>1. IsFiniteSet((1 .. n) \ gone)
  <2>1. IsFiniteSet(1 .. n)
    BY FS_Interval
  <2> QED
    BY <2>1, FS_Difference
<1>2. (1 .. n + 1) \ gone = ((1 .. n) \ gone) \cup {n + 1}
  OBVIOUS
<1>3. n + 1 \notin (1 .. n) \ gone
  OBVIOUS
<1> QED
  BY <1>1, <1>2, <1>3, FS_AddElement

\* Taking a result is one frame less.
LEMMA TakeCount ==
  ASSUME NEW n \in Nat, NEW gone, NEW frame \in (1 .. n) \ gone
  PROVE  /\ Cardinality((1 .. n) \ (gone \cup {frame}))
              = Cardinality((1 .. n) \ gone) - 1
         /\ Cardinality((1 .. n) \ gone) \in Nat \ {0}
<1>1. IsFiniteSet((1 .. n) \ gone)
  <2>1. IsFiniteSet(1 .. n)
    BY FS_Interval
  <2> QED
    BY <2>1, FS_Difference
<1>2. (1 .. n) \ (gone \cup {frame}) = ((1 .. n) \ gone) \ {frame}
  OBVIOUS
<1>3. Cardinality((1 .. n) \ gone) \in Nat
  BY <1>1, FS_CardinalityType
<1>4. Cardinality((1 .. n) \ gone) # 0
  BY <1>1, FS_EmptySet
<1>5. Cardinality(((1 .. n) \ gone) \ {frame}) = Cardinality((1 .. n) \ gone) - 1
  BY <1>1, FS_RemoveElement
<1> QED
  BY <1>2, <1>3, <1>4, <1>5

\* submit_frame: an admitted frame is owed by the worker and counted by the handle at once.
LEMMA SubmitFrameKeeps == Inv /\ SubmitFrame => Inv'
<1> SUFFICES ASSUME Inv, SubmitFrame PROVE Inv'
  OBVIOUS
<1> DEFINE command == [kind |-> "SubmitFrame", frame |-> frames_admitted + 1]
<1>1. /\ call_pc = "idle" /\ frames_admitted < MaxFrame
      /\ outstanding_frames < FrameLimit
      /\ UNCHANGED <<events, stop_requested, workerVars, outstanding_fences,
                     cached_submissions, cached_fences, thread_handle, callVars,
                     consumed, fences_created, shutdown_called>>
      /\ UNCHANGED <<call, call_pc, worker_pc, worker_report, taken>>
  BY DEF SubmitFrame, FrameSlotFree, callVars, workerVars
<1>2. /\ TypeOK /\ EventChain /\ EventFacts /\ CommandChain /\ WorkerControl
      /\ ResultFacts /\ FenceFacts /\ LossIsReal
      /\ latest_report \in HandleReport
      /\ frames_admitted \in 0 .. MaxFrame /\ MaxFrame \in Nat /\ MaxFence \in Nat
      /\ Completed \in 0 .. MaxFrame /\ Sent \in Nat
      /\ Completed <= frames_admitted /\ consumed \subseteq 1 .. Completed
      /\ outstanding_frames \in 0 .. FrameLimit /\ FrameLimit \in Nat
      /\ call_pc = "idle" => fences_created <= MaxFence
      /\ index_of \in [0 .. MaxFrame -> Nat]
  BY HandleContext DEF FenceFacts, TypeOK
<1>3. CASE /\ commands' = Append(commands, command)
           /\ frames_admitted' = frames_admitted + 1
           /\ \E index \in FrameIndexes[frames_admitted + 1] :
                index_of' = [index_of EXCEPT ![frames_admitted + 1] = index]
           /\ outstanding_frames' = outstanding_frames + 1
           /\ latest_report' = [latest_report EXCEPT
                                  !.last_submitted_frame = frames_admitted + 1]
  <2>1. /\ command \in RenderThreadCommand
        /\ FrameCount(command) = frames_admitted + 1 /\ Step(command) = 1
    BY <1>1, <1>2 DEF RenderThreadCommand, FrameCommand, FrameCount, Step, IsFrame
  <2>2. CommandChain' /\ commands' \in Seq(RenderThreadCommand)
    <3> HIDE DEF command
    <3> QED
      BY <1>1, <1>2, <1>3, <2>1, CommandSent
  <2>3. /\ latest_report' \in HandleReport /\ Completed' = Completed
        /\ latest_report'.last_submitted_frame = frames_admitted'
        /\ latest_report'.state = latest_report.state
        /\ latest_report'.worker_lost = latest_report.worker_lost
        /\ index_of' \in [0 .. MaxFrame -> Nat]
        /\ \A n \in 0 .. frames_admitted : index_of'[n] = index_of[n]
    <3>1. frames_admitted + 1 \in 0 .. MaxFrame /\ frames_admitted + 1 \in 1 .. MaxFrame
      BY <1>1, <1>2
    <3>2. PICK index \in FrameIndexes[frames_admitted + 1] :
            index_of' = [index_of EXCEPT ![frames_admitted + 1] = index]
      BY <1>3
    <3>3. index \in Nat
      BY <3>1, <3>2, BoundAssumption
    <3>4. /\ index_of' \in [0 .. MaxFrame -> Nat]
          /\ \A n \in 0 .. frames_admitted : index_of'[n] = index_of[n]
      BY <1>2, <3>1, <3>2, <3>3
    <3> QED
      BY <1>2, <1>3, <3>1, <3>4 DEF HandleReport, Completed
  <2>4. TypeOK'
    <3>1. frames_admitted' \in 0 .. MaxFrame /\ outstanding_frames' \in 0 .. FrameLimit
      BY <1>1, <1>2, <1>3
    <3>2. TypeOK
      BY <1>2
    <3>3. /\ UNCHANGED <<events, stop_requested, worker_pc, taken>>
          /\ UNCHANGED <<worker_report, panicked, outstanding_fences>>
          /\ UNCHANGED <<cached_submissions, cached_fences, thread_handle>>
          /\ UNCHANGED <<call, call_pc, consumed, fences_created, shutdown_called>>
      BY <1>1 DEF workerVars
    <3>4. /\ call \in Call /\ call_pc \in CallPc /\ worker_pc \in WorkerPc
          /\ taken \in RenderThreadCommand \cup {NoCommand}
          /\ worker_report \in WorkerReport /\ panicked \in BOOLEAN
          /\ events \in Seq(RenderWorkerEvent) /\ stop_requested \in BOOLEAN
          /\ outstanding_fences \in 0 .. FenceLimit /\ thread_handle \in BOOLEAN
          /\ cached_submissions \subseteq 1 .. MaxFrame
          /\ cached_fences \subseteq FenceResult
          /\ consumed \subseteq 1 .. MaxFrame /\ shutdown_called \in BOOLEAN
          /\ fences_created \in 0 .. MaxFence + 1
      BY <3>2 DEF TypeOK
    <3> QED
      BY <2>2, <2>3, <3>1, <3>3, <3>4 DEF TypeOK
  <2>5. EventChain' /\ EventFacts'
    BY <1>1, <1>2, <1>3, <2>3, EventsKept DEF Sent, CommandSenderAlive
  <2>6. WorkerControl'
    <3>1. UNCHANGED <<worker_pc, worker_report, taken>>
      BY <1>1
    <3>2. WorkerControl /\ frames_admitted <= frames_admitted'
      BY <1>2, <1>3
    <3>3. worker_report.last_submitted_frame \in Nat /\ Sent \in Nat
      BY <1>2 DEF Sent, TypeOK, WorkerReport
    <3> QED
      BY <1>2, <1>3, <3>1, <3>2, <3>3 DEF WorkerControl, Sent
  <2>7. ResultFacts'
    <3>1. Cardinality((1 .. frames_admitted + 1) \ consumed)
            = Cardinality((1 .. frames_admitted) \ consumed) + 1
      <4>1. frames_admitted \in Nat /\ consumed \in SUBSET (1 .. frames_admitted)
        BY <1>2
      <4> QED
        BY <4>1, AdmitCount
    <3> QED
      BY <1>1, <1>2, <1>3, <2>3, <3>1 DEF ResultFacts, Received
  <2>8. FenceFacts'
    <3>1. \A n \in 0 .. Completed : index_of'[n] = index_of[n]
      BY <1>2, <2>3
    <3> QED
      BY <1>1, <1>2, <2>3, <3>1, FencesKept
  <2>9. LossIsReal'
    BY <1>1, <1>2, <2>3 DEF LossIsReal, InLoop
  <2> QED
    BY <2>2, <2>4, <2>5, <2>6, <2>7, <2>8, <2>9 DEF Inv
<1>4. CASE /\ ~CommandReceiverAlive
           /\ latest_report' = Lost(latest_report)
           /\ UNCHANGED <<commands, frames_admitted, index_of, outstanding_frames>>
  <2>1. ~InLoop
    BY <1>4 DEF CommandReceiverAlive, InLoop
  <2>2. /\ latest_report' \in HandleReport /\ Completed' = Completed
        /\ latest_report'.last_submitted_frame = latest_report.last_submitted_frame
    BY <1>2, <1>4, ReportKept DEF Completed
  <2>3. /\ UNCHANGED historyVars /\ call' \in Call /\ call_pc' \in CallPc
        /\ stop_requested' \in BOOLEAN /\ thread_handle' \in BOOLEAN
        /\ outstanding_fences' \in 0 .. FenceLimit
    BY <1>1, <1>2, <1>4 DEF historyVars, TypeOK
  <2> QED
    BY <1>1, <1>2, <1>4, <2>1, <2>2, <2>3, HandleKeeps
<1> QED
  BY <1>3, <1>4 DEF SubmitFrame

\* A fence command joins the channel, or is refused with or without a loss.
LEMMA FenceCommandKeeps ==
  ASSUME Inv, NEW fence \in RenderFence, fence.mark = frames_admitted,
         NEW kind \in {"InsertFence", "Shutdown"},
         UNCHANGED <<events, workerVars, outstanding_frames,
                     cached_submissions, cached_fences, thread_handle,
                     frames_admitted, index_of, consumed>>,
         \/ commands' = Append(commands, [kind |-> kind, fence |-> fence])
         \/ commands' = commands,
         outstanding_fences' \in 0 .. FenceLimit,
         fences_created' = fences_created + 1, fences_created' <= MaxFence + 1,
         shutdown_called' \in BOOLEAN, stop_requested' \in BOOLEAN,
         latest_report' \in HandleReport, Completed' = Completed,
         latest_report'.last_submitted_frame = latest_report.last_submitted_frame,
         latest_report'.worker_lost \/ latest_report'.state = "WorkerLost" =>
           \/ ~InLoop
           \/ latest_report.worker_lost \/ latest_report.state = "WorkerLost",
         call' \in Call, call_pc' \in CallPc, call_pc # "dropped",
         call_pc' = "idle" => fences_created' <= MaxFence,
         call_pc' \in {"drain", "recvTimeout", "refused", "waited", "join"}
           /\ call'.op # "drop" => fences_created' <= MaxFence
  PROVE  Inv'
<1> DEFINE command == [kind |-> kind, fence |-> fence]
<1>1. /\ TypeOK /\ EventChain /\ EventFacts /\ CommandChain /\ WorkerControl
      /\ ResultFacts /\ FenceFacts /\ LossIsReal /\ frames_admitted \in Nat
      /\ Sent' = Sent /\ taken' = taken /\ worker_pc' = worker_pc
      /\ worker_report' = worker_report /\ fences_created \in Nat
      /\ frames_admitted' = frames_admitted /\ index_of' = index_of
      /\ MaxFence \in Nat /\ Completed \in Nat
  BY HandleContext DEF workerVars, Sent
<1>2. CommandChain' /\ commands' \in Seq(RenderThreadCommand)
  <2>1. CASE commands' = Append(commands, command)
    <3>1. /\ command \in RenderThreadCommand
          /\ FrameCount(command) = frames_admitted /\ Step(command) = 0
      BY <1>1 DEF RenderThreadCommand, FenceCommand, FrameCount, Step, IsFrame
    <3> HIDE DEF command
    <3> QED
      BY <1>1, <2>1, <3>1, CommandSent
  <2>2. CASE commands' = commands
    BY <1>1, <2>2, CommandsKept DEF InService, TypeOK
  <2> QED
    BY <2>1, <2>2
<1>3. TypeOK'
  BY <1>1, <1>2 DEF TypeOK, workerVars
<1>4. EventChain' /\ EventFacts'
  BY <1>1, EventsKept DEF CommandSenderAlive
<1>5. WorkerControl'
  BY <1>1 DEF WorkerControl
<1>6. ResultFacts'
  BY <1>1, ResultsKept
<1>7. FenceFacts'
  BY <1>1 DEF FenceFacts, TypeOK
<1>8. LossIsReal'
  BY <1>1 DEF LossIsReal, InLoop
<1> QED
  BY <1>2, <1>3, <1>4, <1>5, <1>6, <1>7, <1>8 DEF Inv

\* insert_fence: the new fence stands behind every frame admitted before it.
LEMMA InsertFenceKeeps == Inv /\ InsertFence => Inv'
<1> SUFFICES ASSUME Inv, InsertFence PROVE Inv'
  OBVIOUS
<1>1. /\ call_pc = "idle" /\ fences_created < MaxFence
      /\ fences_created' = fences_created + 1
      /\ UNCHANGED <<events, stop_requested, workerVars, outstanding_frames,
                     cached_submissions, cached_fences, thread_handle, callVars,
                     frames_admitted, index_of, consumed, shutdown_called>>
      /\ UNCHANGED <<call, call_pc>>
  BY DEF InsertFence, FenceCall, callVars
<1>2. /\ TypeOK /\ latest_report \in HandleReport
      /\ frames_admitted \in 0 .. MaxFrame /\ MaxFence \in Nat
      /\ fences_created \in 0 .. MaxFence + 1
      /\ outstanding_fences \in 0 .. FenceLimit /\ FenceLimit \in Nat \ {0}
      /\ stop_requested \in BOOLEAN /\ shutdown_called \in BOOLEAN
      /\ call \in Call /\ call_pc \in CallPc
  BY HandleContext DEF TypeOK
<1>3. PICK depth \in SyncDepth, target \in FenceTargets :
        InsertFenceOf(depth, target)
  BY DEF InsertFence
<1> DEFINE fence == [id |-> fences_created + 1, depth |-> depth,
                     target |-> target, mark |-> frames_admitted]
<1>4. fence \in RenderFence /\ fence.mark = frames_admitted
  BY <1>1, <1>2, BoundAssumption DEF RenderFence, FenceId
<1>5. /\ \/ commands' = Append(commands, [kind |-> "InsertFence", fence |-> fence])
         \/ commands' = commands
      /\ \/ latest_report' = latest_report
         \/ latest_report' = Lost(latest_report) /\ ~CommandReceiverAlive
      /\ \/ outstanding_fences' = outstanding_fences
         \/ /\ outstanding_fences' = outstanding_fences + 1
            /\ outstanding_fences < FenceLimit
  BY <1>3 DEF InsertFenceOf, FenceSlotFree
<1>6. /\ latest_report' \in HandleReport /\ Completed' = Completed
      /\ latest_report'.last_submitted_frame = latest_report.last_submitted_frame
  BY <1>2, <1>5, ReportKept DEF Completed
<1>7. latest_report'.worker_lost \/ latest_report'.state = "WorkerLost" =>
        \/ ~InLoop
        \/ latest_report.worker_lost \/ latest_report.state = "WorkerLost"
  BY <1>5 DEF CommandReceiverAlive, InLoop
<1>8. outstanding_fences' \in 0 .. FenceLimit
  BY <1>2, <1>5
<1>9. fences_created' <= MaxFence /\ fences_created' <= MaxFence + 1
  BY <1>1, <1>2
<1> HIDE DEF fence
<1> QED
  BY <1>1, <1>2, <1>4, <1>5, <1>6, <1>7, <1>8, <1>9, FenceCommandKeeps

\* shutdown and Drop: queued, refused by a full channel, or sent to a receiver that is gone.
LEMMA ShutdownKeeps == Inv /\ (Shutdown \/ DropHandle) => Inv'
<1> SUFFICES ASSUME Inv, Shutdown \/ DropHandle PROVE Inv'
  OBVIOUS
<1>1. /\ TypeOK /\ FenceFacts /\ latest_report \in HandleReport
      /\ frames_admitted \in 0 .. MaxFrame /\ MaxFence \in Nat /\ MaxFrame \in Nat
      /\ fences_created \in 0 .. MaxFence + 1
      /\ outstanding_fences \in 0 .. FenceLimit
      /\ stop_requested \in BOOLEAN /\ thread_handle \in BOOLEAN
      /\ call \in Call /\ call_pc = "idle"
      /\ fences_created <= MaxFence
  BY HandleContext DEF TypeOK, FenceFacts, Shutdown, DropHandle
<1>2. ASSUME NEW op \in {"shutdown", "drop"}, SendShutdown(op),
             op = "shutdown" => fences_created < MaxFence
      PROVE  Inv'
  <2> DEFINE fence == [id |-> fences_created + 1, depth |-> "RenderThread",
                       target |-> 0, mark |-> frames_admitted]
  <2>1. fence \in RenderFence /\ fence.mark = frames_admitted /\ fence.id \in Nat
    BY <1>1 DEF RenderFence, FenceId, SyncDepth
  <2>2. /\ shutdown_called' = TRUE
        /\ fences_created' = fences_created + 1
        /\ UNCHANGED <<events, workerVars, outstanding_frames, outstanding_fences,
                       cached_submissions, cached_fences, thread_handle,
                       frames_admitted, index_of, consumed>>
    BY <1>2 DEF SendShutdown
  <2>3. \/ /\ commands' = Append(commands, [kind |-> "Shutdown", fence |-> fence])
           /\ latest_report' = [latest_report EXCEPT !.state = "ShuttingDown"]
           /\ BeginCall(op, fence.id)
           /\ UNCHANGED stop_requested
        \/ /\ call' = [NoCall EXCEPT !.op = op]
           /\ call_pc' = "refused"
           /\ UNCHANGED <<commands, latest_report, stop_requested>>
        \/ /\ ~CommandReceiverAlive
           /\ stop_requested' = TRUE
           /\ latest_report' = Lost(latest_report)
           /\ Return(AfterShutdown(op))
           /\ UNCHANGED commands
    BY <1>2 DEF SendShutdown
  <2> HIDE DEF fence
  <2>4. /\ \/ commands' = Append(commands, [kind |-> "Shutdown", fence |-> fence])
           \/ commands' = commands
        /\ stop_requested' \in BOOLEAN
    BY <1>1, <2>3
  <2>5. \/ latest_report' \in {latest_report,
                               [latest_report EXCEPT !.state = "ShuttingDown"]}
        \/ latest_report' = Lost(latest_report) /\ ~CommandReceiverAlive
    BY <2>3
  <2>6. /\ latest_report' \in HandleReport /\ Completed' = Completed
        /\ latest_report'.last_submitted_frame = latest_report.last_submitted_frame
    BY <1>1, <2>5, ReportKept DEF Completed
  <2>7. latest_report'.worker_lost \/ latest_report'.state = "WorkerLost" =>
          \/ ~InLoop
          \/ latest_report.worker_lost \/ latest_report.state = "WorkerLost"
    BY <1>1, <2>5 DEF CommandReceiverAlive, InLoop, HandleReport
  <2>8. /\ call' \in Call /\ call_pc' \in {"drain", "refused", "idle", "dropping"}
        /\ call_pc' = "idle" => op = "shutdown"
        /\ call_pc' \in {"drain", "refused"} => call'.op = op
    <3>1. CASE BeginCall(op, fence.id)
      BY <2>1, <3>1, CallValues DEF BeginCall
    <3>2. CASE call' = [NoCall EXCEPT !.op = op] /\ call_pc' = "refused"
      BY <3>2, CallValues
    <3>3. CASE Return(AfterShutdown(op))
      BY <3>3, CallValues DEF Return, AfterShutdown
    <3> QED
      BY <2>3, <3>1, <3>2, <3>3
  <2>9. fences_created' <= MaxFence + 1
        /\ (op = "shutdown" => fences_created' <= MaxFence)
    BY <1>1, <1>2, <2>2
  <2>10. call_pc' \in CallPc
    BY <2>8 DEF CallPc
  <2> QED
    BY <1>1, <2>1, <2>2, <2>4, <2>6, <2>7, <2>8, <2>9, <2>10, FenceCommandKeeps
<1>3. ASSUME ~thread_handle, call_pc' = "dropping",
             UNCHANGED <<sharedVars, workerVars, handleVars, call, historyVars>>
      PROVE  Inv'
  <2>1. call_pc' \in CallPc
    BY <1>3 DEF CallPc
  <2> QED
    BY <1>1, <1>3, <2>1, HandleKeeps DEF sharedVars, handleVars, Completed
<1> QED
  BY <1>2, <1>3 DEF Shutdown, DropHandle

\* handle_event keeps the invariant, whichever loop calls it.
LEMMA HandleEventKeeps ==
  ASSUME Inv, events # << >>, HandleEvent,
         call_pc \in {"drain", "recvTimeout"}, call_pc' = "drain"
  PROVE  Inv'
<1> DEFINE event == Head(events)
<1>1. /\ TypeOK /\ EventChain /\ EventFacts /\ CommandChain /\ WorkerControl
      /\ ResultFacts /\ FenceFacts /\ LossIsReal
      /\ latest_report \in HandleReport
      /\ frames_admitted \in 0 .. MaxFrame /\ MaxFrame \in Nat /\ MaxFence \in Nat
      /\ Completed \in 0 .. MaxFrame /\ Sent \in Nat
      /\ Completed <= frames_admitted /\ consumed \subseteq 1 .. Completed
      /\ cached_submissions \subseteq 1 .. MaxFrame
      /\ cached_fences \subseteq FenceResult
      /\ events \in Seq(RenderWorkerEvent) /\ events \in Seq(Message)
  BY HandleContext, QueueTypes DEF TypeOK
<1>2. /\ events' = Tail(events) /\ event \in RenderWorkerEvent /\ event \in Message
      /\ events' \in Seq(RenderWorkerEvent)
      /\ Len(events) \in Nat \ {0} /\ Len(events') = Len(events) - 1
      /\ event = events[1] /\ \A i \in 1 .. Len(events') : events'[i] = events[i + 1]
  BY <1>1, HeadTailProperties, EmptySeq DEF HandleEvent, Message
<1>3. /\ UNCHANGED <<commands, stop_requested, workerVars, outstanding_frames,
                     outstanding_fences, thread_handle, call, historyVars>>
      /\ UNCHANGED <<worker_pc, worker_report, taken, frames_admitted, index_of,
                     consumed, fences_created, shutdown_called>>
  BY DEF HandleEvent, workerVars, historyVars
<1>4. /\ FrameCount(event) = Completed + Step(event)
      /\ Run(Tail(events), FrameCount(event))
      /\ LastCount(Tail(events), FrameCount(event)) = LastCount(events, Completed)
  BY <1>1, RunTail DEF EventChain
<1>5. EventHolds(event)
  <2>1. 1 \in 1 .. Len(events)
    BY <1>2
  <2> QED
    BY <1>1, <1>2, <2>1 DEF EventFacts
<1>6. FrameCount(event) \in 0 .. MaxFrame /\ Step(event) \in 0 .. 1
  BY <1>2, MessageCount
<1>6a. /\ index_of \in [0 .. MaxFrame -> Nat]
       /\ latest_report.last_submitted_frame \in 0 .. frames_admitted
       /\ index_of[latest_report.last_submitted_frame] >= index_of[frames_admitted]
  BY <1>1 DEF TypeOK, ResultFacts, HandleReport
<1>7. /\ Completed' = FrameCount(event) /\ latest_report' \in HandleReport
      /\ latest_report'.last_submitted_frame \in 0 .. frames_admitted
      /\ index_of[latest_report'.last_submitted_frame] >= index_of[frames_admitted]
      /\ latest_report'.worker_lost \/ latest_report'.state = "WorkerLost" =>
           latest_report.worker_lost \/ latest_report.state = "WorkerLost"
      /\ cached_submissions' = IF Step(event) = 1
                                 THEN cached_submissions \cup {FrameCount(event)}
                                 ELSE cached_submissions
      /\ cached_fences' = IF event.kind = "Fence"
                            THEN cached_fences \cup {event.result}
                            ELSE cached_fences
  <2> HIDE DEF event
  <2>1. CASE event.kind = "Submission"
    <3>1. /\ latest_report' = [latest_report EXCEPT !.last_completed_frame = event.frame]
          /\ cached_submissions' = cached_submissions \cup {event.frame}
          /\ cached_fences' = cached_fences
      BY <2>1 DEF HandleEvent, event
    <3>2. FrameCount(event) = event.frame /\ Step(event) = 1
      BY <2>1 DEF FrameCount, Step, IsFrame
    <3>3. /\ latest_report' \in HandleReport
          /\ latest_report'.last_completed_frame = FrameCount(event)
          /\ latest_report'.last_submitted_frame = latest_report.last_submitted_frame
          /\ latest_report'.worker_lost = latest_report.worker_lost
          /\ latest_report'.state = latest_report.state
      BY <1>1, <1>6, <3>1, <3>2 DEF HandleReport
    <3>4. /\ Completed' = FrameCount(event)
          /\ latest_report'.last_submitted_frame \in 0 .. frames_admitted
          /\ index_of[latest_report'.last_submitted_frame] >= index_of[frames_admitted]
      BY <1>6a, <3>3 DEF Completed
    <3> QED
      BY <2>1, <3>1, <3>2, <3>3, <3>4
  <2>2. CASE event.kind = "Fence"
    <3>1. /\ latest_report' = [latest_report EXCEPT
                                 !.last_completed_frame = event.result.completed]
          /\ cached_fences' = cached_fences \cup {event.result}
          /\ cached_submissions' = cached_submissions
      BY <2>2 DEF HandleEvent, event
    <3>2. FrameCount(event) = event.result.completed /\ Step(event) = 0
      BY <2>2 DEF FrameCount, Step, IsFrame
    <3>3. /\ latest_report' \in HandleReport
          /\ latest_report'.last_completed_frame = FrameCount(event)
          /\ latest_report'.last_submitted_frame = latest_report.last_submitted_frame
          /\ latest_report'.worker_lost = latest_report.worker_lost
          /\ latest_report'.state = latest_report.state
      BY <1>1, <1>6, <3>1, <3>2 DEF HandleReport
    <3>4. /\ Completed' = FrameCount(event)
          /\ latest_report'.last_submitted_frame \in 0 .. frames_admitted
          /\ index_of[latest_report'.last_submitted_frame] >= index_of[frames_admitted]
      BY <1>6a, <3>3 DEF Completed
    <3> QED
      BY <2>2, <3>1, <3>2, <3>3, <3>4
  <2>3. CASE event.kind = "WorkerReport"
    <3>1. /\ latest_report' = AcceptedReport(event.report)
          /\ cached_fences' = cached_fences
          /\ cached_submissions' = cached_submissions
      BY <2>3 DEF HandleEvent, event
    <3>2. FrameCount(event) = event.report.last_completed_frame /\ Step(event) = 0
      BY <2>3 DEF FrameCount, Step, IsFrame
    <3>3. /\ event.report \in WorkerReport
          /\ event.report.last_submitted_frame \in 0 .. frames_admitted
      BY <1>1, <1>2, <1>5, <2>3 DEF RenderWorkerEvent, EventHolds, WorkerReport
    <3>4. PICK newest \in 0 .. frames_admitted :
            /\ index_of[newest] >= index_of[frames_admitted]
            /\ AcceptedReport(event.report) =
                 [state |-> event.report.state,
                  last_submitted_frame |-> newest,
                  last_completed_frame |-> event.report.last_completed_frame,
                  worker_lost |-> FALSE]
      <4>1. CASE index_of[event.report.last_submitted_frame]
                   > index_of[latest_report.last_submitted_frame]
        <5>1. /\ index_of[event.report.last_submitted_frame] \in Nat
              /\ index_of[latest_report.last_submitted_frame] \in Nat
              /\ index_of[frames_admitted] \in Nat
          BY <1>1, <1>6a, <3>3
        <5>2. index_of[event.report.last_submitted_frame] >= index_of[frames_admitted]
          BY <1>6a, <4>1, <5>1
        <5> QED
          BY <3>3, <4>1, <5>2 DEF AcceptedReport
      <4>2. CASE ~(index_of[event.report.last_submitted_frame]
                     > index_of[latest_report.last_submitted_frame])
        BY <1>6a, <4>2 DEF AcceptedReport
      <4> QED
        BY <4>1, <4>2
    <3> QED
      BY <1>1, <1>6, <2>3, <3>1, <3>2, <3>3, <3>4
      DEF HandleReport, WorkerReport, RenderWorkerState, Completed
  <2> QED
    BY <1>2, <2>1, <2>2, <2>3 DEF RenderWorkerEvent
<1> HIDE DEF event
<1>8. FrameCount(event) <= frames_admitted /\ Completed <= FrameCount(event)
  BY <1>1, <1>4, <1>5, <1>6 DEF EventHolds
<1>9. event.kind = "Fence" =>
        /\ event.result \in FenceResult /\ FrameCount(event) = event.result.completed
        /\ event.result.mark <= event.result.completed
        /\ event.result.status = "Completed" =>
             event.result.target <= index_of[event.result.completed]
  BY <1>2, <1>5 DEF RenderWorkerEvent, EventHolds, FrameCount, IsFrame
<1>10. Step(event) = 1 => FrameCount(event) \in 1 .. MaxFrame
  BY <1>1, <1>4, <1>6
<1>11. cached_submissions' \subseteq 1 .. MaxFrame
  BY <1>1, <1>7, <1>10
<1>12. cached_fences' \subseteq FenceResult
  BY <1>1, <1>7, <1>9
<1>13. call_pc' \in CallPc
  BY DEF CallPc
<1>14. TypeOK'
  BY <1>1, <1>2, <1>3, <1>7, <1>11, <1>12, <1>13 DEF TypeOK, workerVars
<1>15. EventChain'
  <2>1. /\ CommandSenderAlive' = CommandSenderAlive /\ Sent' = Sent
    BY <1>3 DEF CommandSenderAlive, Sent
  <2> QED
    BY <1>1, <1>2, <1>4, <1>7, <2>1 DEF EventChain
<1>16. EventFacts'
  <2>1. \A e : EventHolds(e)' = EventHolds(e)
    BY <1>3 DEF EventHolds
  <2>2. \A i \in 1 .. Len(events') : i + 1 \in 1 .. Len(events)
    BY <1>2
  <2> QED
    BY <1>1, <1>2, <2>1, <2>2 DEF EventFacts
<1>17. CommandChain'
  BY <1>1, <1>3, CommandsKept DEF InService, Sent
<1>18. WorkerControl'
  BY <1>1, <1>3 DEF WorkerControl, Sent
<1>19. ResultFacts'
  <2>1. Received = 1 .. Completed /\ cached_submissions \cap consumed = {}
        /\ outstanding_frames = Cardinality((1 .. frames_admitted) \ consumed)
    BY <1>1 DEF ResultFacts
  <2>2. CASE Step(event) = 1
    <3>1. /\ FrameCount(event) = Completed + 1
          /\ cached_submissions' = cached_submissions \cup {FrameCount(event)}
      BY <1>4, <1>7, <2>2
    <3>2. Received' = 1 .. FrameCount(event)
      BY <1>1, <1>3, <2>1, <3>1 DEF Received
    <3>3. cached_submissions' \cap consumed = {}
      BY <1>1, <2>1, <3>1
    <3> QED
      BY <1>1, <1>3, <1>7, <1>8, <2>1, <3>2, <3>3 DEF ResultFacts
  <2>3. CASE Step(event) = 0
    <3>1. FrameCount(event) = Completed /\ cached_submissions' = cached_submissions
      BY <1>1, <1>4, <1>7, <2>3
    <3> QED
      BY <1>1, <1>3, <1>7, <2>1, <3>1 DEF ResultFacts, Received
  <2> QED
    BY <1>6, <2>2, <2>3
<1>20. FenceFacts'
  <2>1. \A result \in cached_fences' :
          /\ result.mark <= FrameCount(event)
          /\ result.completed <= FrameCount(event)
          /\ result.status = "Completed" =>
               result.target <= index_of[result.completed]
    <3> SUFFICES ASSUME NEW result \in cached_fences'
                 PROVE  /\ result.mark <= FrameCount(event)
                        /\ result.completed <= FrameCount(event)
                        /\ result.status = "Completed" =>
                             result.target <= index_of[result.completed]
      OBVIOUS
    <3>1. CASE result \in cached_fences
      <4>1. result.mark \in Nat /\ result.completed \in Nat
        BY <1>1, <3>1 DEF FenceResult
      <4> QED
        BY <1>1, <1>6, <1>8, <3>1, <4>1 DEF FenceFacts
    <3>2. CASE event.kind = "Fence" /\ result = event.result
      BY <1>6, <1>9, <3>2
    <3> QED
      BY <1>7, <3>1, <3>2
  <2> QED
    BY <1>1, <1>3, <1>7, <2>1 DEF FenceFacts
<1>21. LossIsReal'
  BY <1>1, <1>3, <1>7 DEF LossIsReal, InLoop
<1> QED
  BY <1>14, <1>15, <1>16, <1>17, <1>18, <1>19, <1>20, <1>21 DEF Inv

\* poll_submission moves at most one cached result to the caller.
LEMMA ReturnPollKeeps == Inv /\ ReturnPoll => Inv'
<1> SUFFICES ASSUME Inv, ReturnPoll PROVE Inv'
  OBVIOUS
<1>1. /\ TypeOK /\ EventChain /\ EventFacts /\ CommandChain /\ WorkerControl
      /\ ResultFacts /\ FenceFacts /\ LossIsReal
      /\ latest_report \in HandleReport /\ thread_handle \in BOOLEAN
      /\ frames_admitted \in 0 .. MaxFrame /\ MaxFrame \in Nat /\ MaxFence \in Nat
      /\ Completed \in 0 .. MaxFrame /\ Completed <= frames_admitted
      /\ outstanding_frames \in 0 .. FrameLimit /\ FrameLimit \in Nat
      /\ outstanding_fences \in 0 .. FenceLimit
      /\ cached_submissions \subseteq 1 .. MaxFrame
  BY HandleContext DEF TypeOK
<1>2. /\ call_pc = "drain" /\ call.op = "poll" /\ Return("idle")
      /\ latest_report' = DrainedReport
      /\ stop_requested' = (stop_requested \/ LossFound)
      /\ UNCHANGED <<commands, events, workerVars, outstanding_fences,
                     cached_fences, thread_handle,
                     frames_admitted, index_of, fences_created, shutdown_called>>
      /\ UNCHANGED <<worker_pc, worker_report, taken>>
  BY DEF ReturnPoll, Drained, workerVars
<1>3. /\ latest_report' \in HandleReport /\ Completed' = Completed
      /\ latest_report'.last_submitted_frame = latest_report.last_submitted_frame
      /\ latest_report'.worker_lost \/ latest_report'.state = "WorkerLost" =>
           \/ ~InLoop
           \/ latest_report.worker_lost \/ latest_report.state = "WorkerLost"
      /\ stop_requested' \in BOOLEAN
  BY <1>1, <1>2, ReportKept DEF Completed
<1>4. /\ call' \in Call /\ call_pc' = "idle" /\ call_pc' \in CallPc
      /\ fences_created <= MaxFence
  BY <1>1, <1>2, CallValues DEF Return, CallPc, FenceFacts
<1>5. CASE call.id \notin cached_submissions
  <2>1. UNCHANGED <<cached_submissions, outstanding_frames, consumed>>
    BY <1>5 DEF ReturnPoll
  <2>2. UNCHANGED historyVars
    BY <1>2, <2>1 DEF historyVars
  <2> QED
    BY <1>1, <1>2, <1>3, <1>4, <2>1, <2>2, HandleKeeps
<1>6. CASE call.id \in cached_submissions
  <2> DEFINE frame == call.id
  <2>1. /\ cached_submissions' = cached_submissions \ {frame}
        /\ outstanding_frames' = outstanding_frames - 1
        /\ consumed' = consumed \cup {frame}
    BY <1>6 DEF ReturnPoll, TakeResult
  <2> HIDE DEF frame
  <2>2. /\ frame \in cached_submissions /\ frame \in 1 .. Completed
        /\ frame \notin consumed
        /\ Received = 1 .. Completed /\ cached_submissions \cap consumed = {}
        /\ outstanding_frames = Cardinality((1 .. frames_admitted) \ consumed)
    BY <1>1, <1>6 DEF ResultFacts, Received, frame
  <2>3. /\ Cardinality((1 .. frames_admitted) \ (consumed \cup {frame}))
             = Cardinality((1 .. frames_admitted) \ consumed) - 1
        /\ Cardinality((1 .. frames_admitted) \ consumed) \in Nat \ {0}
    <3>1. frames_admitted \in Nat /\ frame \in (1 .. frames_admitted) \ consumed
      BY <1>1, <2>2
    <3> QED
      BY <3>1, TakeCount
  <2>4. outstanding_frames' \in 0 .. FrameLimit
    BY <1>1, <2>1, <2>2, <2>3
  <2>5. cached_submissions' \subseteq 1 .. MaxFrame /\ consumed' \subseteq 1 .. MaxFrame
    BY <1>1, <2>1, <2>2 DEF TypeOK
  <2>6. TypeOK'
    BY <1>1, <1>2, <1>3, <1>4, <2>4, <2>5 DEF TypeOK, workerVars
  <2>7. EventChain' /\ EventFacts'
    <3>1. /\ Sent' = Sent
          /\ CommandSenderAlive' => CommandSenderAlive
          /\ frames_admitted' \in Nat /\ frames_admitted <= frames_admitted'
          /\ events' = events /\ Completed' = Completed
          /\ index_of' = index_of
      BY <1>1, <1>2, <1>3, <1>4 DEF Sent, CommandSenderAlive
    <3> QED
      BY <1>1, <3>1, EventsKept
  <2>8. CommandChain'
    BY <1>1, <1>2, CommandsKept DEF InService, Sent
  <2>9. WorkerControl'
    BY <1>1, <1>2 DEF WorkerControl, Sent
  <2>10. ResultFacts'
    <3>1. Received' = 1 .. Completed
      BY <2>1, <2>2 DEF Received
    <3>2. cached_submissions' \cap consumed' = {}
      BY <2>1, <2>2
    <3> QED
      BY <1>1, <1>2, <1>3, <2>1, <2>2, <2>3, <3>1, <3>2 DEF ResultFacts
  <2>11. FenceFacts'
    BY <1>1, <1>2, <1>3, <1>4, FencesKept
  <2>12. LossIsReal'
    BY <1>1, <1>2, <1>3 DEF LossIsReal, InLoop
  <2> QED
    BY <2>6, <2>7, <2>8, <2>9, <2>10, <2>11, <2>12 DEF Inv
<1> QED
  BY <1>5, <1>6

-----------------------------------------------------------------------------
(* The invariant and what follows from it *)

\* Every step of either thread keeps the invariant.
LEMMA NextKeeps == Inv /\ [Next]_vars => Inv'
<1> SUFFICES ASSUME Inv, [Next]_vars PROVE Inv'
  OBVIOUS
<1>1. ASSUME DrainEvent PROVE Inv'
  BY <1>1, HandleEventKeeps DEF DrainEvent
<1>2. ASSUME RecvEvent PROVE Inv'
  BY <1>2, HandleEventKeeps DEF RecvEvent
<1>3. ASSUME UNCHANGED vars PROVE Inv'
  <2>1. /\ UNCHANGED <<commands, events, stop_requested, worker_pc, taken,
                       worker_report, panicked, outstanding_frames,
                       outstanding_fences, cached_submissions, cached_fences,
                       latest_report, thread_handle, call, call_pc,
                       frames_admitted, index_of, consumed, fences_created,
                       shutdown_called>>
    BY <1>3 DEF vars, sharedVars, workerVars, handleVars, callVars, historyVars
  <2>2. /\ Completed' = Completed /\ Sent' = Sent /\ Received' = Received
        /\ InLoop' = InLoop /\ InService' = InService /\ Taken' = Taken
        /\ CommandSenderAlive' = CommandSenderAlive
    BY <2>1 DEF Completed, Sent, Received, InLoop, InService, Taken, CommandSenderAlive
  <2>3. TypeOK'
    BY <2>1 DEF Inv, TypeOK
  <2>4. EventChain' /\ CommandChain'
    BY <2>1, <2>2 DEF Inv, EventChain, CommandChain
  <2>5. EventFacts'
    BY <2>1 DEF Inv, EventFacts, EventHolds
  <2>6. WorkerControl' /\ LossIsReal'
    BY <2>1, <2>2 DEF Inv, WorkerControl, LossIsReal
  <2>7. ResultFacts' /\ FenceFacts'
    BY <2>1, <2>2 DEF Inv, ResultFacts, FenceFacts
  <2> QED
    BY <2>3, <2>4, <2>5, <2>6, <2>7 DEF Inv
<1>4. ASSUME CallStep PROVE Inv'
  BY <1>1, <1>2, <1>4, QuietCallKeeps, ReturnPollKeeps DEF CallStep
<1>5. ASSUME NewCall PROVE Inv'
  BY <1>5, QuietCallKeeps, SubmitFrameKeeps, InsertFenceKeeps, ShutdownKeeps
  DEF NewCall
<1> QED
  BY <1>3, <1>4, <1>5, WorkerKeeps DEF Next, Released

\* Inv holds in every state the two threads reach together.
THEOREM InvAlways == Spec => []Inv
<1>1. Init => Inv
  BY InitInv
<1>2. Inv /\ [Next]_vars => Inv'
  BY NextKeeps
<1> QED
  BY <1>1, <1>2, PTL DEF Spec

\* Every variable keeps its type: no step of either thread, in any order,
\* takes the channels, the counters or the published report out of range.
THEOREM TypeSafety == Spec => []TypeOK
<1>1. Inv => TypeOK
  BY DEF Inv
<1> QED
  BY <1>1, InvAlways, PTL

\* The submissions in the event channel are the frames between those received
\* and those sent.
LEMMA SubmissionsInOrder ==
  ASSUME Inv
  PROVE  /\ SubmissionsOf(events) = Completed + 1 .. LastCount(events, Completed)
         /\ Produced = 1 .. LastCount(events, Completed)
         /\ LastCount(events, Completed) \in 0 .. frames_admitted
         /\ Received = 1 .. Completed /\ Completed \in Nat
<1>1. /\ EventChain /\ TypeOK /\ WorkerControl
      /\ Received = 1 .. Completed /\ Completed \in Nat /\ Sent \in Nat
      /\ frames_admitted \in Nat
      /\ events \in Seq(Message) /\ events \in Seq(RenderWorkerEvent)
      /\ Len(events) \in Nat /\ DOMAIN events = 1 .. Len(events)
      /\ \A i \in 1 .. Len(events) : events[i] \in RenderWorkerEvent
  BY QueueTypes, LenProperties DEF Inv, ResultFacts, TypeOK
<1>2. \A i \in 1 .. Len(events) :
        IsFrame(events[i]) <=> events[i].kind = "Submission"
  BY <1>1 DEF IsFrame, RenderWorkerEvent
<1>3. SubmissionsOf(events) = FramesOf(events)
  BY <1>1, <1>2 DEF SubmissionsOf, FramesOf
<1>4. FramesOf(events) = Completed + 1 .. LastCount(events, Completed)
  BY <1>1 DEF EventChain, Run
<1>5. /\ LastCount(events, Completed) \in Nat
      /\ Completed <= LastCount(events, Completed)
  BY <1>1, RunEnd DEF EventChain
<1>6. LastCount(events, Completed) <= frames_admitted
  BY <1>1, <1>5 DEF EventChain, WorkerControl
<1>7. Produced = 1 .. LastCount(events, Completed)
  <2>1. Produced = SubmissionsOf(events) \cup Received
    BY DEF Produced, Received
  <2> QED
    BY <1>1, <1>3, <1>4, <1>5, <2>1
<1> QED
  BY <1>1, <1>3, <1>4, <1>5, <1>6, <1>7

\* Each admitted frame has at most one result, in one place, in order.
THEOREM ResultsAlwaysInOrder == Spec => []ResultsInOrder
<1>1. Inv => ResultsInOrder
  <2> SUFFICES ASSUME Inv PROVE ResultsInOrder
    OBVIOUS
  <2>1. \E n \in 0 .. frames_admitted : Produced = 1 .. n
    BY SubmissionsInOrder
  <2>2. cached_submissions \cap consumed = {}
    BY DEF Inv, ResultFacts
  <2>3. SubmissionsOf(events) \cap Received = {}
    BY SubmissionsInOrder
  <2>4. ASSUME NEW i \in DOMAIN events, NEW j \in DOMAIN events, i < j,
               events[i].kind = "Submission", events[j].kind = "Submission"
        PROVE  events[i].frame < events[j].frame
    <3>1. i \in 1 .. Len(events) /\ j \in 1 .. Len(events)
      BY LenProperties DEF Inv, TypeOK
    <3>2. events[i] \in Message /\ events[j] \in Message
      BY <3>1, QueueTypes DEF Inv, Message
    <3>3. IsFrame(events[i]) /\ IsFrame(events[j])
      BY <2>4 DEF IsFrame
    <3>4. FrameCount(events[i]) + Step(events[j]) <= FrameCount(events[j])
      BY <2>4, <3>1 DEF Inv, EventChain, Run
    <3>5. /\ FrameCount(events[i]) = events[i].frame
          /\ FrameCount(events[j]) = events[j].frame
          /\ Step(events[j]) = 1
          /\ FrameCount(events[i]) \in Nat /\ FrameCount(events[j]) \in Nat
      BY <3>2, <3>3, MessageCount DEF Step
    <3> QED
      BY <3>4, <3>5
  <2> QED
    BY <2>1, <2>2, <2>3, <2>4 DEF ResultsInOrder
<1> QED
  BY <1>1, InvAlways, PTL

\* The admission counter is the number of results the caller still has to
\* take, and the worker in its loop owes exactly those it has not produced.
THEOREM FramesAlwaysAccounted == Spec => []AdmittedFramesAccounted
<1>1. Inv => AdmittedFramesAccounted
  <2> SUFFICES ASSUME Inv PROVE AdmittedFramesAccounted
    OBVIOUS
  <2>1. outstanding_frames = Cardinality((1 .. frames_admitted) \ consumed)
    BY DEF Inv, ResultFacts
  <2>2. ASSUME InLoop, CommandSenderAlive
        PROVE  /\ Produced \cup Owed = 1 .. frames_admitted
               /\ Produced \cap Owed = {}
    <3>1. /\ TypeOK /\ InService /\ Sent \in Nat /\ frames_admitted \in Nat
          /\ Sent <= frames_admitted /\ commands \in Seq(Message)
          /\ commands \in Seq(RenderThreadCommand)
          /\ Len(commands) \in Nat /\ DOMAIN commands = 1 .. Len(commands)
      BY <2>2, QueueTypes, LenProperties
      DEF Inv, InLoop, InService, WorkerControl, TypeOK
    <3>2. Produced = 1 .. Sent
      BY <2>2, SubmissionsInOrder DEF Inv, EventChain
    <3>3. \A i \in 1 .. Len(commands) :
            IsFrame(commands[i]) <=> commands[i].kind = "SubmitFrame"
      <4>1. \A i \in 1 .. Len(commands) : commands[i] \in RenderThreadCommand
        BY <3>1, ElementOfSeq
      <4> QED
        BY <4>1 DEF IsFrame, RenderThreadCommand, FrameCommand, FenceCommand
    <3>4. Owed = FramesOf(commands)
                   \cup (IF taken.kind = "SubmitFrame" THEN {taken.frame} ELSE {})
      BY <3>1, <3>3 DEF Owed, FramesOf
    <3>5. FramesOf(commands) = Taken + 1 .. frames_admitted
      BY <3>1 DEF Inv, CommandChain, Run
    <3>6. CASE taken.kind = "SubmitFrame"
      <4>1. taken # NoCommand /\ taken.frame \in Nat
        BY <3>1, <3>6, QueueTypes DEF NoCommand, FrameCommand
      <4>2. FrameCount(taken) = Sent + Step(taken)
        BY <3>1, <4>1 DEF Inv, CommandChain
      <4>3. taken.frame = Sent + 1 /\ Taken = Sent + 1
        BY <3>6, <4>2 DEF FrameCount, Step, IsFrame, Taken
      <4>4. Taken \in Nat => Taken <= LastCount(commands, Taken)
        BY <3>1, RunEnd DEF Inv, CommandChain
      <4>5. Taken <= frames_admitted
        BY <3>1, <4>1, <4>3, <4>4 DEF Inv, CommandChain
      <4> QED
        BY <3>1, <3>2, <3>4, <3>5, <3>6, <4>3, <4>5
    <3>7. CASE taken.kind # "SubmitFrame"
      BY <3>1, <3>2, <3>4, <3>5, <3>7 DEF Taken
    <3> QED
      BY <3>6, <3>7
  <2> QED
    BY <2>1, <2>2 DEF AdmittedFramesAccounted
<1> QED
  BY <1>1, InvAlways, PTL

\* A fence covers every frame admitted before it, so flush, then poll, finds
\* the result; a completed one names a received frame of the index it asked for.
THEOREM FencesAlwaysCover == Spec => []CompletedFenceCoversFrames
<1>1. Inv => CompletedFenceCoversFrames
  <2> SUFFICES ASSUME Inv, NEW result \in cached_fences
               PROVE  /\ 1 .. result.mark \subseteq Received
                      /\ result.status = "Completed" =>
                           \E n \in Received \cup {0} : index_of[n] >= result.target
    BY DEF CompletedFenceCoversFrames
  <2>1. Received = 1 .. Completed /\ Completed \in Nat
    BY SubmissionsInOrder
  <2>2. /\ result.mark \in Nat /\ result.completed \in 0 .. MaxFrame
        /\ result.target \in Nat /\ index_of \in [0 .. MaxFrame -> Nat]
        /\ result.mark <= Completed /\ result.completed <= Completed
        /\ result.status = "Completed" => result.target <= index_of[result.completed]
    BY BoundAssumption DEF Inv, TypeOK, FenceResult, FenceFacts
  <2>3. result.completed \in Received \cup {0}
    BY <2>1, <2>2, BoundAssumption
  <2>4. index_of[result.completed] \in Nat
    BY <2>2
  <2> QED
    BY <2>1, <2>2, <2>3, <2>4
<1> QED
  BY <1>1, InvAlways, PTL

\* The published report names the newest result received, and its lag never
\* understates what is missing, whatever indices the caller gives its frames.
THEOREM ReportAlwaysMatches == Spec => []ReportMatchesResults
<1>1. Inv => ReportMatchesResults
  <2> DEFINE newest == latest_report.last_submitted_frame
  <2> SUFFICES ASSUME Inv PROVE ReportMatchesResults
    OBVIOUS
  <2>1. /\ Received = 1 .. Completed /\ Completed \in 0 .. MaxFrame
        /\ frames_admitted \in 0 .. MaxFrame /\ Completed <= frames_admitted
        /\ newest \in 0 .. frames_admitted
        /\ index_of[newest] >= index_of[frames_admitted]
        /\ index_of \in [0 .. MaxFrame -> Nat]
    BY HandleContext, SubmissionsInOrder DEF ResultFacts, TypeOK, HandleReport
  <2>2. /\ index_of[newest] \in Nat /\ index_of[Completed] \in Nat
        /\ index_of[frames_admitted] \in Nat
    BY <2>1, BoundAssumption
  <2>3. InFlightFrames(latest_report) = IndexGap(Completed, newest)
    BY DEF InFlightFrames, Completed
  <2>4. IndexGap(Completed, newest) >= IndexGap(Completed, frames_admitted)
    BY <2>1, <2>2 DEF IndexGap
  <2>5. ASSUME IndicesNeverFall
        PROVE  IndexGap(Completed, newest)
                 = index_of[frames_admitted] - index_of[Completed]
    <3>1. /\ index_of[newest] <= index_of[frames_admitted]
          /\ index_of[Completed] <= index_of[frames_admitted]
      BY <2>1, <2>5 DEF IndicesNeverFall
    <3> QED
      BY <2>1, <2>2, <3>1 DEF IndexGap
  <2>6. ASSUME IndicesGrow
        PROVE  IndexGap(Completed, newest) = 0 <=> Received = 1 .. frames_admitted
    <3>1. CASE Completed = frames_admitted
      <4>1. newest # frames_admitted => index_of[newest] < index_of[frames_admitted]
        BY <2>1, <2>6 DEF IndicesGrow
      <4>2. newest = frames_admitted
        BY <2>1, <2>2, <4>1
      <4> QED
        BY <2>1, <2>2, <3>1, <4>2 DEF IndexGap
    <3>2. CASE Completed # frames_admitted
      <4>1. index_of[Completed] < index_of[frames_admitted]
        BY <2>1, <2>6, <3>2 DEF IndicesGrow
      <4>2. IndexGap(Completed, newest) # 0
        BY <2>1, <2>2, <4>1 DEF IndexGap
      <4>3. frames_admitted \in 1 .. frames_admitted /\ frames_admitted \notin Received
        BY <2>1, <3>2
      <4> QED
        BY <4>2, <4>3
    <3> QED
      BY <3>1, <3>2
  <2> HIDE DEF newest
  <2> QED
    BY <2>1, <2>3, <2>4, <2>5, <2>6 DEF ReportMatchesResults, Completed
<1> QED
  BY <1>1, InvAlways, PTL

\* A worker is only called lost once its thread left the loop.
THEOREM LossAlwaysReal == Spec => []LossIsReal
<1>1. Inv => LossIsReal
  BY DEF Inv
<1> QED
  BY <1>1, InvAlways, PTL

\* A result that reached the handle stays there until the caller takes it, and
\* is remembered then.
LEMMA ReceivedGrows == [Next]_vars => Received \subseteq Received'
<1> SUFFICES ASSUME [Next]_vars PROVE Received \subseteq Received'
  OBVIOUS
<1>1. ASSUME HandleEvent PROVE Received \subseteq Received'
  BY <1>1 DEF HandleEvent, Received, historyVars
<1>2. ASSUME ReturnPoll PROVE Received \subseteq Received'
  BY <1>2 DEF ReturnPoll, TakeResult, Received
<1>3. ASSUME UNCHANGED <<cached_submissions, consumed>>
      PROVE  Received \subseteq Received'
  BY <1>3 DEF Received
<1>4. ASSUME WorkerStep \/ PanicInFrame PROVE Received \subseteq Received'
  BY <1>3, <1>4
  DEF WorkerStep, PanicInFrame, WorkerStart, WorkerRecv, WorkerHangup, WorkerStop,
    WorkerAccept, FinishFrame, SendProgress, AnswerFence, BeginShutdown,
    AnswerShutdown, ReportStopped, ThreadExit, handleVars, historyVars
<1>5. ASSUME CallStep PROVE Received \subseteq Received'
  BY <1>1, <1>2, <1>3, <1>5
  DEF CallStep, DrainEvent, RecvEvent, ReturnReport, WaitAnswered, WaitTimeout,
    WaitMore, RecvNothing, RecvDisconnected, ShutdownRefused, CloseAdmission,
    JoinThread, DropFields, handleVars, historyVars
<1>6. ASSUME NewCall PROVE Received \subseteq Received'
  BY <1>3, <1>6
  DEF NewCall, SubmitFrame, InsertFence, FenceCall, PollSubmission, WaitFence, LatestReport,
    Shutdown, DropHandle, SendShutdown, handleVars, historyVars
<1>7. ASSUME UNCHANGED vars PROVE Received \subseteq Received'
  BY <1>3, <1>7 DEF vars, handleVars, historyVars
<1> QED
  BY <1>4, <1>5, <1>6, <1>7 DEF Next, Released

\* No step changes the index of a frame that was admitted.
LEMMA IndexStays ==
  ASSUME TypeOK, [Next]_vars
  PROVE  /\ frames_admitted' \in Nat /\ frames_admitted <= frames_admitted'
         /\ \A n \in 0 .. frames_admitted : index_of'[n] = index_of[n]
<1>1. frames_admitted \in Nat /\ index_of \in [0 .. MaxFrame -> Nat]
  BY BoundAssumption DEF TypeOK
<1>2. ASSUME SubmitFrame
      PROVE  /\ frames_admitted' \in Nat /\ frames_admitted <= frames_admitted'
             /\ \A n \in 0 .. frames_admitted : index_of'[n] = index_of[n]
  <2>1. CASE UNCHANGED <<frames_admitted, index_of>>
    BY <1>1, <2>1
  <2>2. ASSUME NEW index,
               frames_admitted' = frames_admitted + 1,
               index_of' = [index_of EXCEPT ![frames_admitted + 1] = index]
        PROVE  /\ frames_admitted' \in Nat /\ frames_admitted <= frames_admitted'
               /\ \A n \in 0 .. frames_admitted : index_of'[n] = index_of[n]
    <3>1. frames_admitted \in 0 .. MaxFrame
      BY DEF TypeOK
    <3>2. \A n \in 0 .. frames_admitted : n # frames_admitted + 1 /\ n \in 0 .. MaxFrame
      BY <3>1, BoundAssumption
    <3> QED
      BY <1>1, <2>2, <3>2
  <2> QED
    BY <1>2, <2>1, <2>2 DEF SubmitFrame
<1>3. ASSUME UNCHANGED <<frames_admitted, index_of>>
      PROVE  /\ frames_admitted' \in Nat /\ frames_admitted <= frames_admitted'
             /\ \A n \in 0 .. frames_admitted : index_of'[n] = index_of[n]
  BY <1>1, <1>3
<1>4. ASSUME WorkerStep \/ PanicInFrame
      PROVE  UNCHANGED <<frames_admitted, index_of>>
  BY <1>4
  DEF WorkerStep, PanicInFrame, WorkerStart, WorkerRecv, WorkerHangup, WorkerStop,
    WorkerAccept, FinishFrame, SendProgress, AnswerFence, BeginShutdown,
    AnswerShutdown, ReportStopped, ThreadExit, historyVars
<1>5. ASSUME CallStep PROVE UNCHANGED <<frames_admitted, index_of>>
  BY <1>5
  DEF CallStep, DrainEvent, RecvEvent, HandleEvent, ReturnPoll, ReturnReport,
    WaitAnswered, WaitTimeout, WaitMore, RecvNothing, RecvDisconnected,
    ShutdownRefused, CloseAdmission, JoinThread, DropFields, historyVars
<1>6. ASSUME NewCall, ~SubmitFrame PROVE UNCHANGED <<frames_admitted, index_of>>
  BY <1>6
  DEF NewCall, InsertFence, FenceCall, PollSubmission, WaitFence, LatestReport,
    Shutdown, DropHandle, SendShutdown, historyVars
<1>7. ASSUME UNCHANGED vars PROVE UNCHANGED <<frames_admitted, index_of>>
  BY <1>7 DEF vars, historyVars
<1> QED
  BY <1>2, <1>3, <1>4, <1>5, <1>6, <1>7 DEF Next, Released

\* No event replaces the published completed frame by an earlier one, and the
\* published index falls only if the caller's did.
THEOREM CompletedOnlyGrows == Spec => CompletedNeverRegresses
<1>1. Inv /\ Inv' /\ [Next]_vars =>
        [/\ latest_report'.last_completed_frame >= latest_report.last_completed_frame
         /\ IndicesNeverFall' =>
              index_of'[latest_report'.last_completed_frame]
                >= index_of[latest_report.last_completed_frame]]_vars
  <2> SUFFICES ASSUME Inv, Inv', [Next]_vars
               PROVE  /\ Completed' >= Completed
                      /\ IndicesNeverFall' =>
                           index_of'[Completed'] >= index_of[Completed]
    BY DEF Completed
  <2>1. /\ Received = 1 .. Completed
        /\ Completed \in Nat /\ Completed <= frames_admitted
    BY SubmissionsInOrder DEF Inv, ResultFacts
  <2>2. /\ Received' = 1 .. Completed'
        /\ Completed' \in Nat /\ Completed' <= frames_admitted'
        /\ index_of' \in [0 .. MaxFrame -> Nat] /\ frames_admitted' \in 0 .. MaxFrame
    <3>1. TypeOK' /\ ResultFacts'
      BY DEF Inv
    <3>2. /\ latest_report' \in HandleReport
          /\ index_of' \in [0 .. MaxFrame -> Nat] /\ frames_admitted' \in 0 .. MaxFrame
      BY <3>1 DEF TypeOK
    <3>3. Completed' \in Nat
      BY <3>2, BoundAssumption DEF HandleReport, Completed
    <3> QED
      BY <3>1, <3>2, <3>3 DEF ResultFacts
  <2>3. Received \subseteq Received'
    BY ReceivedGrows
  <2>4. Completed' >= Completed
    BY <2>1, <2>2, <2>3
  <2>5. ASSUME IndicesNeverFall' PROVE index_of'[Completed'] >= index_of[Completed]
    <3>1. /\ frames_admitted' \in Nat /\ frames_admitted <= frames_admitted'
          /\ \A n \in 0 .. frames_admitted : index_of'[n] = index_of[n]
      BY IndexStays DEF Inv
    <3>2. frames_admitted \in Nat
      BY DEF Inv, TypeOK
    <3>3. /\ Completed \in 0 .. frames_admitted /\ Completed \in 0 .. frames_admitted'
          /\ Completed' \in 0 .. frames_admitted'
      BY <2>1, <2>2, <3>1, <3>2
    <3>4. index_of'[Completed] <= index_of'[Completed']
      BY <2>4, <2>5, <3>3 DEF IndicesNeverFall
    <3>5. index_of'[Completed] = index_of[Completed]
      BY <3>1, <3>3
    <3>6. index_of'[Completed] \in Nat /\ index_of'[Completed'] \in Nat
      BY <2>2, <3>3, BoundAssumption
    <3> QED
      BY <3>4, <3>5, <3>6
  <2> QED
    BY <2>4, <2>5
<1> QED
  BY <1>1, InvAlways, PTL DEF Spec, CompletedNeverRegresses

-----------------------------------------------------------------------------
(* The second invariant: what a shutdown leaves behind *)

\* What ShutdownInv needs of the types.
LEMMA ShutdownTypes ==
  ASSUME TypeOK
  PROVE  /\ events \in Seq(RenderWorkerEvent) /\ commands \in Seq(RenderThreadCommand)
         /\ Len(events) \in Nat /\ Len(commands) \in Nat
         /\ fences_created \in Nat /\ frames_admitted \in Nat
         /\ \A i \in 1 .. Len(events) : events[i] \in RenderWorkerEvent
         /\ \A i \in 1 .. Len(commands) : commands[i] \in RenderThreadCommand
         /\ \A event \in RenderWorkerEvent :
              event.kind = "Fence" => event.result \in FenceResult
         /\ \A command \in RenderThreadCommand :
              command.kind # "SubmitFrame" => command.fence \in RenderFence
         /\ \A result \in FenceResult : result.id \in Nat
         /\ \A fence \in RenderFence : fence.id \in Nat
<1>1. events \in Seq(RenderWorkerEvent) /\ commands \in Seq(RenderThreadCommand)
  BY DEF TypeOK
<1>2. /\ \A i \in 1 .. Len(events) : events[i] \in RenderWorkerEvent
      /\ \A i \in 1 .. Len(commands) : commands[i] \in RenderThreadCommand
  BY <1>1, ElementOfSeq
<1>3. fences_created \in Nat /\ frames_admitted \in Nat
  BY BoundAssumption DEF TypeOK
<1>4. /\ \A event \in RenderWorkerEvent :
           event.kind = "Fence" => event.result \in FenceResult
      /\ \A command \in RenderThreadCommand :
           command.kind # "SubmitFrame" => command.fence \in RenderFence
  BY DEF RenderWorkerEvent, RenderThreadCommand, FrameCommand, FenceCommand
<1>5. /\ \A result \in FenceResult : result.id \in Nat
      /\ \A fence \in RenderFence : fence.id \in Nat
  BY BoundAssumption DEF FenceResult, RenderFence, FenceId
<1> QED
  BY <1>1, <1>2, <1>3, <1>4, <1>5, LenProperties

\* Nothing was shut down, answered or stopped yet.
LEMMA InitShutdownInv == Init => ShutdownInv
<1> SUFFICES ASSUME Init PROVE ShutdownInv
  OBVIOUS
<1>1. /\ commands = << >> /\ events = << >> /\ cached_fences = {}
      /\ taken = NoCommand /\ call = NoCall /\ call_pc = "idle"
      /\ worker_pc = "start" /\ ~panicked /\ ~shutdown_called
      /\ worker_report.state = "Running" /\ latest_report.state = "Running"
  BY DEF Init
<1>2. call.op = "none" /\ ~InShutdown /\ taken.kind = "None"
  BY <1>1 DEF NoCall, NoCommand, InShutdown
<1>3. CallShape
  BY <1>1, <1>2 DEF CallShape
<1>4. FenceIdsKnown
  BY <1>1, <1>2 DEF FenceIdsKnown
<1>5. ShutdownIsLast
  BY <1>1, <1>2 DEF ShutdownIsLast, IsLast
<1>6. StoppedIsClean
  BY <1>1, <1>2 DEF StoppedIsClean
<1>7. AnswerIsLast
  BY <1>1, <1>2 DEF AnswerIsLast, AwaitsShutdown
<1>8. ShutdownStages
  BY <1>1, <1>2 DEF ShutdownStages
<1> QED
  BY <1>3, <1>4, <1>5, <1>6, <1>7, <1>8 DEF ShutdownInv

\* A step of the worker: what it sends once it answered a shutdown is a
\* farewell, and it takes its commands from the channel.
LEMMA WorkerStaysQuiet ==
  ASSUME Inv, ShutdownInv, NEW event,
         UNCHANGED <<stop_requested, handleVars, callVars, historyVars>>,
         Served => Served',
         \/ events' = events
         \/ /\ events' = Append(events, event)
            /\ Served => IsFarewell(event)
            /\ event.kind = "Fence" =>
                 /\ event.result.id <= fences_created
                 /\ AwaitsShutdown /\ event.result.id = call.id =>
                      Served' /\ event.result.completed = frames_admitted
            /\ IsFarewell(event) =>
                 /\ shutdown_called /\ Served'
                 /\ event.report.last_completed_frame = frames_admitted,
         \A i \in 1 .. Len(commands') :
           \E j \in 1 .. Len(commands) : commands'[i] = commands[j],
         \/ taken' \in {taken, NoCommand}
         \/ \E j \in 1 .. Len(commands) : taken' = commands[j],
         worker_pc' \in {"answerShutdown", "reportStopped"} =>
           shutdown_called /\ Sent' = frames_admitted,
         panicked' => worker_pc' \in LeavingPc,
         worker_report'.state = "Stopped" => worker_pc' \in LeavingPc
  PROVE  ShutdownInv'
<1>1. /\ CallShape /\ FenceIdsKnown /\ ShutdownIsLast /\ StoppedIsClean
      /\ AnswerIsLast /\ ShutdownStages
  BY DEF ShutdownInv
<1>2. UNCHANGED <<stop_requested, cached_fences, latest_report, call, call_pc,
                  frames_admitted, fences_created, shutdown_called>>
  BY DEF handleVars, callVars, historyVars
<1>3. /\ events \in Seq(RenderWorkerEvent) /\ Len(events) \in Nat
      /\ Completed' = Completed
  BY <1>2, ShutdownTypes DEF Inv, Completed
<1>4. /\ InShutdown' = InShutdown /\ AwaitsShutdown' = AwaitsShutdown
      /\ Answers' = Answers /\ Waiting' = Waiting
  BY <1>2 DEF InShutdown, AwaitsShutdown, Answers, Waiting
<1>5. /\ Len(events') \in Nat
      /\ \A i \in 1 .. Len(events') :
           \/ i \in 1 .. Len(events) /\ events'[i] = events[i]
           \/ /\ i = Len(events') /\ events'[i] = event
              /\ Served => IsFarewell(event)
              /\ event.kind = "Fence" =>
                   /\ event.result.id <= fences_created
                   /\ AwaitsShutdown /\ event.result.id = call.id =>
                        Served' /\ event.result.completed = frames_admitted
              /\ IsFarewell(event) =>
                   /\ shutdown_called /\ Served'
                   /\ event.report.last_completed_frame = frames_admitted
  <2>1. CASE events' = events
    BY <1>3, <2>1
  <2>2. CASE events' # events
    <3>1. events' = Append(events, event)
      BY <2>2
    <3>2. /\ Len(events') = Len(events) + 1
          /\ \A i \in 1 .. Len(events) : events'[i] = events[i]
          /\ events'[Len(events) + 1] = event
      BY <1>3, <3>1
    <3> QED
      BY <1>3, <2>2, <3>2
  <2> QED
    BY <2>1, <2>2
<1>6. ASSUME NEW n \in Nat, Served, QuietAfter(n) PROVE QuietAfter(n)'
  BY <1>5, <1>6 DEF QuietAfter
<1>7. AllReceived => AllReceived'
  BY <1>2, <1>3, <1>6 DEF AllReceived
<1>8. CallShape'
  BY <1>1, <1>2, <1>4 DEF CallShape
<1>9. \A command : IsLast(command)' = IsLast(command)
  BY <1>2 DEF IsLast
<1>10. ASSUME taken' # taken, taken' # NoCommand
       PROVE  \E j \in 1 .. Len(commands) : taken' = commands[j]
  BY <1>10
<1>11. FenceIdsKnown'
  <2>1. ASSUME NEW i \in 1 .. Len(commands'), commands'[i].kind # "SubmitFrame"
        PROVE  commands'[i].fence.id <= fences_created'
    BY <1>1, <1>2, <2>1 DEF FenceIdsKnown
  <2>2. ASSUME taken'.kind \in {"InsertFence", "Shutdown"}
        PROVE  taken'.fence.id <= fences_created'
    BY <1>1, <1>2, <1>10, <2>2 DEF FenceIdsKnown, NoCommand
  <2>3. ASSUME NEW i \in 1 .. Len(events'), events'[i].kind = "Fence"
        PROVE  events'[i].result.id <= fences_created'
    BY <1>1, <1>2, <1>5, <2>3 DEF FenceIdsKnown
  <2>4. \A result \in cached_fences' : result.id <= fences_created'
    BY <1>1, <1>2 DEF FenceIdsKnown
  <2> QED
    BY <2>1, <2>2, <2>3, <2>4 DEF FenceIdsKnown
<1>12. ShutdownIsLast'
  <2>1. \A i \in 1 .. Len(commands') : IsLast(commands'[i])
    BY <1>1 DEF ShutdownIsLast
  <2>2. IsLast(taken')
    BY <1>1, <1>10 DEF ShutdownIsLast, NoCommand, IsLast
  <2> QED
    BY <1>2, <1>9, <2>1, <2>2 DEF ShutdownIsLast, IsLast
<1>13. StoppedIsClean'
  <2>1. ASSUME NEW i \in 1 .. Len(events'), IsFarewell(events'[i])
        PROVE  /\ shutdown_called /\ Served'
               /\ events'[i].report.last_completed_frame = frames_admitted
    BY <1>1, <1>5, <2>1 DEF StoppedIsClean
  <2>2. latest_report'.state = "Stopped" =>
          shutdown_called' /\ Served' /\ Completed' = frames_admitted'
    BY <1>1, <1>2, <1>3 DEF StoppedIsClean
  <2> QED
    BY <1>2, <2>1, <2>2 DEF StoppedIsClean, IsFarewell
<1>14. AnswerIsLast'
  <2> SUFFICES ASSUME AwaitsShutdown
               PROVE  (/\ \A i \in 1 .. Len(commands) :
                            commands[i].kind = "InsertFence" =>
                              commands[i].fence.id # call.id
                       /\ taken.kind = "InsertFence" => taken.fence.id # call.id
                       /\ \A i \in 1 .. Len(events) :
                            events[i].kind = "Fence" /\ events[i].result.id = call.id =>
                              /\ Served /\ QuietAfter(i)
                              /\ events[i].result.completed = frames_admitted
                       /\ Answers # {} => AllReceived)'
    BY <1>4 DEF AnswerIsLast
  <2>1. ASSUME NEW i \in 1 .. Len(commands'), commands'[i].kind = "InsertFence"
        PROVE  commands'[i].fence.id # call'.id
    BY <1>1, <1>2, <2>1 DEF AnswerIsLast
  <2>2. taken'.kind = "InsertFence" => taken'.fence.id # call'.id
    BY <1>1, <1>2, <1>10 DEF AnswerIsLast, NoCommand
  <2>3. ASSUME NEW i \in 1 .. Len(events'),
               events'[i].kind = "Fence", events'[i].result.id = call'.id
        PROVE  /\ Served' /\ QuietAfter(i)'
               /\ events'[i].result.completed = frames_admitted'
    <3>1. CASE i \in 1 .. Len(events) /\ events'[i] = events[i]
      BY <1>1, <1>2, <1>6, <2>3, <3>1 DEF AnswerIsLast
    <3>2. CASE ~(i \in 1 .. Len(events) /\ events'[i] = events[i])
      <4>1. i = Len(events') /\ Served' /\ events'[i].result.completed = frames_admitted'
        BY <1>2, <1>5, <2>3, <3>2
      <4>2. QuietAfter(i)'
        BY <1>5, <4>1 DEF QuietAfter
      <4> QED
        BY <4>1, <4>2
    <3> QED
      BY <3>1, <3>2
  <2>4. Answers' # {} => AllReceived'
    BY <1>1, <1>4, <1>7 DEF AnswerIsLast
  <2> QED
    BY <2>1, <2>2, <2>3, <2>4
<1>15. ShutdownStages'
  BY <1>1, <1>2, <1>4, <1>7 DEF ShutdownStages
<1> QED
  BY <1>8, <1>11, <1>12, <1>13, <1>14, <1>15 DEF ShutdownInv

\* Every step of the worker thread keeps the second invariant.
LEMMA WorkerShuts == Inv /\ ShutdownInv /\ (WorkerStep \/ PanicInFrame) => ShutdownInv'
<1> SUFFICES ASSUME Inv, ShutdownInv, WorkerStep \/ PanicInFrame
             PROVE  ShutdownInv'
  OBVIOUS
<1>1. /\ TypeOK /\ WorkerControl /\ CommandChain
      /\ ShutdownIsLast /\ StoppedIsClean /\ FenceIdsKnown /\ AnswerIsLast
      /\ worker_report \in WorkerReport
      /\ worker_report.state = "Stopped" => worker_pc \in LeavingPc
      /\ panicked => worker_pc \in LeavingPc
      /\ Served => worker_pc \in LeavingPc \cup {"reportStopped"}
      /\ worker_pc \in {"answerShutdown", "reportStopped"} =>
           shutdown_called /\ Sent = frames_admitted
      /\ \A i \in 1 .. Len(commands) : \E j \in 1 .. Len(commands) :
           commands[i] = commands[j]
  BY DEF Inv, ShutdownInv, TypeOK, ShutdownIsLast, StoppedIsClean, Served
<1>2. ASSUME WorkerStart PROVE ShutdownInv'
  <2> DEFINE event == [kind |-> "WorkerReport", report |-> worker_report]
  <2>1. /\ event.kind # "Fence" /\ ~IsFarewell(event) /\ ~Served
        /\ events' = events \/ events' = Append(events, event)
        /\ worker_pc' = "recv" /\ ~panicked /\ worker_report.state # "Stopped"
        /\ UNCHANGED <<commands, stop_requested, taken, worker_report, panicked,
                       handleVars, callVars, historyVars>>
    BY <1>1, <1>2 DEF WorkerStart, Send, LeavingPc, IsFarewell
  <2> HIDE DEF event
  <2> QED
    BY <1>1, <2>1, WorkerStaysQuiet DEF LeavingPc
<1>3. ASSUME WorkerRecv PROVE ShutdownInv'
  <2>1. /\ ~Served /\ worker_pc' = "taken" /\ ~panicked /\ commands # << >>
        /\ taken' = Head(commands) /\ commands' = Tail(commands)
        /\ worker_report.state # "Stopped"
        /\ UNCHANGED <<events, stop_requested, worker_report, panicked,
                       handleVars, callVars, historyVars>>
    BY <1>1, <1>3 DEF WorkerRecv, LeavingPc
  <2>2. commands \in Seq(RenderThreadCommand)
    BY <1>1 DEF TypeOK
  <2>3. /\ Len(commands) \in Nat \ {0} /\ Len(commands') = Len(commands) - 1
        /\ taken' = commands[1]
        /\ \A i \in 1 .. Len(commands') : commands'[i] = commands[i + 1]
    BY <2>1, <2>2, HeadTailProperties, EmptySeq
  <2>4. /\ \A i \in 1 .. Len(commands') :
             \E j \in 1 .. Len(commands) : commands'[i] = commands[j]
        /\ \E j \in 1 .. Len(commands) : taken' = commands[j]
    BY <2>3
  <2> QED
    BY <1>1, <2>1, <2>4, WorkerStaysQuiet DEF LeavingPc
<1>4. ASSUME WorkerHangup \/ WorkerStop \/ PanicInFrame PROVE ShutdownInv'
  <2>1. /\ ~Served /\ worker_pc' = "dropSender"
        /\ taken' \in {taken, NoCommand}
        /\ UNCHANGED <<commands, events, stop_requested, worker_report,
                       handleVars, callVars, historyVars>>
    BY <1>1, <1>4 DEF WorkerHangup, WorkerStop, PanicInFrame, LeaveLoop, Serving,
      LeavingPc, sharedVars
  <2> QED
    BY <1>1, <2>1, WorkerStaysQuiet DEF LeavingPc
<1>5. ASSUME WorkerAccept PROVE ShutdownInv'
  <2>1. /\ ~Served /\ worker_pc' = "serve" /\ ~panicked
        /\ worker_report'.state = worker_report.state
        /\ worker_report.state # "Stopped"
        /\ UNCHANGED <<commands, events, stop_requested, taken, panicked,
                       handleVars, callVars, historyVars>>
    BY <1>1, <1>5 DEF WorkerAccept, LeavingPc, sharedVars, WorkerReport
  <2> QED
    BY <1>1, <2>1, WorkerStaysQuiet DEF LeavingPc
<1>6. ASSUME FinishFrame PROVE ShutdownInv'
  <2> DEFINE event == [kind |-> "Submission", frame |-> taken.frame]
  <2>1. /\ event.kind # "Fence" /\ ~IsFarewell(event) /\ ~Served
        /\ events' = events \/ events' = Append(events, event)
        /\ worker_pc' = "progress" /\ ~panicked
        /\ worker_report'.state = worker_report.state
        /\ worker_report.state # "Stopped" /\ taken' = NoCommand
        /\ UNCHANGED <<commands, stop_requested, panicked,
                       handleVars, callVars, historyVars>>
    BY <1>1, <1>6 DEF FinishFrame, Serving, Send, LeavingPc, IsFarewell, WorkerReport
  <2> HIDE DEF event
  <2> QED
    BY <1>1, <2>1, WorkerStaysQuiet DEF LeavingPc
<1>7. ASSUME SendProgress PROVE ShutdownInv'
  <2> DEFINE event == [kind |-> "WorkerReport", report |-> worker_report]
  <2>1. /\ event.kind # "Fence" /\ ~IsFarewell(event) /\ ~Served
        /\ events' = events \/ events' = Append(events, event)
        /\ worker_pc' = "recv" /\ ~panicked /\ worker_report.state # "Stopped"
        /\ UNCHANGED <<commands, stop_requested, taken, worker_report, panicked,
                       handleVars, callVars, historyVars>>
    BY <1>1, <1>7 DEF SendProgress, Send, LeavingPc, IsFarewell
  <2> HIDE DEF event
  <2> QED
    BY <1>1, <2>1, WorkerStaysQuiet DEF LeavingPc
<1>8. ASSUME AnswerFence PROVE ShutdownInv'
  <2> DEFINE event == [kind |-> "Fence", result |-> CompletedResult(taken.fence, Sent)]
  <2>1. /\ event.kind = "Fence" /\ ~IsFarewell(event) /\ ~Served
        /\ event.result.id = taken.fence.id /\ taken.kind = "InsertFence"
        /\ events' = events \/ events' = Append(events, event)
        /\ worker_pc' = "recv" /\ ~panicked /\ worker_report.state # "Stopped"
        /\ taken' = NoCommand
        /\ UNCHANGED <<commands, stop_requested, worker_report, panicked,
                       handleVars, callVars, historyVars>>
    BY <1>1, <1>8 DEF AnswerFence, Serving, Send, LeavingPc, IsFarewell,
      CompletedResult, Sent
  <2>2. /\ event.result.id <= fences_created
        /\ AwaitsShutdown => event.result.id # call.id
    BY <1>1, <2>1 DEF FenceIdsKnown, AnswerIsLast
  <2> HIDE DEF event
  <2> QED
    BY <1>1, <2>1, <2>2, WorkerStaysQuiet DEF LeavingPc
<1>9. ASSUME BeginShutdown PROVE ShutdownInv'
  <2> DEFINE event == [kind |-> "WorkerReport", report |-> worker_report']
  <2>1. /\ event.kind # "Fence" /\ ~IsFarewell(event) /\ ~Served
        /\ events' = events \/ events' = Append(events, event)
        /\ worker_pc' = "answerShutdown" /\ ~panicked
        /\ worker_report'.state # "Stopped" /\ Sent' = Sent
        /\ taken.kind = "Shutdown" /\ worker_pc = "serve"
        /\ UNCHANGED <<commands, stop_requested, taken, panicked,
                       handleVars, callVars, historyVars>>
    BY <1>1, <1>9 DEF BeginShutdown, Serving, Send, LeavingPc, IsFarewell,
      WorkerReport, Sent
  <2>2. shutdown_called /\ taken.fence.mark = frames_admitted
    BY <1>1, <2>1 DEF ShutdownIsLast, IsLast
  <2>3. Sent = frames_admitted
    <3>1. FrameCount(taken) = Sent + Step(taken)
      BY <1>1, <2>1 DEF CommandChain, InService, NoCommand
    <3>2. FrameCount(taken) = taken.fence.mark /\ Step(taken) = 0
      BY <2>1 DEF FrameCount, Step, IsFrame
    <3> QED
      BY <1>1, <2>2, <3>1, <3>2, ShutdownTypes, QueueTypes
  <2> HIDE DEF event
  <2> QED
    BY <1>1, <2>1, <2>2, <2>3, WorkerStaysQuiet DEF LeavingPc
<1>10. ASSUME AnswerShutdown PROVE ShutdownInv'
  <2> DEFINE event == [kind |-> "Fence", result |-> CompletedResult(taken.fence, Sent)]
  <2>1. /\ event.kind = "Fence" /\ ~IsFarewell(event) /\ ~Served /\ Served'
        /\ event.result.id = taken.fence.id /\ taken.kind = "Shutdown"
        /\ event.result.completed = Sent
        /\ events' = events \/ events' = Append(events, event)
        /\ worker_pc = "answerShutdown" /\ worker_pc' = "reportStopped" /\ ~panicked
        /\ worker_report.state # "Stopped" /\ taken' = NoCommand /\ Sent' = Sent
        /\ UNCHANGED <<commands, stop_requested, worker_report, panicked,
                       handleVars, callVars, historyVars>>
    BY <1>1, <1>10 DEF AnswerShutdown, WorkerControl, Send, Served, LeavingPc,
      IsFarewell, CompletedResult, Sent
  <2>2. event.result.id <= fences_created
    BY <1>1, <2>1 DEF FenceIdsKnown
  <2> HIDE DEF event
  <2> QED
    BY <1>1, <2>1, <2>2, WorkerStaysQuiet DEF LeavingPc
<1>11. ASSUME ReportStopped PROVE ShutdownInv'
  <2> DEFINE event == [kind |-> "WorkerReport", report |-> worker_report']
  <2>1. /\ event.kind # "Fence" /\ IsFarewell(event) /\ Served'
        /\ event.report.last_completed_frame = Sent
        /\ events' = events \/ events' = Append(events, event)
        /\ worker_pc = "reportStopped" /\ worker_pc' = "dropSender" /\ ~panicked
        /\ UNCHANGED <<commands, stop_requested, taken, panicked,
                       handleVars, callVars, historyVars>>
    BY <1>1, <1>11 DEF ReportStopped, LeaveLoop, Send, Served, LeavingPc, IsFarewell,
      WorkerReport, Sent
  <2> HIDE DEF event
  <2> QED
    BY <1>1, <2>1, WorkerStaysQuiet DEF LeavingPc
<1>12. ASSUME ThreadExit PROVE ShutdownInv'
  <2>1. /\ worker_pc' \in LeavingPc /\ (Served => Served')
        /\ UNCHANGED <<commands, events, stop_requested, taken, worker_report,
                       panicked, handleVars, callVars, historyVars>>
    BY <1>1, <1>12 DEF ThreadExit, Served, LeavingPc, sharedVars
  <2> QED
    BY <1>1, <2>1, WorkerStaysQuiet DEF LeavingPc
<1> QED
  BY <1>2, <1>3, <1>4, <1>5, <1>6, <1>7, <1>8, <1>9, <1>10, <1>11, <1>12
  DEF WorkerStep

\* handle_event: the answer to the shutdown is followed by farewells only, so
\* nothing that is handled after it takes back what it said.
LEMMA HandleEventShuts ==
  ASSUME Inv, Inv', ShutdownInv, events # << >>, HandleEvent,
         call_pc \in {"drain", "recvTimeout"}, call_pc' = "drain"
  PROVE  ShutdownInv'
<1> DEFINE event == Head(events)
<1>1. /\ CallShape /\ FenceIdsKnown /\ ShutdownIsLast /\ StoppedIsClean
      /\ AnswerIsLast /\ ShutdownStages
      /\ TypeOK /\ EventChain /\ latest_report \in HandleReport
      /\ events \in Seq(RenderWorkerEvent) /\ events \in Seq(Message)
      /\ Completed \in Nat /\ Completed' \in Nat /\ frames_admitted \in Nat
      /\ Completed' <= frames_admitted'
  <2>1. TypeOK /\ EventChain /\ TypeOK' /\ ResultFacts'
    BY DEF Inv
  <2>2. Completed' \in Nat /\ Completed' <= frames_admitted'
    BY <2>1, BoundAssumption DEF ResultFacts, TypeOK, Completed, HandleReport
  <2>3. events \in Seq(RenderWorkerEvent) /\ latest_report \in HandleReport
    BY <2>1 DEF TypeOK
  <2> QED
    BY <2>1, <2>2, <2>3, QueueTypes DEF ShutdownInv
<1>2. /\ events' = Tail(events) /\ event \in RenderWorkerEvent /\ event \in Message
      /\ Len(events) \in Nat \ {0} /\ Len(events') = Len(events) - 1
      /\ event = events[1] /\ \A i \in 1 .. Len(events') : events'[i] = events[i + 1]
  BY <1>1, HeadTailProperties, EmptySeq DEF HandleEvent, Message
<1>3. UNCHANGED <<commands, stop_requested, worker_pc, taken, worker_report, panicked,
                  call, frames_admitted, fences_created, shutdown_called>>
  BY DEF HandleEvent, workerVars, historyVars
<1>4. /\ InShutdown' = InShutdown /\ Served' = Served
      /\ AwaitsShutdown' => AwaitsShutdown /\ AwaitsShutdown' = InShutdown
  BY <1>3 DEF InShutdown, Served, AwaitsShutdown
<1>5. ASSUME NEW n \in Nat, QuietAfter(n + 1) PROVE QuietAfter(n)'
  BY <1>2, <1>5 DEF QuietAfter
<1>6. ASSUME QuietAfter(0) PROVE QuietAfter(0)' /\ IsFarewell(event)
  BY <1>2, <1>6 DEF QuietAfter
<1>7. /\ FrameCount(event) = Completed + Step(event) /\ Step(event) \in 0 .. 1
      /\ FrameCount(event) \in Nat
  BY <1>1, <1>2, RunTail, MessageCount DEF EventChain
<1>8. /\ event.kind = "Submission" =>
           /\ Completed' = event.frame /\ latest_report'.state = latest_report.state
           /\ FrameCount(event) = event.frame /\ UNCHANGED cached_fences
      /\ event.kind = "Fence" =>
           /\ Completed' = event.result.completed
           /\ latest_report'.state = latest_report.state
           /\ FrameCount(event) = event.result.completed
           /\ cached_fences' = cached_fences \cup {event.result}
      /\ event.kind = "WorkerReport" =>
           /\ Completed' = event.report.last_completed_frame
           /\ latest_report'.state = event.report.state
           /\ FrameCount(event) = event.report.last_completed_frame
           /\ UNCHANGED cached_fences
      /\ event.kind \in {"Submission", "Fence", "WorkerReport"}
  <2>1. event.kind \in {"Submission", "Fence", "WorkerReport"}
    BY <1>2 DEF RenderWorkerEvent
  <2>2. CASE event.kind = "Submission"
    BY <1>1, <2>2 DEF HandleEvent, Completed, HandleReport, FrameCount, IsFrame
  <2>3. CASE event.kind = "Fence"
    BY <1>1, <2>3 DEF HandleEvent, Completed, HandleReport, FrameCount, IsFrame
  <2>4. CASE event.kind = "WorkerReport"
    BY <2>4 DEF HandleEvent, Completed, AcceptedReport, FrameCount, IsFrame
  <2> QED
    BY <2>1, <2>2, <2>3, <2>4
<1>9. Completed' = FrameCount(event) /\ Completed <= Completed'
  BY <1>1, <1>7, <1>8
<1>10. AllReceived => AllReceived' /\ latest_report'.state = "Stopped"
  <2> SUFFICES ASSUME AllReceived
               PROVE  AllReceived' /\ latest_report'.state = "Stopped"
    OBVIOUS
  <2>1. Served /\ QuietAfter(0)' /\ IsFarewell(event) /\ Completed = frames_admitted
    BY <1>6 DEF AllReceived
  <2>2. Completed' = frames_admitted'
    BY <1>1, <1>3, <1>9, <2>1
  <2> QED
    BY <1>4, <1>8, <2>1, <2>2 DEF AllReceived, IsFarewell
<1>11. CallShape'
  BY DEF CallShape
<1>12. FenceIdsKnown'
  <2>1. \A i \in 1 .. Len(events') :
          events'[i].kind = "Fence" => events'[i].result.id <= fences_created'
    BY <1>1, <1>2, <1>3 DEF FenceIdsKnown
  <2>2. event.kind = "Fence" => event.result.id <= fences_created
    BY <1>1, <1>2 DEF FenceIdsKnown
  <2>3. \A result \in cached_fences' : result.id <= fences_created'
    BY <1>1, <1>3, <1>8, <2>2 DEF FenceIdsKnown
  <2> QED
    BY <1>1, <1>3, <2>1, <2>3 DEF FenceIdsKnown
<1>13. ShutdownIsLast'
  BY <1>1, <1>3 DEF ShutdownIsLast, IsLast, Sent
<1>14. StoppedIsClean'
  <2>1. \A i \in 1 .. Len(events') :
          IsFarewell(events'[i]) =>
            /\ shutdown_called /\ Served
            /\ events'[i].report.last_completed_frame = frames_admitted
    BY <1>1, <1>2 DEF StoppedIsClean
  <2>2. ASSUME latest_report'.state = "Stopped"
        PROVE  shutdown_called /\ Served /\ Completed' = frames_admitted
    <3>1. CASE IsFarewell(event)
      BY <1>1, <1>2, <1>8, <3>1 DEF StoppedIsClean, IsFarewell
    <3>2. CASE ~IsFarewell(event)
      <4>1. latest_report.state = "Stopped"
        BY <1>8, <2>2, <3>2 DEF IsFarewell
      <4>2. shutdown_called /\ Served /\ Completed = frames_admitted
        BY <1>1, <4>1 DEF StoppedIsClean
      <4> QED
        BY <1>1, <1>3, <1>9, <4>2
    <3> QED
      BY <3>1, <3>2
  <2> QED
    BY <1>1, <1>3, <1>4, <2>1, <2>2 DEF StoppedIsClean, IsFarewell
<1>15. AnswerIsLast'
  <2> SUFFICES ASSUME AwaitsShutdown'
               PROVE  (/\ \A i \in 1 .. Len(commands) :
                            commands[i].kind = "InsertFence" =>
                              commands[i].fence.id # call.id
                       /\ taken.kind = "InsertFence" => taken.fence.id # call.id
                       /\ \A i \in 1 .. Len(events) :
                            events[i].kind = "Fence" /\ events[i].result.id = call.id =>
                              /\ Served /\ QuietAfter(i)
                              /\ events[i].result.completed = frames_admitted
                       /\ Answers # {} => AllReceived)'
    BY DEF AnswerIsLast
  <2>1. /\ AwaitsShutdown
        /\ \A i \in 1 .. Len(commands) :
             commands[i].kind = "InsertFence" => commands[i].fence.id # call.id
        /\ taken.kind = "InsertFence" => taken.fence.id # call.id
        /\ \A i \in 1 .. Len(events) :
             events[i].kind = "Fence" /\ events[i].result.id = call.id =>
               /\ Served /\ QuietAfter(i)
               /\ events[i].result.completed = frames_admitted
        /\ Answers # {} => AllReceived
    BY <1>1, <1>4 DEF AnswerIsLast
  <2>2. ASSUME NEW i \in 1 .. Len(events'),
               events'[i].kind = "Fence", events'[i].result.id = call'.id
        PROVE  /\ Served' /\ QuietAfter(i)'
               /\ events'[i].result.completed = frames_admitted'
    <3>1. i + 1 \in 1 .. Len(events) /\ events'[i] = events[i + 1] /\ i \in Nat
      BY <1>2
    <3>2. /\ Served /\ QuietAfter(i + 1)
          /\ events[i + 1].result.completed = frames_admitted
      BY <1>3, <2>1, <2>2, <3>1
    <3> QED
      BY <1>3, <1>4, <1>5, <3>1, <3>2
  <2>3. ASSUME Answers' # {} PROVE AllReceived'
    <3>1. CASE Answers # {}
      BY <1>10, <2>1, <3>1
    <3>2. CASE Answers = {}
      <4>1. event.kind = "Fence" /\ event.result.id = call.id
        BY <1>3, <1>8, <2>3, <3>2 DEF Answers
      <4>2. Served /\ QuietAfter(1) /\ event.result.completed = frames_admitted
        BY <1>2, <2>1, <4>1
      <4>3. QuietAfter(0)'
        BY <1>5, <4>2
      <4> QED
        BY <1>3, <1>4, <1>8, <4>1, <4>2, <4>3 DEF AllReceived
    <3> QED
      BY <3>1, <3>2
  <2> QED
    BY <1>3, <2>1, <2>2, <2>3
<1>16. ShutdownStages'
  <2>1. InShutdown' => shutdown_called'
    BY <1>1, <1>3, <1>4 DEF ShutdownStages
  <2>2. shutdown_called' /\ ~stop_requested' /\ ~InShutdown' =>
          AllReceived' /\ latest_report'.state # "Running"
    BY <1>1, <1>3, <1>4, <1>10 DEF ShutdownStages
  <2> QED
    BY <2>1, <2>2 DEF ShutdownStages
<1> QED
  BY <1>11, <1>12, <1>13, <1>14, <1>15, <1>16 DEF ShutdownInv

\* A step of the handle that moves no message: it suffices to follow the call
\* in progress and the published state.
LEMMA CallStaysClean ==
  ASSUME Inv, ShutdownInv,
         UNCHANGED <<commands, events, workerVars, frames_admitted, fences_created,
                     shutdown_called>>,
         Completed' = Completed, cached_fences' \subseteq cached_fences,
         CallShape',
         AwaitsShutdown' => AwaitsShutdown /\ call'.id = call.id,
         latest_report'.state = "Stopped" =>
           \/ latest_report.state = "Stopped"
           \/ shutdown_called /\ AllReceived,
         InShutdown' => shutdown_called,
         call_pc' \in {"waited", "join"} /\ call'.status = "Completed" => AllReceived,
         call_pc' = "join" => stop_requested' \/ call'.status = "Completed",
         shutdown_called /\ ~stop_requested' /\ ~InShutdown' =>
           AllReceived /\ latest_report'.state # "Running"
  PROVE  ShutdownInv'
<1>1. /\ FenceIdsKnown /\ ShutdownIsLast /\ StoppedIsClean /\ AnswerIsLast
      /\ UNCHANGED <<worker_pc, taken, worker_report, panicked>>
  BY DEF ShutdownInv, workerVars
<1>2. Served' = Served /\ AllReceived' = AllReceived
  BY <1>1 DEF Served, AllReceived, QuietAfter
<1>3. FenceIdsKnown'
  BY <1>1 DEF FenceIdsKnown
<1>4. ShutdownIsLast'
  BY <1>1 DEF ShutdownIsLast, IsLast, Sent
<1>5. StoppedIsClean'
  BY <1>1, <1>2 DEF StoppedIsClean, AllReceived
<1>6. AnswerIsLast'
  BY <1>1, <1>2 DEF AnswerIsLast, Answers, QuietAfter
<1>7. ShutdownStages'
  BY <1>2 DEF ShutdownStages
<1> QED
  BY <1>3, <1>4, <1>5, <1>6, <1>7 DEF ShutdownInv

\* Calls that begin, and the end of every call.
LEMMA CallShuts ==
  ASSUME Inv, ShutdownInv,
         \/ PollSubmission \/ WaitFence \/ LatestReport \/ ReturnPoll \/ ReturnReport
         \/ WaitAnswered \/ WaitTimeout \/ WaitMore \/ RecvNothing
         \/ RecvDisconnected \/ ShutdownRefused \/ CloseAdmission
         \/ JoinThread \/ DropFields
  PROVE  ShutdownInv'
<1>1. /\ CallShape /\ StoppedIsClean /\ AnswerIsLast /\ ShutdownStages /\ TypeOK
      /\ latest_report \in HandleReport /\ call \in Call
      /\ stop_requested \in BOOLEAN /\ LossFound \in BOOLEAN
  BY DEF ShutdownInv, Inv, TypeOK, LossFound, EventSenderAlive
<1>2. /\ call_pc \in {"idle", "dropping"} => call.op = "none" /\ ~InShutdown
      /\ call_pc \in {"refused", "waited", "join"} => InShutdown
      /\ InShutdown => shutdown_called
      /\ shutdown_called /\ ~stop_requested /\ ~InShutdown =>
           AllReceived /\ latest_report.state # "Running"
  BY <1>1 DEF CallShape, ShutdownStages, InShutdown
<1>3. /\ DrainedReport.last_completed_frame = Completed
      /\ Lost(latest_report).last_completed_frame = Completed
      /\ Lost(latest_report).state = "WorkerLost"
      /\ LossFound => DrainedReport.state = "WorkerLost"
      /\ ~LossFound => DrainedReport = latest_report
  BY <1>1, ReportKept DEF DrainedReport, Lost, HandleReport
<1>4. ASSUME PollSubmission \/ WaitFence \/ LatestReport PROVE ShutdownInv'
  <2>1. /\ call_pc = "idle" /\ call_pc' = "drain" /\ ~InShutdown'
        /\ UNCHANGED <<sharedVars, workerVars, handleVars, historyVars>>
    BY <1>4 DEF PollSubmission, WaitFence, LatestReport, BeginCall, InShutdown
  <2>2. UNCHANGED <<commands, events, stop_requested, cached_fences, latest_report,
                    frames_admitted, fences_created, shutdown_called>>
    BY <2>1 DEF sharedVars, handleVars, historyVars
  <2>3. CallShape' /\ Completed' = Completed
    BY <2>1, <2>2 DEF CallShape, Completed
  <2> QED
    BY <1>2, <2>1, <2>2, <2>3, CallStaysClean DEF AwaitsShutdown
<1>5. ASSUME ReturnPoll \/ ReturnReport PROVE ShutdownInv'
  <2>1. /\ call_pc = "drain" /\ call_pc' = "idle" /\ call' = NoCall
        /\ ~InShutdown /\ latest_report' = DrainedReport
        /\ stop_requested' = (stop_requested \/ LossFound)
        /\ UNCHANGED <<commands, events, workerVars, cached_fences,
                       frames_admitted, fences_created, shutdown_called>>
    BY <1>5 DEF ReturnPoll, ReturnReport, Drained, Return, InShutdown, historyVars
  <2>2. ~InShutdown' /\ CallShape' /\ Completed' = Completed
    BY <1>3, <2>1, CallValues DEF InShutdown, CallShape, Completed
  <2> QED
    BY <1>2, <1>3, <2>1, <2>2, CallStaysClean DEF AwaitsShutdown
<1>6. ASSUME NEW status \in {"Completed", "NotObserved", "Timeout", "WorkerLost"},
             NEW report \in {DrainedReport, Lost(latest_report)},
             NEW stop \in {stop_requested, stop_requested \/ LossFound},
             EndWait(status, report, stop),
             call_pc \in {"drain", "recvTimeout"}, Waiting,
             status = "Completed" => Answers # {},
             cached_fences' \subseteq cached_fences,
             UNCHANGED <<commands, events, workerVars, frames_admitted,
                         fences_created, shutdown_called>>
      PROVE  ShutdownInv'
  <2>1. /\ Completed' = Completed /\ latest_report' = report /\ stop_requested' = stop
        /\ report.state = "Stopped" => latest_report.state = "Stopped"
    BY <1>3, <1>6 DEF EndWait, Completed
  <2>2. CASE call.op = "wait"
    <3>1. /\ call_pc' = "idle" /\ call' = NoCall /\ ~InShutdown
      BY <1>6, <2>2 DEF EndWait, Return, InShutdown
    <3>2. ~InShutdown' /\ CallShape'
      BY <3>1, CallValues DEF InShutdown, CallShape
    <3>3. shutdown_called /\ ~stop =>
            AllReceived /\ report.state # "Running"
      BY <1>2, <1>3, <1>6, <3>1
    <3> QED
      BY <1>6, <2>1, <3>1, <3>2, <3>3, CallStaysClean DEF AwaitsShutdown
  <2>3. CASE call.op # "wait"
    <3>1. /\ call_pc' = "waited" /\ call'.op = call.op /\ call'.status = status
          /\ InShutdown
      BY <1>1, <1>6, <2>3 DEF EndWait, InShutdown, Waiting, Call
    <3>2. InShutdown' /\ CallShape'
      BY <3>1 DEF InShutdown, CallShape
    <3>3. status = "Completed" => AllReceived
      BY <1>1, <1>6, <3>1 DEF AnswerIsLast, AwaitsShutdown
    <3> QED
      BY <1>2, <1>6, <2>1, <3>1, <3>2, <3>3, CallStaysClean DEF AwaitsShutdown
  <2> QED
    BY <2>2, <2>3
<1>7. ASSUME WaitAnswered PROVE ShutdownInv'
  <2>1. PICK result \in Answers :
          /\ cached_fences' = cached_fences \ {result}
          /\ EndWait(result.status, DrainedReport, stop_requested \/ LossFound)
    BY <1>7 DEF WaitAnswered
  <2>2. result.status \in {"Completed", "NotObserved"}
    BY <1>1, <2>1 DEF Answers, TypeOK, FenceResult
  <2>3. /\ call_pc = "drain" /\ Waiting
        /\ UNCHANGED <<commands, events, workerVars, frames_admitted,
                       fences_created, shutdown_called>>
    BY <1>7 DEF WaitAnswered, Drained, historyVars
  <2> QED
    BY <1>6, <2>1, <2>2, <2>3
<1>8. ASSUME WaitTimeout PROVE ShutdownInv'
  <2>1. /\ call_pc = "drain" /\ Waiting
        /\ EndWait("Timeout", DrainedReport, stop_requested \/ LossFound)
        /\ UNCHANGED <<commands, events, workerVars, cached_fences, frames_admitted,
                       fences_created, shutdown_called>>
    BY <1>8 DEF WaitTimeout, Drained, historyVars
  <2> QED
    BY <1>6, <2>1
<1>9. ASSUME RecvDisconnected PROVE ShutdownInv'
  <2>1. /\ call_pc = "recvTimeout" /\ Waiting
        /\ EndWait("WorkerLost", Lost(latest_report), stop_requested)
        /\ ~EventSenderAlive
        /\ UNCHANGED <<commands, events, workerVars, cached_fences, frames_admitted,
                       fences_created, shutdown_called>>
    BY <1>1, <1>9 DEF RecvDisconnected, CallShape, historyVars
  <2> QED
    BY <1>6, <2>1
<1>10. ASSUME WaitMore \/ RecvNothing PROVE ShutdownInv'
  <2>1. /\ call_pc \in {"drain", "recvTimeout"} /\ Waiting
        /\ call_pc' \in {"drain", "recvTimeout"} /\ call' = call
        /\ latest_report' \in {latest_report, DrainedReport}
        /\ stop_requested' \in {stop_requested, stop_requested \/ LossFound}
        /\ UNCHANGED <<commands, events, workerVars, cached_fences, frames_admitted,
                       fences_created, shutdown_called>>
    BY <1>1, <1>10 DEF WaitMore, RecvNothing, Drained, CallShape, historyVars,
      handleVars, sharedVars
  <2>2. /\ Completed' = Completed /\ CallShape' /\ InShutdown' = InShutdown
        /\ AwaitsShutdown' => AwaitsShutdown
        /\ latest_report'.state = "Stopped" => latest_report.state = "Stopped"
    BY <1>3, <2>1 DEF Completed, CallShape, InShutdown, AwaitsShutdown, Waiting
  <2>3. latest_report.state # "Running" => latest_report'.state # "Running"
    BY <1>3, <2>1
  <2> QED
    BY <1>2, <2>1, <2>2, <2>3, CallStaysClean
<1>11. ASSUME ShutdownRefused PROVE ShutdownInv'
  <2>1. /\ call_pc = "refused" /\ call_pc' \in {"idle", "dropping"} /\ call' = NoCall
        /\ stop_requested'
        /\ latest_report' = [latest_report EXCEPT !.state = "ShuttingDown"]
        /\ UNCHANGED <<commands, events, workerVars, cached_fences, frames_admitted,
                       fences_created, shutdown_called>>
    BY <1>11 DEF ShutdownRefused, Return, AfterShutdown, historyVars
  <2>2. /\ Completed' = Completed /\ CallShape' /\ ~InShutdown'
        /\ latest_report'.state # "Stopped"
    BY <1>1, <2>1, CallValues DEF Completed, CallShape, InShutdown, HandleReport
  <2> QED
    BY <2>1, <2>2, CallStaysClean DEF AwaitsShutdown
<1>12. ASSUME CloseAdmission PROVE ShutdownInv'
  <2>1. /\ call_pc = "waited" /\ call_pc' = "join" /\ call' = call
        /\ stop_requested' = (stop_requested \/ call.status # "Completed")
        /\ UNCHANGED <<commands, events, workerVars, latest_report, cached_fences,
                       frames_admitted, fences_created, shutdown_called>>
    BY <1>12 DEF CloseAdmission, handleVars, historyVars
  <2>2. /\ Completed' = Completed /\ CallShape' /\ InShutdown' /\ InShutdown
        /\ call.status = "Completed" => AllReceived
    BY <1>1, <1>2, <2>1 DEF Completed, CallShape, InShutdown, ShutdownStages
  <2> QED
    BY <1>2, <2>1, <2>2, CallStaysClean DEF AwaitsShutdown
<1>13. ASSUME JoinThread PROVE ShutdownInv'
  <2>1. PICK joined \in BOOLEAN : latest_report' = FinalReport(joined /\ panicked)
    BY <1>1, <1>13 DEF JoinThread, TypeOK
  <2>2. /\ call_pc = "join" /\ call_pc' \in {"idle", "dropping"} /\ call' = NoCall
        /\ UNCHANGED <<commands, events, stop_requested, workerVars, cached_fences,
                       frames_admitted, fences_created, shutdown_called>>
    BY <1>13 DEF JoinThread, Return, AfterShutdown, historyVars, sharedVars
  <2>3. /\ InShutdown /\ shutdown_called
        /\ call.status = "Completed" => AllReceived
        /\ stop_requested \/ call.status = "Completed"
    BY <1>1, <1>2, <2>2 DEF ShutdownStages
  <2>4. /\ Completed' = Completed
        /\ latest_report'.state = "Stopped" =>
             latest_report.state = "Stopped" \/ call.status = "Completed"
        /\ call.status = "Completed" => latest_report'.state # "Running"
    BY <1>1, <1>3, <2>1 DEF FinalReport, Completed, HandleReport
  <2>5. CallShape' /\ ~InShutdown'
    BY <2>2, CallValues DEF CallShape, InShutdown
  <2> QED
    BY <2>2, <2>3, <2>4, <2>5, CallStaysClean DEF AwaitsShutdown
<1>14. ASSUME DropFields PROVE ShutdownInv'
  <2>1. /\ call_pc = "dropping" /\ call_pc' = "dropped" /\ call' = call
        /\ UNCHANGED <<commands, events, stop_requested, workerVars, latest_report,
                       cached_fences, frames_admitted, fences_created, shutdown_called>>
    BY <1>14 DEF DropFields, handleVars, historyVars, sharedVars
  <2>2. Completed' = Completed /\ CallShape' /\ ~InShutdown' /\ ~InShutdown
    BY <1>1, <1>2, <2>1 DEF Completed, CallShape, InShutdown
  <2> QED
    BY <1>2, <2>1, <2>2, CallStaysClean DEF AwaitsShutdown
<1> QED
  BY <1>4, <1>5, <1>7, <1>8, <1>9, <1>10, <1>11, <1>12, <1>13, <1>14

\* The parts of a command that joins the command channel.
LEMMA CommandJoins ==
  ASSUME TypeOK, NEW command
  PROVE  \A i \in 1 .. Len(Append(commands, command)) :
           \/ i \in 1 .. Len(commands) /\ Append(commands, command)[i] = commands[i]
           \/ Append(commands, command)[i] = command
<1>1. commands \in Seq(RenderThreadCommand) /\ Len(commands) \in Nat
  BY ShutdownTypes
<1>2. /\ Len(Append(commands, command)) = Len(commands) + 1
      /\ \A i \in 1 .. Len(commands) : Append(commands, command)[i] = commands[i]
      /\ Append(commands, command)[Len(commands) + 1] = command
  BY <1>1
<1> QED
  BY <1>1, <1>2

\* submit_frame admits nothing once shutdown was called, not even between the
\* return of shutdown and the drop of the handle.
LEMMA SubmitBeforeShutdown ==
  ASSUME Inv, ShutdownInv, SubmitFrame
  PROVE  ~shutdown_called
<1>1. call_pc = "idle" /\ ~stop_requested /\ latest_report.state = "Running"
  BY DEF SubmitFrame, AdmissionOpen
<1>2. ~InShutdown
  BY <1>1 DEF ShutdownInv, CallShape, InShutdown
<1> QED
  BY <1>1, <1>2 DEF ShutdownInv, ShutdownStages

\* submit_frame: the frame is admitted before any shutdown.
LEMMA SubmitShuts == Inv /\ ShutdownInv /\ SubmitFrame => ShutdownInv'
<1> SUFFICES ASSUME Inv, ShutdownInv, SubmitFrame PROVE ShutdownInv'
  OBVIOUS
<1> DEFINE command == [kind |-> "SubmitFrame", frame |-> frames_admitted + 1]
<1>1. /\ CallShape /\ FenceIdsKnown /\ ShutdownIsLast /\ StoppedIsClean
      /\ AnswerIsLast /\ ShutdownStages /\ TypeOK /\ latest_report \in HandleReport
      /\ ~shutdown_called
  BY SubmitBeforeShutdown DEF ShutdownInv, Inv, TypeOK
<1>2. /\ call_pc = "idle" /\ latest_report.state = "Running"
      /\ UNCHANGED <<events, worker_pc, taken, worker_report, panicked, cached_fences,
                     call, call_pc, fences_created, shutdown_called>>
      /\ commands' = commands \/ commands' = Append(commands, command)
      /\ latest_report'.state \in {"Running", "WorkerLost"}
  BY <1>1 DEF SubmitFrame, AdmissionOpen, workerVars, callVars, Lost, HandleReport
<1>3. \A i \in 1 .. Len(commands') :
        \/ i \in 1 .. Len(commands) /\ commands'[i] = commands[i]
        \/ commands'[i].kind = "SubmitFrame"
  <2>1. command.kind = "SubmitFrame"
    OBVIOUS
  <2> HIDE DEF command
  <2> QED
    BY <1>1, <1>2, <2>1, CommandJoins
<1>4. CallShape'
  BY <1>1, <1>2 DEF CallShape, InShutdown, Waiting
<1>5. FenceIdsKnown'
  BY <1>1, <1>2, <1>3 DEF FenceIdsKnown
<1>6. ShutdownIsLast'
  BY <1>1, <1>2, <1>3 DEF ShutdownIsLast, IsLast
<1>7. StoppedIsClean'
  BY <1>1, <1>2 DEF StoppedIsClean
<1>8. AnswerIsLast'
  BY <1>2 DEF AnswerIsLast, AwaitsShutdown
<1>9. ShutdownStages'
  BY <1>1, <1>2 DEF ShutdownStages, InShutdown
<1> QED
  BY <1>4, <1>5, <1>6, <1>7, <1>8, <1>9 DEF ShutdownInv

\* insert_fence: a fence may be inserted after a shutdown, never a frame.
LEMMA InsertFenceShuts == Inv /\ ShutdownInv /\ InsertFence => ShutdownInv'
<1> SUFFICES ASSUME Inv, ShutdownInv, InsertFence PROVE ShutdownInv'
  OBVIOUS
<1>1. /\ CallShape /\ FenceIdsKnown /\ ShutdownIsLast /\ StoppedIsClean
      /\ AnswerIsLast /\ ShutdownStages /\ TypeOK /\ latest_report \in HandleReport
      /\ fences_created \in Nat
  BY ShutdownTypes DEF ShutdownInv, Inv, TypeOK
<1>2. /\ call_pc = "idle" /\ fences_created' = fences_created + 1
      /\ UNCHANGED <<events, stop_requested, worker_pc, taken, worker_report, panicked,
                     cached_fences, call, call_pc, frames_admitted, shutdown_called>>
  BY DEF InsertFence, FenceCall, workerVars, callVars
<1>3. PICK depth \in SyncDepth, target \in FenceTargets : InsertFenceOf(depth, target)
  BY DEF InsertFence
<1> DEFINE command == [kind |-> "InsertFence",
                       fence |-> [id |-> fences_created + 1, depth |-> depth,
                                  target |-> target, mark |-> frames_admitted]]
<1>4. /\ commands' = commands \/ commands' = Append(commands, command)
      /\ Completed' = Completed
      /\ latest_report'.state \in {latest_report.state, "WorkerLost"}
  BY <1>1, <1>3 DEF InsertFenceOf, Lost, HandleReport, Completed
<1>5. \A i \in 1 .. Len(commands') :
        \/ i \in 1 .. Len(commands) /\ commands'[i] = commands[i]
        \/ commands'[i].kind = "InsertFence" /\ commands'[i].fence.id = fences_created + 1
  <2>1. command.kind = "InsertFence" /\ command.fence.id = fences_created + 1
    OBVIOUS
  <2> HIDE DEF command
  <2> QED
    BY <1>1, <1>4, <2>1, CommandJoins
<1>6. CallShape'
  BY <1>1, <1>2 DEF CallShape, InShutdown, Waiting
<1>7. FenceIdsKnown'
  <2>1. \A n \in Nat : n <= fences_created => n <= fences_created'
    BY <1>1, <1>2
  <2>2. ASSUME NEW i \in 1 .. Len(commands'), commands'[i].kind # "SubmitFrame"
        PROVE  commands'[i].fence.id <= fences_created'
    <3>1. CASE i \in 1 .. Len(commands) /\ commands'[i] = commands[i]
      <4>1. commands[i].fence.id \in Nat
        BY <1>1, <2>2, <3>1, ShutdownTypes
      <4> QED
        BY <1>1, <2>1, <2>2, <3>1, <4>1 DEF FenceIdsKnown
    <3>2. CASE commands'[i].fence.id = fences_created + 1
      BY <1>1, <1>2, <3>2
    <3> QED
      BY <1>5, <3>1, <3>2
  <2>3. taken'.kind \in {"InsertFence", "Shutdown"} => taken'.fence.id <= fences_created'
    <3>1. taken.kind \in {"InsertFence", "Shutdown"} => taken.fence.id \in Nat
      BY <1>1, ShutdownTypes DEF TypeOK, NoCommand
    <3> QED
      BY <1>1, <1>2, <2>1, <3>1 DEF FenceIdsKnown
  <2>4. \A i \in 1 .. Len(events') :
          events'[i].kind = "Fence" => events'[i].result.id <= fences_created'
    BY <1>1, <1>2, <2>1, ShutdownTypes DEF FenceIdsKnown
  <2>5. \A result \in cached_fences' : result.id <= fences_created'
    BY <1>1, <1>2, <2>1, ShutdownTypes DEF FenceIdsKnown, TypeOK
  <2> QED
    BY <2>2, <2>3, <2>4, <2>5 DEF FenceIdsKnown
<1>8. ShutdownIsLast'
  <2>1. \A c : IsLast(c)' <=> IsLast(c)
    BY <1>2 DEF IsLast
  <2>2. \A i \in 1 .. Len(commands') : IsLast(commands'[i])
    BY <1>1, <1>5 DEF ShutdownIsLast, IsLast
  <2> QED
    BY <1>1, <1>2, <2>1, <2>2 DEF ShutdownIsLast, IsLast, Sent
<1>9. Served' = Served /\ (AllReceived' <=> AllReceived)
  BY <1>2, <1>4 DEF Served, AllReceived, QuietAfter
<1>10. StoppedIsClean'
  BY <1>1, <1>2, <1>4, <1>9 DEF StoppedIsClean
<1>11. AnswerIsLast'
  BY <1>2 DEF AnswerIsLast, AwaitsShutdown
<1>12. ShutdownStages'
  BY <1>1, <1>2, <1>4, <1>9 DEF ShutdownStages, InShutdown
<1> QED
  BY <1>6, <1>7, <1>8, <1>10, <1>11, <1>12 DEF ShutdownInv

\* shutdown, called by the producer or by Drop: its fence is the newest one.
LEMMA SendShutdownShuts ==
  ASSUME Inv, ShutdownInv, call_pc = "idle", NEW op \in {"shutdown", "drop"},
         SendShutdown(op)
  PROVE  ShutdownInv'
<1> DEFINE command == [kind |-> "Shutdown",
                       fence |-> [id |-> fences_created + 1, depth |-> "RenderThread",
                                  target |-> 0, mark |-> frames_admitted]]
<1>1. /\ CallShape /\ FenceIdsKnown /\ ShutdownIsLast /\ StoppedIsClean
      /\ AnswerIsLast /\ ShutdownStages /\ TypeOK /\ latest_report \in HandleReport
      /\ fences_created \in Nat
  BY ShutdownTypes DEF ShutdownInv, Inv, TypeOK
<1>2. /\ shutdown_called' /\ fences_created' = fences_created + 1
      /\ UNCHANGED <<events, worker_pc, taken, worker_report, panicked, cached_fences,
                     frames_admitted>>
  BY DEF SendShutdown, workerVars
<1>3. \/ /\ commands' = Append(commands, command)
         /\ call'.op = op /\ call'.id = fences_created + 1 /\ call_pc' = "drain"
      \/ commands' = commands /\ call_pc' = "refused" /\ call'.op = op
      \/ /\ commands' = commands /\ call_pc' \in {"idle", "dropping"}
         /\ call'.op = "none" /\ stop_requested'
  <2>1. NoCall.op = "none" /\ [NoCall EXCEPT !.op = op].op = op
    BY DEF NoCall
  <2>2. \/ /\ commands' = Append(commands, command)
           /\ BeginCall(op, command.fence.id)
        \/ commands' = commands /\ call_pc' = "refused" /\ call' = [NoCall EXCEPT !.op = op]
        \/ commands' = commands /\ stop_requested' /\ Return(AfterShutdown(op))
    BY DEF SendShutdown
  <2>3. BeginCall(op, command.fence.id) =>
          call'.op = op /\ call'.id = fences_created + 1 /\ call_pc' = "drain"
    BY DEF BeginCall
  <2>4. Return(AfterShutdown(op)) =>
          call_pc' \in {"idle", "dropping"} /\ call'.op = "none"
    BY <2>1 DEF Return, AfterShutdown
  <2> HIDE DEF command
  <2> QED
    BY <2>1, <2>2, <2>3, <2>4
<1>4. /\ Completed' = Completed
      /\ latest_report'.state = "Stopped" => latest_report.state = "Stopped"
  BY <1>1 DEF SendShutdown, Lost, HandleReport, Completed
<1>5. \A i \in 1 .. Len(commands') :
        \/ i \in 1 .. Len(commands) /\ commands'[i] = commands[i]
        \/ /\ commands'[i].kind = "Shutdown"
           /\ commands'[i].fence.id = fences_created + 1
           /\ commands'[i].fence.mark = frames_admitted
  <2>1. /\ command.kind = "Shutdown" /\ command.fence.id = fences_created + 1
        /\ command.fence.mark = frames_admitted
    OBVIOUS
  <2> HIDE DEF command
  <2> QED
    BY <1>1, <1>3, <2>1, CommandJoins
<1>6. /\ \A n \in Nat : n <= fences_created =>
            n <= fences_created' /\ n # fences_created + 1
      /\ fences_created + 1 <= fences_created'
  BY <1>1, <1>2
<1>7. CallShape'
  BY <1>3 DEF CallShape, InShutdown
<1>8. \A i \in 1 .. Len(commands) :
        commands[i].kind # "SubmitFrame" =>
          commands[i].fence.id \in Nat /\ commands[i].fence.id <= fences_created
  BY <1>1, ShutdownTypes DEF FenceIdsKnown
<1>9. taken.kind \in {"InsertFence", "Shutdown"} =>
        taken.fence.id \in Nat /\ taken.fence.id <= fences_created
  BY <1>1, ShutdownTypes DEF TypeOK, NoCommand, FenceIdsKnown
<1>10. \A i \in 1 .. Len(events) :
         events[i].kind = "Fence" =>
           events[i].result.id \in Nat /\ events[i].result.id <= fences_created
  BY <1>1, ShutdownTypes DEF FenceIdsKnown
<1>11. \A result \in cached_fences :
         result.id \in Nat /\ result.id <= fences_created
  BY <1>1, ShutdownTypes DEF FenceIdsKnown, TypeOK
<1>12. FenceIdsKnown'
  BY <1>2, <1>5, <1>6, <1>8, <1>9, <1>10, <1>11 DEF FenceIdsKnown
<1>13. ShutdownIsLast'
  <2>1. \A i \in 1 .. Len(commands') :
          commands'[i].kind = "Shutdown" => commands'[i].fence.mark = frames_admitted
    BY <1>1, <1>5 DEF ShutdownIsLast, IsLast
  <2> QED
    BY <1>1, <1>2, <2>1 DEF ShutdownIsLast, IsLast, Sent
<1>14. StoppedIsClean'
  BY <1>1, <1>2, <1>4 DEF StoppedIsClean, Served
<1>15. AnswerIsLast'
  <2> SUFFICES ASSUME AwaitsShutdown'
               PROVE  (/\ \A i \in 1 .. Len(commands) :
                            commands[i].kind = "InsertFence" =>
                              commands[i].fence.id # call.id
                       /\ taken.kind = "InsertFence" => taken.fence.id # call.id
                       /\ \A i \in 1 .. Len(events) :
                            events[i].kind = "Fence" /\ events[i].result.id = call.id =>
                              /\ Served /\ QuietAfter(i)
                              /\ events[i].result.completed = frames_admitted
                       /\ Answers # {} => AllReceived)'
    BY DEF AnswerIsLast
  <2>1. call'.id = fences_created + 1
    BY <1>3 DEF AwaitsShutdown
  <2>2. \A i \in 1 .. Len(commands') :
          commands'[i].kind = "InsertFence" => commands'[i].fence.id # call'.id
    BY <1>5, <1>6, <1>8, <2>1
  <2>3. taken'.kind = "InsertFence" => taken'.fence.id # call'.id
    BY <1>2, <1>6, <1>9, <2>1
  <2>4. \A i \in 1 .. Len(events') :
          ~(events'[i].kind = "Fence" /\ events'[i].result.id = call'.id)
    BY <1>2, <1>6, <1>10, <2>1
  <2>5. Answers' = {}
    BY <1>2, <1>6, <1>11, <2>1 DEF Answers
  <2> QED
    BY <2>2, <2>3, <2>4, <2>5
<1>16. ShutdownStages'
  BY <1>2, <1>3 DEF ShutdownStages, InShutdown
<1> QED
  BY <1>7, <1>12, <1>13, <1>14, <1>15, <1>16 DEF ShutdownInv

\* Drop of a handle whose thread was joined sends nothing.
LEMMA ShutdownShuts == Inv /\ ShutdownInv /\ (Shutdown \/ DropHandle) => ShutdownInv'
<1> SUFFICES ASSUME Inv, ShutdownInv, Shutdown \/ DropHandle PROVE ShutdownInv'
  OBVIOUS
<1>1. CASE \E op \in {"shutdown", "drop"} : SendShutdown(op)
  BY <1>1, SendShutdownShuts DEF Shutdown, DropHandle
<1>2. CASE ~ \E op \in {"shutdown", "drop"} : SendShutdown(op)
  <2>1. /\ call_pc = "idle" /\ call_pc' = "dropping"
        /\ UNCHANGED <<sharedVars, workerVars, handleVars, call, historyVars>>
    BY <1>2 DEF Shutdown, DropHandle
  <2>2. /\ call_pc = "idle" /\ call_pc' = "dropping" /\ call' = call
        /\ UNCHANGED <<commands, events, stop_requested, workerVars, latest_report,
                       cached_fences, frames_admitted, fences_created, shutdown_called>>
    BY <2>1 DEF handleVars, historyVars, sharedVars
  <2>3. /\ call.op = "none"
        /\ shutdown_called /\ ~stop_requested /\ ~InShutdown =>
             AllReceived /\ latest_report.state # "Running"
    BY <2>2 DEF ShutdownInv, CallShape, ShutdownStages
  <2>4. Completed' = Completed /\ CallShape' /\ ~InShutdown' /\ ~InShutdown
    BY <2>2, <2>3 DEF Completed, CallShape, InShutdown
  <2> QED
    BY <2>2, <2>3, <2>4, CallStaysClean DEF AwaitsShutdown
<1> QED
  BY <1>1, <1>2

\* Every step of either thread keeps the second invariant.
LEMMA NextShuts == Inv /\ Inv' /\ ShutdownInv /\ [Next]_vars => ShutdownInv'
<1> SUFFICES ASSUME Inv, Inv', ShutdownInv, [Next]_vars PROVE ShutdownInv'
  OBVIOUS
<1>1. ASSUME DrainEvent PROVE ShutdownInv'
  BY <1>1, HandleEventShuts DEF DrainEvent
<1>2. ASSUME RecvEvent PROVE ShutdownInv'
  BY <1>2, HandleEventShuts DEF RecvEvent
<1>3. ASSUME UNCHANGED vars PROVE ShutdownInv'
  <2>1. UNCHANGED <<commands, events, stop_requested, worker_pc, taken,
                    worker_report, panicked, cached_fences, latest_report, call,
                    call_pc, frames_admitted, fences_created, shutdown_called>>
    BY <1>3 DEF vars, sharedVars, workerVars, handleVars, callVars, historyVars
  <2> QED
    BY <2>1 DEF ShutdownInv, CallShape, FenceIdsKnown, ShutdownIsLast, IsLast,
      StoppedIsClean, AnswerIsLast, AwaitsShutdown, ShutdownStages, InShutdown, Waiting,
      AllReceived, Served, QuietAfter, Answers, Sent, Completed
<1>4. ASSUME CallStep PROVE ShutdownInv'
  BY <1>1, <1>2, <1>4, CallShuts DEF CallStep
<1>5. ASSUME NewCall PROVE ShutdownInv'
  BY <1>5, CallShuts, SubmitShuts, InsertFenceShuts, ShutdownShuts DEF NewCall
<1> QED
  BY <1>3, <1>4, <1>5, WorkerShuts DEF Next, Released

\* ShutdownInv holds in every state the two threads reach together.
THEOREM ShutdownInvAlways == Spec => []ShutdownInv
<1>1. Init => ShutdownInv
  BY InitShutdownInv
<1>2. Inv /\ Inv' /\ ShutdownInv /\ [Next]_vars => ShutdownInv'
  BY NextShuts
<1> QED
  BY <1>1, <1>2, InvAlways, PTL DEF Spec

\* shutdown: when the handle publishes Stopped, every frame ever admitted has
\* its result at the handle, whatever the two threads interleaved before.
THEOREM CleanStopAlwaysLosesNothing == Spec => []CleanStopLosesNothing
<1>1. Inv /\ ShutdownInv => CleanStopLosesNothing
  <2> SUFFICES ASSUME Inv, ShutdownInv, latest_report.state = "Stopped"
               PROVE  ~InLoop /\ ~panicked /\ Received = 1 .. frames_admitted
    BY DEF CleanStopLosesNothing
  <2>1. Served /\ Completed = frames_admitted
    BY DEF ShutdownInv, StoppedIsClean
  <2>2. Received = 1 .. Completed
    BY DEF Inv, ResultFacts
  <2> QED
    BY <2>1, <2>2 DEF Served, LeavingPc, InLoop
<1> QED
  BY <1>1, InvAlways, ShutdownInvAlways, PTL

-----------------------------------------------------------------------------
(* The handle and its thread implement the frame service. *)

\* The submissions of a queue that grows at its end.
LEMMA SubmissionSent ==
  ASSUME NEW queue \in Seq(RenderWorkerEvent), NEW event
  PROVE  SubmissionsOf(Append(queue, event)) =
           SubmissionsOf(queue)
             \cup (IF event.kind = "Submission" THEN {event.frame} ELSE {})
<1> DEFINE longer == Append(queue, event)
<1>1. /\ Len(queue) \in Nat /\ DOMAIN queue = 1 .. Len(queue)
      /\ DOMAIN longer = 1 .. Len(queue) + 1
      /\ \A i \in 1 .. Len(queue) : longer[i] = queue[i]
      /\ longer[Len(queue) + 1] = event
  OBVIOUS
<1> HIDE DEF longer
<1>2. \A i \in DOMAIN longer : i \in DOMAIN queue \/ i = Len(queue) + 1
  BY <1>1
<1>3. Len(queue) + 1 \in DOMAIN longer /\ DOMAIN queue \subseteq DOMAIN longer
  BY <1>1
<1>4. SubmissionsOf(longer) =
        SubmissionsOf(queue)
          \cup (IF event.kind = "Submission" THEN {event.frame} ELSE {})
  BY <1>1, <1>2, <1>3 DEF SubmissionsOf
<1> QED
  BY <1>4 DEF longer

\* The submissions of a queue that loses its head.
LEMMA SubmissionHandled ==
  ASSUME NEW queue \in Seq(RenderWorkerEvent), queue # << >>
  PROVE  SubmissionsOf(queue) =
           SubmissionsOf(Tail(queue))
             \cup (IF Head(queue).kind = "Submission" THEN {Head(queue).frame} ELSE {})
<1> DEFINE rest == Tail(queue)
           event == Head(queue)
<1>1. /\ Len(queue) \in Nat \ {0} /\ DOMAIN queue = 1 .. Len(queue)
      /\ DOMAIN rest = 1 .. Len(queue) - 1
      /\ \A i \in 1 .. Len(queue) - 1 : rest[i] = queue[i + 1]
      /\ event = queue[1]
  BY HeadTailProperties, EmptySeq, LenProperties
<1> HIDE DEF rest, event
<1>2. \A i \in DOMAIN queue : i = 1 \/ (i - 1 \in DOMAIN rest /\ rest[i - 1] = queue[i])
  BY <1>1
<1>3. /\ 1 \in DOMAIN queue
      /\ \A i \in DOMAIN rest : i + 1 \in DOMAIN queue /\ rest[i] = queue[i + 1]
  BY <1>1
<1>4. SubmissionsOf(queue) =
        SubmissionsOf(rest)
          \cup (IF event.kind = "Submission" THEN {event.frame} ELSE {})
  BY <1>1, <1>2, <1>3 DEF SubmissionsOf
<1> QED
  BY <1>4 DEF rest, event

\* What the service sees of a step that moves no frame: at most an end.
LEMMA ServiceCloses ==
  ASSUME UNCHANGED <<frames_admitted, cached_submissions, consumed>>,
         SubmissionsOf(events)' = SubmissionsOf(events),
         stop_requested \/ shutdown_called => stop_requested' \/ shutdown_called',
         InService' => InService
  PROVE  Service!Next
<1>1. Produced' = Produced
  BY DEF Produced
<1>2. (~(stop_requested \/ shutdown_called))' \in
        {FALSE, ~(stop_requested \/ shutdown_called)}
  OBVIOUS
<1>3. InService' \in {FALSE, InService}
  BY DEF InService
<1> QED
  BY <1>1, <1>2, <1>3 DEF Service!Next, Service!Close, InService

\* submit_frame: an admitted frame, or a refusal the service does not see.
LEMMA SubmitAdmits ==
  ASSUME Inv, ShutdownInv, SubmitFrame
  PROVE  Service!Next
<1>1. ~shutdown_called /\ ~stop_requested /\ outstanding_frames < FrameLimit
  BY SubmitBeforeShutdown DEF SubmitFrame, AdmissionOpen, FrameSlotFree
<1>2. outstanding_frames = Cardinality((1 .. frames_admitted) \ consumed)
  BY DEF Inv, ResultFacts
<1>3. UNCHANGED <<events, stop_requested, worker_pc, cached_submissions, consumed,
                  shutdown_called>>
  BY DEF SubmitFrame, workerVars
<1>4. Produced' = Produced
  BY <1>3 DEF Produced
<1>5. CASE frames_admitted' = frames_admitted + 1
  <2>1. ~(stop_requested \/ shutdown_called)
    BY <1>1
  <2>2. Cardinality((1 .. frames_admitted) \ consumed) < FrameLimit
    BY <1>1, <1>2
  <2>3. (~(stop_requested \/ shutdown_called))' = ~(stop_requested \/ shutdown_called)
    BY <1>3
  <2>4. Service!Admit
    <3>1. Service!Cardinality((1 .. frames_admitted) \ consumed)
            = Cardinality((1 .. frames_admitted) \ consumed)
      BY DEF Service!Cardinality, Cardinality
    <3> QED
      BY <1>3, <1>4, <1>5, <2>1, <2>2, <2>3, <3>1 DEF Service!Admit
  <2> QED
    BY <2>4 DEF Service!Next
<1>6. CASE frames_admitted' = frames_admitted
  BY <1>3, <1>6, ServiceCloses DEF InService
<1> QED
  BY <1>5, <1>6 DEF SubmitFrame

\* run_render_worker: the frame that ends is the oldest one without a result,
\* unless the handle is gone and the result goes nowhere.
LEMMA FinishProduces ==
  ASSUME Inv, FinishFrame
  PROVE  Service!Next
<1> DEFINE event == [kind |-> "Submission", frame |-> taken.frame]
<1>1. /\ worker_pc = "serve" /\ worker_pc' = "progress" /\ taken.kind = "SubmitFrame"
      /\ UNCHANGED <<stop_requested, cached_submissions, consumed, frames_admitted,
                     shutdown_called>>
      /\ events' = IF call_pc = "dropped" THEN events ELSE Append(events, event)
  BY DEF FinishFrame, Serving, Send, handleVars, historyVars
<1>2. InService /\ InService'
  BY <1>1 DEF InService
<1>3. CASE call_pc = "dropped"
  BY <1>1, <1>2, <1>3, ServiceCloses
<1>4. CASE call_pc # "dropped"
  <2>1. /\ TypeOK /\ EventChain /\ CommandChain /\ events \in Seq(RenderWorkerEvent)
        /\ CommandSenderAlive
    BY <1>4 DEF Inv, TypeOK, CommandSenderAlive
  <2>2. Produced = 1 .. Sent /\ Sent \in Nat /\ frames_admitted \in Nat
    BY <2>1, SubmissionsInOrder, QueueTypes DEF EventChain
  <2>3. taken.frame = Sent + 1 /\ taken.frame <= frames_admitted
    <3>1. taken \in FrameCommand /\ taken # NoCommand /\ Taken = taken.frame
      BY <1>1, <2>1, QueueTypes DEF NoCommand, Taken
    <3>2. taken.frame \in Nat
      BY <3>1, BoundAssumption DEF FrameCommand
    <3>3. FrameCount(taken) = Sent + Step(taken)
      BY <1>2, <2>1, <3>1 DEF CommandChain
    <3>4. Taken <= LastCount(commands, Taken)
      BY <1>2, <2>1, <3>1, <3>2, QueueTypes, RunEnd DEF CommandChain
    <3> QED
      BY <1>1, <1>2, <2>1, <3>1, <3>3, <3>4
      DEF CommandChain, FrameCount, Step, IsFrame
  <2>4. Produced' = Produced \cup {Sent + 1}
    <3>1. SubmissionsOf(events') = SubmissionsOf(events) \cup {Sent + 1}
      BY <1>1, <1>4, <2>1, <2>3, SubmissionSent
    <3> QED
      BY <1>1, <3>1 DEF Produced
  <2>5. Sent + 1 \in 1 .. frames_admitted /\ Produced' = 1 .. Sent + 1
    BY <2>2, <2>3, <2>4
  <2>6. Produced = 1 .. (Sent + 1) - 1
    BY <2>2
  <2>7. Service!Produce
    BY <1>1, <2>5, <2>6 DEF Service!Produce
  <2> QED
    BY <2>7 DEF Service!Next
<1> QED
  BY <1>3, <1>4

\* Everything else the worker does ends its service or shows the service
\* nothing.
LEMMA WorkerShowsNothing ==
  ASSUME Inv, WorkerStep \/ PanicInFrame, ~FinishFrame
  PROVE  Service!Next
<1>1. /\ UNCHANGED <<stop_requested, cached_submissions, consumed, frames_admitted,
                     shutdown_called>>
      /\ InService' => InService
  BY DEF WorkerStep, PanicInFrame, WorkerStart, WorkerRecv, WorkerHangup, WorkerStop,
    WorkerAccept, SendProgress, AnswerFence, BeginShutdown, AnswerShutdown,
    ReportStopped, ThreadExit, LeaveLoop, Serving, InService, handleVars, historyVars,
    sharedVars
<1>2. \/ events' = events
      \/ \E event : event.kind # "Submission" /\ events' = Append(events, event)
  <2>1. \A r : [kind |-> "WorkerReport", report |-> r].kind # "Submission"
    OBVIOUS
  <2>2. \A r : [kind |-> "Fence", result |-> r].kind # "Submission"
    OBVIOUS
  <2>3. ASSUME WorkerStart \/ SendProgress \/ BeginShutdown \/ ReportStopped
        PROVE  \E r : Send([kind |-> "WorkerReport", report |-> r])
    BY <2>3 DEF WorkerStart, SendProgress, BeginShutdown, ReportStopped
  <2>4. ASSUME AnswerFence \/ AnswerShutdown
        PROVE  \E r : Send([kind |-> "Fence", result |-> r])
    BY <2>4 DEF AnswerFence, AnswerShutdown
  <2>5. ASSUME WorkerRecv \/ WorkerHangup \/ WorkerStop \/ WorkerAccept \/ ThreadExit
                 \/ PanicInFrame
        PROVE  events' = events
    BY <2>5 DEF WorkerRecv, WorkerHangup, WorkerStop, WorkerAccept, ThreadExit,
      PanicInFrame, sharedVars
  <2> QED
    BY <2>1, <2>2, <2>3, <2>4, <2>5 DEF WorkerStep, Send
<1>3. SubmissionsOf(events)' = SubmissionsOf(events)
  BY <1>2, SubmissionSent DEF Inv, TypeOK
<1> QED
  BY <1>1, <1>3, ServiceCloses

\* handle_event moves a result from the channel into the cache.
LEMMA HandlingMovesResults ==
  ASSUME Inv, events # << >>, HandleEvent
  PROVE  UNCHANGED Service!serviceVars
<1>1. /\ UNCHANGED <<stop_requested, worker_pc, consumed, frames_admitted,
                     shutdown_called>>
      /\ events' = Tail(events)
      /\ cached_submissions' = cached_submissions \cup
           (IF Head(events).kind = "Submission" THEN {Head(events).frame} ELSE {})
  BY DEF HandleEvent, workerVars, historyVars
<1>2. SubmissionsOf(events) = SubmissionsOf(Tail(events)) \cup
        (IF Head(events).kind = "Submission" THEN {Head(events).frame} ELSE {})
  BY SubmissionHandled DEF Inv, TypeOK
<1>3. Produced' = Produced
  BY <1>1, <1>2 DEF Produced
<1> QED
  BY <1>1, <1>3 DEF Service!serviceVars

\* poll_submission_output hands a result over once.
LEMMA PollCollects ==
  ASSUME Inv, ReturnPoll
  PROVE  Service!Next
<1>1. /\ UNCHANGED <<events, worker_pc, frames_admitted, shutdown_called>>
      /\ stop_requested => stop_requested'
  BY DEF ReturnPoll, workerVars
<1>2. CASE call.id \in cached_submissions
  <2>1. /\ cached_submissions' = cached_submissions \ {call.id}
        /\ consumed' = consumed \cup {call.id}
    BY <1>2 DEF ReturnPoll, TakeResult
  <2>2. call.id \in Produced \ consumed /\ Produced' = Produced
    BY <1>1, <1>2, <2>1 DEF Produced, Inv, ResultFacts
  <2>3. (~(stop_requested \/ shutdown_called))' \in
          {FALSE, ~(stop_requested \/ shutdown_called)}
    BY <1>1
  <2>4. Service!Collect
    BY <1>1, <2>1, <2>2, <2>3 DEF Service!Collect
  <2> QED
    BY <2>4 DEF Service!Next
<1>3. CASE call.id \notin cached_submissions
  <2>1. UNCHANGED <<cached_submissions, consumed>>
    BY <1>3 DEF ReturnPoll
  <2> QED
    BY <1>1, <2>1, ServiceCloses DEF InService
<1> QED
  BY <1>2, <1>3

\* The rest of a call closes the admission or shows the service nothing.
LEMMA CallsShowNothing ==
  ASSUME \/ InsertFence \/ PollSubmission \/ WaitFence \/ LatestReport
         \/ ReturnReport \/ WaitAnswered \/ WaitTimeout \/ WaitMore \/ RecvNothing
         \/ RecvDisconnected \/ ShutdownRefused \/ CloseAdmission
         \/ JoinThread \/ Shutdown \/ DropHandle \/ DropFields
  PROVE  Service!Next
<1>1. ASSUME \/ PollSubmission \/ WaitFence \/ LatestReport \/ RecvNothing
             \/ DropFields \/ (DropHandle /\ ~thread_handle)
      PROVE  UNCHANGED <<events, stop_requested, worker_pc, cached_submissions,
                         consumed, frames_admitted, shutdown_called>>
  BY <1>1 DEF PollSubmission, WaitFence, LatestReport, RecvNothing, DropFields,
    DropHandle, sharedVars, workerVars, handleVars, historyVars
<1>2. ASSUME \/ ReturnReport \/ WaitAnswered \/ WaitTimeout \/ WaitMore
             \/ RecvDisconnected \/ ShutdownRefused \/ CloseAdmission \/ JoinThread
      PROVE  /\ UNCHANGED <<events, worker_pc, cached_submissions,
                            consumed, frames_admitted, shutdown_called>>
             /\ stop_requested => stop_requested'
  <2>1. UNCHANGED <<events, worker_pc, cached_submissions, consumed, frames_admitted,
                    shutdown_called>>
    BY <1>2 DEF ReturnReport, WaitAnswered, WaitTimeout, WaitMore, RecvDisconnected,
      ShutdownRefused, CloseAdmission, JoinThread, sharedVars, workerVars,
      handleVars, historyVars
  <2>2. ASSUME WaitAnswered \/ WaitTimeout \/ RecvDisconnected
        PROVE  stop_requested => stop_requested'
    BY <2>2 DEF WaitAnswered, WaitTimeout, RecvDisconnected, EndWait
  <2>3. ASSUME ReturnReport \/ WaitMore \/ ShutdownRefused \/ CloseAdmission \/ JoinThread
        PROVE  stop_requested => stop_requested'
    BY <2>3 DEF ReturnReport, WaitMore, ShutdownRefused, CloseAdmission, JoinThread,
      sharedVars
  <2> QED
    BY <1>2, <2>1, <2>2, <2>3
<1>3. ASSUME \/ InsertFence \/ Shutdown \/ (DropHandle /\ thread_handle)
      PROVE  /\ UNCHANGED <<events, worker_pc, cached_submissions,
                            consumed, frames_admitted>>
             /\ stop_requested => stop_requested'
             /\ shutdown_called => shutdown_called'
  BY <1>3 DEF InsertFence, FenceCall, Shutdown, DropHandle, SendShutdown, workerVars
<1> QED
  BY <1>1, <1>2, <1>3, ServiceCloses DEF InService

\* run_render_worker and RenderThreadWorker together implement FrameService:
\* every step is one of the service's or invisible to it.
THEOREM FrameServiceImplemented == Spec => ImplementsFrameService
<1>1. Init => Service!Init
  BY DEF Init, Service!Init, Produced, SubmissionsOf
<1>2. Inv /\ ShutdownInv /\ [Next]_vars => [Service!Next]_(Service!serviceVars)
  <2> SUFFICES ASSUME Inv, ShutdownInv, [Next]_vars
               PROVE  [Service!Next]_(Service!serviceVars)
    OBVIOUS
  <2>1. CASE WorkerStep \/ PanicInFrame
    BY <2>1, FinishProduces, WorkerShowsNothing
  <2>2. CASE DrainEvent \/ RecvEvent
    BY <2>2, HandlingMovesResults DEF DrainEvent, RecvEvent
  <2>3. CASE CallStep /\ ~DrainEvent /\ ~RecvEvent
    BY <2>3, PollCollects, CallsShowNothing DEF CallStep
  <2>4. CASE NewCall
    BY <2>4, SubmitAdmits, CallsShowNothing DEF NewCall
  <2>5. CASE UNCHANGED vars
    <3>1. UNCHANGED <<events, stop_requested, worker_pc, cached_submissions,
                      consumed, frames_admitted, shutdown_called>>
      BY <2>5 DEF vars, sharedVars, workerVars, handleVars, historyVars
    <3> QED
      BY <3>1 DEF Service!serviceVars, Produced
  <2> QED
    BY <2>1, <2>2, <2>3, <2>4, <2>5 DEF Next, Released
<1> QED
  BY <1>1, <1>2, InvAlways, ShutdownInvAlways, PTL
  DEF Spec, ImplementsFrameService, Service!Spec

-----------------------------------------------------------------------------
(* Commands the worker left behind *)

\* In service the command channel holds the frames after the worker's.
LEMMA ServiceOwesAhead ==
  ASSUME TypeOK, CommandChain, WorkerControl, InService
  PROVE  OwedAhead
<1>1. /\ commands \in Seq(RenderThreadCommand) /\ Sent \in Nat /\ frames_admitted \in Nat
      /\ Len(commands) \in Nat
  BY QueueTypes, ShutdownTypes DEF TypeOK
<1>2. FramesOf(commands) = Taken + 1 .. frames_admitted
  BY DEF CommandChain, Run
<1>3. Taken \in Nat /\ Sent <= Taken
  <2>1. CASE taken.kind = "SubmitFrame"
    <3>1. taken \in FrameCommand /\ taken # NoCommand
      BY <2>1, QueueTypes DEF NoCommand
    <3>2. FrameCount(taken) = Sent + Step(taken)
      BY <3>1 DEF CommandChain
    <3> QED
      BY <1>1, <2>1, <3>1, <3>2 DEF Taken, FrameCount, Step, IsFrame
  <2>2. CASE taken.kind # "SubmitFrame"
    BY <1>1, <2>2 DEF Taken
  <2> QED
    BY <2>1, <2>2
<1>4. ASSUME NEW i \in 1 .. Len(commands), commands[i].kind = "SubmitFrame"
      PROVE  commands[i].frame \in Taken + 1 .. frames_admitted
  BY <1>2, <1>4 DEF FramesOf, IsFrame
<1> QED
  BY <1>1, <1>3, <1>4 DEF OwedAhead

\* Out of service only the handle still moves: what it adds is a frame the
\* worker has not seen.
LEMMA OwedStaysAhead == Inv /\ Inv' /\ OwedAhead /\ [Next]_vars => OwedAhead'
<1> SUFFICES ASSUME Inv, Inv', OwedAhead, [Next]_vars PROVE OwedAhead'
  OBVIOUS
<1>1. /\ TypeOK /\ commands \in Seq(RenderThreadCommand) /\ Len(commands) \in Nat
      /\ Sent \in Nat /\ frames_admitted \in Nat /\ Sent <= frames_admitted
      /\ worker_report \in WorkerReport
  BY QueueTypes, ShutdownTypes DEF Inv, WorkerControl, TypeOK
<1>2. CASE InService'
  <2>1. (TypeOK /\ CommandChain /\ WorkerControl /\ InService => OwedAhead)'
    BY ServiceOwesAhead, PTL
  <2> QED
    BY <1>2, <2>1 DEF Inv
<1>3. ASSUME UNCHANGED <<commands, frames_admitted>>, Sent' = Sent PROVE OwedAhead'
  BY <1>3 DEF OwedAhead
<1>4. CASE ~InService' /\ (WorkerStep \/ PanicInFrame)
  <2>1. UNCHANGED <<commands, frames_admitted>> /\ Sent' = Sent
    BY <1>1, <1>4 DEF WorkerStep, WorkerStart, WorkerRecv, WorkerHangup, WorkerStop,
      WorkerAccept, FinishFrame, PanicInFrame, SendProgress, AnswerFence, BeginShutdown,
      AnswerShutdown, ReportStopped, ThreadExit, LeaveLoop, InService, Sent,
      WorkerReport, sharedVars, historyVars
  <2> QED
    BY <1>3, <2>1
<1>5. CASE CallStep \/ UNCHANGED vars
  <2>1. UNCHANGED <<commands, frames_admitted, worker_report>>
    BY <1>5 DEF CallStep, DrainEvent, RecvEvent, HandleEvent, ReturnPoll, ReturnReport,
      WaitAnswered, WaitTimeout, WaitMore, RecvNothing, RecvDisconnected,
      ShutdownRefused, CloseAdmission, JoinThread, DropFields, sharedVars, workerVars,
      historyVars, vars
  <2> QED
    BY <1>3, <2>1 DEF Sent
<1>6. ASSUME NEW command, Sent' = Sent,
             frames_admitted' \in {frames_admitted, frames_admitted + 1},
             commands' = commands \/ commands' = Append(commands, command),
             command.kind = "SubmitFrame" =>
               /\ command.frame = frames_admitted + 1
               /\ frames_admitted' = frames_admitted + 1 \/ commands' = commands
      PROVE  OwedAhead'
  <2> SUFFICES ASSUME NEW i \in 1 .. Len(commands'), commands'[i].kind = "SubmitFrame"
               PROVE  Sent < commands'[i].frame /\ commands'[i].frame <= frames_admitted'
    BY <1>6 DEF OwedAhead
  <2>1. CASE i \in 1 .. Len(commands) /\ commands'[i] = commands[i]
    <3>1. Sent < commands[i].frame /\ commands[i].frame <= frames_admitted
      BY <2>1 DEF OwedAhead
    <3>2. commands[i].frame \in Nat
      BY <1>1, <2>1, ElementOfSeq, BoundAssumption
      DEF RenderThreadCommand, FrameCommand, FenceCommand
    <3> QED
      BY <1>1, <1>6, <2>1, <3>1, <3>2
  <2>2. CASE ~(i \in 1 .. Len(commands) /\ commands'[i] = commands[i])
    <3>1. commands'[i] = command /\ commands' # commands
      BY <1>1, <1>6, <2>2, CommandJoins
    <3> QED
      BY <1>1, <1>6, <3>1
  <2> QED
    BY <2>1, <2>2
<1>7. CASE SubmitFrame
  <2> DEFINE command == [kind |-> "SubmitFrame", frame |-> frames_admitted + 1]
  <2>1. /\ \/ commands' = commands /\ frames_admitted' = frames_admitted
           \/ /\ commands' = Append(commands, command)
              /\ frames_admitted' = frames_admitted + 1
        /\ worker_report' = worker_report
    BY <1>7 DEF SubmitFrame, workerVars
  <2>2. command.kind = "SubmitFrame" /\ command.frame = frames_admitted + 1
    OBVIOUS
  <2> HIDE DEF command
  <2> QED
    BY <1>6, <2>1, <2>2 DEF Sent
<1>8. CASE InsertFence
  <2>1. PICK depth \in SyncDepth, target \in FenceTargets : InsertFenceOf(depth, target)
    BY <1>8 DEF InsertFence
  <2> DEFINE command == [kind |-> "InsertFence",
                         fence |-> [id |-> fences_created + 1, depth |-> depth,
                                    target |-> target, mark |-> frames_admitted]]
  <2>2. commands' = commands \/ commands' = Append(commands, command)
    BY <2>1 DEF InsertFenceOf
  <2>3. UNCHANGED <<worker_report, frames_admitted>> /\ command.kind # "SubmitFrame"
    BY <1>8 DEF InsertFence, FenceCall, workerVars
  <2> HIDE DEF command
  <2> QED
    BY <1>6, <2>2, <2>3 DEF Sent
<1>9. CASE Shutdown \/ DropHandle
  <2> DEFINE command == [kind |-> "Shutdown",
                         fence |-> [id |-> fences_created + 1, depth |-> "RenderThread",
                                    target |-> 0, mark |-> frames_admitted]]
  <2>1. commands' = commands \/ commands' = Append(commands, command)
    BY <1>9 DEF Shutdown, DropHandle, SendShutdown, sharedVars
  <2>2. UNCHANGED <<worker_report, frames_admitted>> /\ command.kind # "SubmitFrame"
    BY <1>9 DEF Shutdown, DropHandle, SendShutdown, workerVars, historyVars
  <2> HIDE DEF command
  <2> QED
    BY <1>6, <2>1, <2>2 DEF Sent
<1>10. CASE PollSubmission \/ WaitFence \/ LatestReport
  BY <1>3, <1>10 DEF PollSubmission, WaitFence, LatestReport, sharedVars, workerVars,
    historyVars, Sent
<1> QED
  BY <1>2, <1>4, <1>5, <1>7, <1>8, <1>9, <1>10 DEF Next, NewCall, Released

-----------------------------------------------------------------------------
(* The event channel is bounded by what the handle counts *)

\* A message that joins a queue brings its fence, if it names one.
LEMMA FencesAppend ==
  ASSUME NEW S, NEW queue \in Seq(S), NEW message \in S
  PROVE  /\ FencesIn(Append(queue, message)) =
              FencesIn(queue) \cup
                (IF NamesFence(message) THEN {NamedFence(message)} ELSE {})
         /\ EachFenceOnce(queue) /\ (NamesFence(message) =>
                                       NamedFence(message) \notin FencesIn(queue))
              => EachFenceOnce(Append(queue, message))
<1> DEFINE longer == Append(queue, message)
<1>1. /\ Len(queue) \in Nat /\ Len(longer) = Len(queue) + 1
      /\ \A i \in 1 .. Len(queue) : longer[i] = queue[i]
      /\ longer[Len(queue) + 1] = message
  BY AppendProperties, LenProperties
<1>2. \A i \in 1 .. Len(longer) : i \in 1 .. Len(queue) \/ i = Len(queue) + 1
  BY <1>1
<1>3. \A i \in 1 .. Len(queue) : i \in 1 .. Len(longer)
  BY <1>1
<1>4. Len(queue) + 1 \in 1 .. Len(longer)
  BY <1>1
<1> HIDE DEF longer
<1>5. FencesIn(longer) = FencesIn(queue) \cup
                (IF NamesFence(message) THEN {NamedFence(message)} ELSE {})
  BY <1>1, <1>2, <1>3, <1>4 DEF FencesIn
<1>6. ASSUME EachFenceOnce(queue),
             NamesFence(message) => NamedFence(message) \notin FencesIn(queue)
      PROVE  EachFenceOnce(longer)
  <2> SUFFICES ASSUME NEW i \in 1 .. Len(longer), NEW j \in 1 .. Len(longer),
                      NamesFence(longer[i]), NamesFence(longer[j]),
                      NamedFence(longer[i]) = NamedFence(longer[j])
               PROVE  i = j
    BY DEF EachFenceOnce
  <2>1. CASE i \in 1 .. Len(queue) /\ j \in 1 .. Len(queue)
    BY <1>1, <1>6, <2>1 DEF EachFenceOnce
  <2>2. CASE i \in 1 .. Len(queue) /\ j = Len(queue) + 1
    BY <1>1, <1>6, <2>2 DEF FencesIn
  <2>3. CASE i = Len(queue) + 1 /\ j \in 1 .. Len(queue)
    BY <1>1, <1>6, <2>3 DEF FencesIn
  <2> QED
    BY <1>2, <2>1, <2>2, <2>3
<1> QED
  BY <1>5, <1>6 DEF longer

\* A message that leaves a queue takes its fence with it.
LEMMA FencesTail ==
  ASSUME NEW S, NEW queue \in Seq(S), queue # << >>, EachFenceOnce(queue)
  PROVE  /\ FencesIn(Tail(queue)) =
              FencesIn(queue) \
                (IF NamesFence(Head(queue)) THEN {NamedFence(Head(queue))} ELSE {})
         /\ EachFenceOnce(Tail(queue))
         /\ NamesFence(Head(queue)) => NamedFence(Head(queue)) \in FencesIn(queue)
<1> DEFINE rest == Tail(queue)
<1>1. /\ Len(queue) \in Nat /\ Len(queue) # 0 /\ Len(rest) = Len(queue) - 1
      /\ \A i \in 1 .. Len(rest) : rest[i] = queue[i + 1]
      /\ Head(queue) = queue[1]
  BY HeadTailProperties, LenProperties, EmptySeq
<1>2. \A i \in 1 .. Len(rest) : i + 1 \in 1 .. Len(queue) /\ i + 1 # 1
  BY <1>1
<1>3. \A i \in 1 .. Len(queue) : i # 1 => i - 1 \in 1 .. Len(rest) /\ (i - 1) + 1 = i
  BY <1>1
<1>4. 1 \in 1 .. Len(queue)
  BY <1>1
<1> HIDE DEF rest
<1>5. EachFenceOnce(rest)
  <2> SUFFICES ASSUME NEW i \in 1 .. Len(rest), NEW j \in 1 .. Len(rest),
                      NamesFence(rest[i]), NamesFence(rest[j]),
                      NamedFence(rest[i]) = NamedFence(rest[j])
               PROVE  i = j
    BY DEF EachFenceOnce
  <2>1. i + 1 = j + 1
    BY <1>1, <1>2 DEF EachFenceOnce
  <2> QED
    BY <2>1
<1>6. FencesIn(rest) = {NamedFence(queue[i]) :
                          i \in {j \in 1 .. Len(queue) : j # 1 /\ NamesFence(queue[j])}}
  <2>1. ASSUME NEW id \in FencesIn(rest)
        PROVE  id \in {NamedFence(queue[i]) :
                          i \in {j \in 1 .. Len(queue) : j # 1 /\ NamesFence(queue[j])}}
    BY <1>1, <1>2 DEF FencesIn
  <2>2. ASSUME NEW i \in 1 .. Len(queue), i # 1, NamesFence(queue[i])
        PROVE  NamedFence(queue[i]) \in FencesIn(rest)
    <3>1. i - 1 \in 1 .. Len(rest) /\ rest[i - 1] = queue[i]
      BY <1>1, <1>3, <2>2
    <3> QED
      BY <3>1, <2>2 DEF FencesIn
  <2> QED
    BY <2>1, <2>2
<1>7. FencesIn(queue) = FencesIn(rest) \cup
        (IF NamesFence(queue[1]) THEN {NamedFence(queue[1])} ELSE {})
  BY <1>4, <1>6 DEF FencesIn
<1>8. NamesFence(queue[1]) => NamedFence(queue[1]) \notin FencesIn(rest)
  BY <1>4, <1>6 DEF EachFenceOnce
<1> QED
  BY <1>1, <1>5, <1>7, <1>8 DEF rest

\* Only fences that were created are named anywhere.
LEMMA FencesKnown ==
  ASSUME TypeOK, FenceIdsKnown
  PROVE  /\ UnclaimedFences \subseteq 1 .. fences_created
         /\ fences_created \in Nat
         /\ IsFiniteSet(UnclaimedFences) /\ IsFiniteSet(OwedFences)
         /\ Cardinality(UnclaimedFences) \in Nat
         /\ Cardinality(OwedFences) \in Nat
         /\ Cardinality(OwedFences) <= Cardinality(UnclaimedFences)
<1>1. fences_created \in Nat
  BY ShutdownTypes
<1>2. FencesIn(commands) \subseteq 1 .. fences_created
  <2> SUFFICES ASSUME NEW i \in 1 .. Len(commands), NamesFence(commands[i])
               PROVE  NamedFence(commands[i]) \in 1 .. fences_created
    BY DEF FencesIn
  <2>1. commands[i] \in RenderThreadCommand
    BY ShutdownTypes
  <2>2. commands[i].kind = "InsertFence" /\ commands[i].fence \in RenderFence
    BY <2>1 DEF NamesFence, RenderThreadCommand, FrameCommand, FenceCommand
  <2>3. commands[i].fence.id \in FenceId /\ commands[i].fence.id <= fences_created
    BY <2>2 DEF RenderFence, FenceIdsKnown
  <2> QED
    BY <1>1, <2>2, <2>3, BoundAssumption DEF NamedFence, FenceId
<1>3. TakenFence \subseteq 1 .. fences_created
  <2> SUFFICES ASSUME NamesFence(taken)
               PROVE  NamedFence(taken) \in 1 .. fences_created
    BY DEF TakenFence
  <2>1. taken \in RenderThreadCommand \cup {NoCommand}
    BY DEF TypeOK
  <2>2. taken.kind = "InsertFence" /\ taken.fence \in RenderFence
    BY <2>1 DEF NamesFence, RenderThreadCommand, FrameCommand, FenceCommand, NoCommand
  <2>3. taken.fence.id \in FenceId /\ taken.fence.id <= fences_created
    BY <2>2 DEF RenderFence, FenceIdsKnown
  <2> QED
    BY <1>1, <2>2, <2>3, BoundAssumption DEF NamedFence, FenceId
<1>4. FencesIn(events) \subseteq 1 .. fences_created
  <2> SUFFICES ASSUME NEW i \in 1 .. Len(events), NamesFence(events[i])
               PROVE  NamedFence(events[i]) \in 1 .. fences_created
    BY DEF FencesIn
  <2>1. events[i] \in RenderWorkerEvent
    BY ShutdownTypes
  <2>2. events[i].kind = "Fence" /\ events[i].result \in FenceResult
    BY <2>1 DEF NamesFence, RenderWorkerEvent
  <2>3. events[i].result.id \in FenceId /\ events[i].result.id <= fences_created
    BY <2>2 DEF FenceResult, FenceIdsKnown
  <2> QED
    BY <1>1, <2>2, <2>3, BoundAssumption DEF NamedFence, FenceId
<1>5. CachedFences \subseteq 1 .. fences_created
  <2>1. \A result \in cached_fences : result.id \in FenceId /\ result.id <= fences_created
    BY DEF TypeOK, FenceResult, FenceIdsKnown
  <2> QED
    BY <1>1, <2>1, BoundAssumption DEF CachedFences, FenceId
<1>6. UnclaimedFences \subseteq 1 .. fences_created /\ OwedFences \subseteq UnclaimedFences
  BY <1>2, <1>3, <1>4, <1>5 DEF UnclaimedFences, OwedFences
<1>7. IsFiniteSet(1 .. fences_created)
  BY <1>1, FS_Interval
<1>8. IsFiniteSet(UnclaimedFences) /\ IsFiniteSet(OwedFences)
  BY <1>6, <1>7, FS_Subset
<1> QED
  BY <1>1, <1>6, <1>8, FS_Subset, FS_CardinalityType

\* What is due and what pays for it are numbers.
LEMMA PaymentTypes ==
  ASSUME TypeOK, WorkerControl, FenceIdsKnown
  PROVE  /\ Len(events) \in Nat /\ Due \in Nat
         /\ outstanding_frames \in Nat /\ outstanding_fences \in Nat
         /\ frames_admitted \in Nat /\ Sent \in Nat /\ Sent <= frames_admitted
         /\ ReportDue \in 0 .. 1
         /\ Cardinality(OwedFences) \in Nat
         /\ InLoop => Due = ReportDue + 2 * (frames_admitted - Sent)
                              + Cardinality(OwedFences) + 3
<1>1. Cardinality(OwedFences) \in Nat
  BY FencesKnown
<1>2. frames_admitted \in Nat /\ Sent \in Nat /\ Sent <= frames_admitted
  BY QueueTypes DEF WorkerControl
<1>3. ReportDue \in 0 .. 1
  BY DEF ReportDue
<1>4. outstanding_frames \in Nat /\ outstanding_fences \in Nat
  BY LimitAssumption DEF TypeOK
<1>5. Len(events) \in Nat
  BY ShutdownTypes
<1> QED
  BY <1>1, <1>2, <1>3, <1>4, <1>5 DEF Due

\* Nothing is asked and nothing sent: four events may come.
LEMMA InitBacklog == Init => BacklogInv
<1> SUFFICES ASSUME Init PROVE BacklogInv
  OBVIOUS
<1>1. /\ commands = << >> /\ events = << >> /\ cached_fences = {}
      /\ taken = NoCommand /\ worker_pc = "start"
      /\ frames_admitted = 0 /\ Sent = 0
      /\ outstanding_frames = 0 /\ outstanding_fences = 0
  BY DEF Init, Sent
<1>2. FencesIn(commands) = {} /\ FencesIn(events) = {} /\ CachedFences = {}
      /\ TakenFence = {}
  BY <1>1 DEF FencesIn, CachedFences, TakenFence, NamesFence, NoCommand
<1>3. OwedFences = {} /\ UnclaimedFences = {}
  BY <1>2 DEF OwedFences, UnclaimedFences
<1>4. Cardinality({}) = 0
  BY FS_EmptySet
<1>5. FencesApart
  BY <1>1, <1>2, <1>3 DEF FencesApart, EachFenceOnce
<1>6. Len(events) = 0
  BY <1>1
<1>7. FencesPaid
  BY <1>1, <1>3, <1>4 DEF FencesPaid
<1>8. EventsPaid
  BY <1>1, <1>3, <1>4, <1>6 DEF EventsPaid, Due, ReportDue, InLoop
<1> QED
  BY <1>5, <1>7, <1>8 DEF BacklogInv

\* A step that moves no message and takes no answer.
LEMMA BacklogSame ==
  ASSUME BacklogInv,
         UNCHANGED <<commands, events, worker_pc, taken, worker_report, cached_fences,
                     outstanding_frames, outstanding_fences, frames_admitted>>
  PROVE  BacklogInv'
BY DEF BacklogInv, FencesApart, FencesPaid, EventsPaid, Due, ReportDue, InLoop, Sent,
       UnclaimedFences, OwedFences, TakenFence, CachedFences

\* An event that is sent is one event, or none when the handle is gone.
LEMMA SendLength ==
  ASSUME NEW event, TypeOK, Send(event)
  PROVE  Len(events') \in Nat /\ Len(events') <= Len(events) + 1
<1> DEFINE S == RenderWorkerEvent \cup {event}
<1>1. events \in Seq(S) /\ Len(events) \in Nat
  BY ShutdownTypes, SeqMonotonic
<1>2. Len(Append(events, event)) = Len(events) + 1
  BY <1>1, AppendProperties
<1> QED
  BY <1>1, <1>2 DEF Send

\* A worker that leaves its loop, or has left it, may send fewer events.
LEMMA LeaversPay ==
  ASSUME Inv, ShutdownInv, BacklogInv, ~InLoop',
         UNCHANGED <<outstanding_frames, outstanding_fences>>,
         Len(events') \in Nat, Due' \in Nat,
         Len(events') + Due' <= Len(events) + Due
  PROVE  BacklogInv'
<1>1. /\ Len(events) \in Nat /\ Due \in Nat
      /\ outstanding_frames \in Nat /\ outstanding_fences \in Nat
  BY PaymentTypes DEF Inv, ShutdownInv
<1> QED
  BY <1>1 DEF BacklogInv, FencesPaid, EventsPaid

\* The steps by which the worker leaves its loop, and what it says afterwards.
LEMMA LeavingPays ==
  ASSUME Inv, ShutdownInv, BacklogInv,
         \/ WorkerHangup \/ WorkerStop \/ PanicInFrame \/ BeginShutdown
         \/ AnswerShutdown \/ ReportStopped \/ ThreadExit
  PROVE  BacklogInv'
<1>1. /\ Len(events) \in Nat /\ Due \in Nat /\ ReportDue \in 0 .. 1
      /\ frames_admitted \in Nat /\ Sent \in Nat /\ Sent <= frames_admitted
      /\ Cardinality(OwedFences) \in Nat
      /\ InLoop => Due = ReportDue + 2 * (frames_admitted - Sent)
                           + Cardinality(OwedFences) + 3
  BY PaymentTypes DEF Inv, ShutdownInv
<1>2. InLoop => Due >= 3
  BY <1>1
<1>3. TypeOK /\ WorkerControl
  BY DEF Inv
<1> DEFINE MayPay == /\ ~InLoop'
                     /\ UNCHANGED <<outstanding_frames, outstanding_fences>>
                     /\ Len(events') \in Nat /\ Due' \in Nat
                     /\ Len(events') + Due' <= Len(events) + Due
<1>4. CASE WorkerHangup \/ WorkerStop \/ PanicInFrame
  <2>1. worker_pc' = "dropSender" /\ events' = events
        /\ UNCHANGED <<outstanding_frames, outstanding_fences>>
    BY <1>4 DEF WorkerHangup, WorkerStop, PanicInFrame, LeaveLoop, sharedVars, handleVars
  <2>2. ~InLoop' /\ Due' = 0
    BY <2>1 DEF InLoop, Due
  <2>3. MayPay
    BY <1>1, <2>1, <2>2
  <2> QED
    BY <2>3, LeaversPay
<1>5. CASE BeginShutdown
  <2>1. PICK event : Send(event)
    BY <1>5 DEF BeginShutdown
  <2>2. Len(events') \in Nat /\ Len(events') <= Len(events) + 1
    BY <1>3, <2>1, SendLength
  <2>3. worker_pc = "serve" /\ worker_pc' = "answerShutdown"
        /\ UNCHANGED <<outstanding_frames, outstanding_fences>>
    BY <1>5 DEF BeginShutdown, Serving, handleVars
  <2>4. InLoop /\ ~InLoop' /\ Due' = 2
    BY <2>3 DEF InLoop, Due
  <2>5. MayPay
    BY <1>1, <1>2, <2>2, <2>3, <2>4
  <2> QED
    BY <2>5, LeaversPay
<1>6. CASE AnswerShutdown
  <2>1. PICK event : Send(event)
    BY <1>6 DEF AnswerShutdown
  <2>2. Len(events') \in Nat /\ Len(events') <= Len(events) + 1
    BY <1>3, <2>1, SendLength
  <2>3. worker_pc = "answerShutdown" /\ worker_pc' = "reportStopped"
        /\ UNCHANGED <<outstanding_frames, outstanding_fences>>
    BY <1>6 DEF AnswerShutdown, handleVars
  <2>4. ~InLoop' /\ Due = 2 /\ Due' = 1
    BY <2>3 DEF InLoop, Due
  <2>5. MayPay
    BY <1>1, <2>2, <2>3, <2>4
  <2> QED
    BY <2>5, LeaversPay
<1>7. CASE ReportStopped
  <2>1. PICK event : Send(event)
    BY <1>7 DEF ReportStopped
  <2>2. Len(events') \in Nat /\ Len(events') <= Len(events) + 1
    BY <1>3, <2>1, SendLength
  <2>3. worker_pc = "reportStopped" /\ worker_pc' = "dropSender"
        /\ UNCHANGED <<outstanding_frames, outstanding_fences>>
    BY <1>7 DEF ReportStopped, LeaveLoop, handleVars
  <2>4. ~InLoop' /\ Due = 1 /\ Due' = 0
    BY <2>3 DEF InLoop, Due
  <2>5. MayPay
    BY <1>1, <2>2, <2>3, <2>4
  <2> QED
    BY <2>5, LeaversPay
<1>8. CASE ThreadExit
  <2>1. /\ worker_pc' \in {"dropReceiver", "exiting", "finished"} /\ events' = events
        /\ UNCHANGED <<outstanding_frames, outstanding_fences>>
    BY <1>8 DEF ThreadExit, sharedVars, handleVars
  <2>2. ~InLoop' /\ Due' = 0
    BY <2>1 DEF InLoop, Due
  <2>3. MayPay
    BY <1>1, <2>1, <2>2
  <2> QED
    BY <2>3, LeaversPay
<1> QED
  BY <1>4, <1>5, <1>6, <1>7, <1>8

\* An event that names no fence leaves the fences of the channel as they are.
LEMMA SendNamesNothing ==
  ASSUME NEW event, TypeOK, Send(event), ~NamesFence(event)
  PROVE  FencesIn(events') = FencesIn(events)
         /\ (EachFenceOnce(events) => EachFenceOnce(events'))
<1> DEFINE S == RenderWorkerEvent \cup {event}
<1>1. events \in Seq(S)
  BY ShutdownTypes, SeqMonotonic
<1> HIDE DEF S
<1>2. event \in S
  BY DEF S
<1> QED
  BY <1>1, <1>2, FencesAppend DEF Send

\* A worker in its loop that sends no more than it was paid for.
LEMMA LoopPays ==
  ASSUME Inv, ShutdownInv, BacklogInv, InLoop, FencesApart',
         UnclaimedFences' = UnclaimedFences,
         UNCHANGED <<outstanding_frames, outstanding_fences>>,
         Len(events') \in Nat, Due' \in Nat,
         Len(events') + Due' <= Len(events) + Due
  PROVE  BacklogInv'
<1>1. /\ Len(events) \in Nat /\ Due \in Nat
      /\ outstanding_frames \in Nat /\ outstanding_fences \in Nat
  BY PaymentTypes DEF Inv, ShutdownInv
<1> QED
  BY <1>1 DEF BacklogInv, FencesPaid, EventsPaid

\* The first report and the reports of progress.
LEMMA ReportPays ==
  ASSUME Inv, ShutdownInv, BacklogInv, WorkerStart \/ SendProgress
  PROVE  BacklogInv'
<1>1. PICK report : Send([kind |-> "WorkerReport", report |-> report])
  BY DEF WorkerStart, SendProgress
<1> DEFINE event == [kind |-> "WorkerReport", report |-> report]
<1>2. /\ worker_pc \in {"start", "progress"} /\ worker_pc' = "recv"
      /\ UNCHANGED <<commands, taken, worker_report, cached_fences, frames_admitted,
                     outstanding_frames, outstanding_fences>>
  BY DEF WorkerStart, SendProgress, handleVars, historyVars
<1>3. InLoop /\ InLoop' /\ ReportDue = 1 /\ ReportDue' = 0 /\ Sent' = Sent
  BY <1>2 DEF InLoop, ReportDue, Sent
<1>4. /\ Len(events) \in Nat /\ Due \in Nat
      /\ frames_admitted \in Nat /\ Sent \in Nat /\ Sent <= frames_admitted
      /\ Cardinality(OwedFences) \in Nat
      /\ Due = ReportDue + 2 * (frames_admitted - Sent) + Cardinality(OwedFences) + 3
  BY <1>3, PaymentTypes DEF Inv, ShutdownInv
<1>5. Len(events') \in Nat /\ Len(events') <= Len(events) + 1
  BY <1>1, SendLength DEF Inv
<1>6. FencesIn(events') = FencesIn(events) /\ (EachFenceOnce(events) => EachFenceOnce(events'))
  BY <1>1, SendNamesNothing DEF Inv, NamesFence
<1>7. OwedFences' = OwedFences /\ TakenFence' = TakenFence /\ CachedFences' = CachedFences
  BY <1>2 DEF OwedFences, TakenFence, CachedFences
<1>8. UnclaimedFences' = UnclaimedFences
  BY <1>6, <1>7 DEF UnclaimedFences
<1>9. FencesApart'
  BY <1>2, <1>3, <1>6, <1>7 DEF FencesApart, BacklogInv
<1>10. Due' = 2 * (frames_admitted - Sent) + Cardinality(OwedFences) + 3
  BY <1>2, <1>3, <1>4, <1>7 DEF Due
<1>11. Due' \in Nat /\ Len(events') + Due' <= Len(events) + Due
  BY <1>3, <1>4, <1>5, <1>10
<1> QED
  BY <1>2, <1>3, <1>5, <1>8, <1>9, <1>11, LoopPays

\* A command that the worker takes is owed as before.
LEMMA RecvPays ==
  ASSUME Inv, ShutdownInv, BacklogInv, WorkerRecv
  PROVE  BacklogInv'
<1>1. /\ worker_pc = "recv" /\ worker_pc' = "taken" /\ commands # << >>
      /\ taken' = Head(commands) /\ commands' = Tail(commands)
      /\ UNCHANGED <<events, worker_report, cached_fences, frames_admitted,
                     outstanding_frames, outstanding_fences>>
  BY DEF WorkerRecv, handleVars, historyVars
<1>2. InLoop /\ InLoop' /\ ReportDue = 0 /\ ReportDue' = 0 /\ Sent' = Sent
  BY <1>1 DEF InLoop, ReportDue, Sent
<1>3. FencesApart
  BY <1>2 DEF BacklogInv
<1>4. taken = NoCommand
  BY <1>1 DEF Inv, WorkerControl
<1>5. TakenFence = {}
  BY <1>4 DEF TakenFence, NamesFence, NoCommand
<1>6. commands \in Seq(RenderThreadCommand) /\ EachFenceOnce(commands)
  BY <1>3, ShutdownTypes DEF Inv, FencesApart
<1>7. TakenFence' =
        IF NamesFence(Head(commands)) THEN {NamedFence(Head(commands))} ELSE {}
  BY <1>1 DEF TakenFence
<1>8. /\ FencesIn(commands') = FencesIn(commands) \ TakenFence'
      /\ EachFenceOnce(commands') /\ TakenFence' \subseteq FencesIn(commands)
  BY <1>1, <1>6, <1>7, FencesTail
<1>9. OwedFences' = OwedFences /\ CachedFences' = CachedFences
      /\ FencesIn(events') = FencesIn(events)
  BY <1>1, <1>5, <1>8 DEF OwedFences, CachedFences
<1>10. UnclaimedFences' = UnclaimedFences
  BY <1>9 DEF UnclaimedFences
<1>11. FencesApart'
  BY <1>1, <1>3, <1>8, <1>9 DEF FencesApart
<1>12. /\ Len(events) \in Nat /\ Due \in Nat
       /\ Due = ReportDue + 2 * (frames_admitted - Sent) + Cardinality(OwedFences) + 3
  BY <1>2, PaymentTypes DEF Inv, ShutdownInv
<1>13. Due' = Due
  BY <1>1, <1>2, <1>9, <1>12 DEF Due
<1>14. Len(events') + Due' <= Len(events) + Due
  BY <1>1, <1>12, <1>13
<1> QED
  BY <1>1, <1>2, <1>10, <1>11, <1>12, <1>13, <1>14, LoopPays

\* Accepting a command asks for nothing new.
LEMMA AcceptPays ==
  ASSUME Inv, ShutdownInv, BacklogInv, WorkerAccept
  PROVE  BacklogInv'
<1>1. /\ worker_pc = "taken" /\ worker_pc' = "serve"
      /\ UNCHANGED <<commands, events, taken, cached_fences, frames_admitted,
                     outstanding_frames, outstanding_fences>>
  BY DEF WorkerAccept, sharedVars, handleVars, historyVars
<1>2. Sent' = Sent
  <2>1. worker_report \in WorkerReport
    BY DEF Inv, TypeOK
  <2> QED
    BY <2>1 DEF WorkerAccept, Sent, WorkerReport
<1>3. InLoop /\ InLoop' /\ ReportDue = 0 /\ ReportDue' = 0
  BY <1>1 DEF InLoop, ReportDue
<1>4. OwedFences' = OwedFences /\ CachedFences' = CachedFences /\ TakenFence' = TakenFence
  BY <1>1 DEF OwedFences, CachedFences, TakenFence
<1>5. UnclaimedFences' = UnclaimedFences
  BY <1>1, <1>4 DEF UnclaimedFences
<1>6. FencesApart'
  BY <1>1, <1>3, <1>4 DEF FencesApart, BacklogInv
<1>7. /\ Len(events) \in Nat /\ Due \in Nat
      /\ Due = ReportDue + 2 * (frames_admitted - Sent) + Cardinality(OwedFences) + 3
  BY <1>3, PaymentTypes DEF Inv, ShutdownInv
<1>8. Due' = Due
  BY <1>1, <1>2, <1>3, <1>4, <1>7 DEF Due
<1>9. Len(events') + Due' <= Len(events) + Due
  BY <1>1, <1>7, <1>8
<1> QED
  BY <1>1, <1>3, <1>5, <1>6, <1>7, <1>8, <1>9, LoopPays

\* A frame that ends has paid for its result and the report after it.
LEMMA FinishPays ==
  ASSUME Inv, ShutdownInv, BacklogInv, FinishFrame
  PROVE  BacklogInv'
<1>1. /\ worker_pc = "serve" /\ worker_pc' = "progress" /\ taken.kind = "SubmitFrame"
      /\ taken' = NoCommand /\ Sent' = taken.frame
      /\ Send([kind |-> "Submission", frame |-> taken.frame])
      /\ UNCHANGED <<commands, cached_fences, frames_admitted,
                     outstanding_frames, outstanding_fences>>
  <2>1. worker_report \in WorkerReport
    BY DEF Inv, TypeOK
  <2> QED
    BY <2>1 DEF FinishFrame, Serving, handleVars, historyVars, Sent, WorkerReport
<1>2. InLoop /\ InLoop' /\ ReportDue = 0 /\ ReportDue' = 1
  BY <1>1 DEF InLoop, ReportDue
<1>3. taken.frame = Sent + 1 /\ taken.frame <= frames_admitted
  <2>1. taken # NoCommand /\ InService /\ IsFrame(taken)
    BY <1>1 DEF NoCommand, InService, IsFrame
  <2>2. taken.frame = Sent + 1
    BY <2>1 DEF Inv, CommandChain, FrameCount, Step
  <2>3. Run(commands, taken.frame) /\ LastCount(commands, taken.frame) = frames_admitted
    BY <1>1, <2>1 DEF Inv, CommandChain, Taken
  <2>4. commands \in Seq(Message) /\ taken.frame \in Nat
    BY <1>1, QueueTypes, BoundAssumption DEF Inv, FrameCommand
  <2> QED
    BY <2>2, <2>3, <2>4, RunEnd
<1>4. TakenFence = {} /\ TakenFence' = {}
  BY <1>1 DEF TakenFence, NamesFence, NoCommand
<1>5. OwedFences' = OwedFences /\ CachedFences' = CachedFences
  BY <1>1, <1>4 DEF OwedFences, CachedFences
<1>6. Len(events') \in Nat /\ Len(events') <= Len(events) + 1
  BY <1>1, SendLength DEF Inv
<1>7. FencesIn(events') = FencesIn(events) /\ (EachFenceOnce(events) => EachFenceOnce(events'))
  BY <1>1, SendNamesNothing DEF Inv, NamesFence
<1>8. UnclaimedFences' = UnclaimedFences
  BY <1>5, <1>7 DEF UnclaimedFences
<1>9. FencesApart'
  BY <1>1, <1>2, <1>4, <1>5, <1>7 DEF FencesApart, BacklogInv
<1>10. /\ Len(events) \in Nat /\ Due \in Nat
       /\ frames_admitted \in Nat /\ Sent \in Nat
       /\ Cardinality(OwedFences) \in Nat
       /\ Due = 2 * (frames_admitted - Sent) + Cardinality(OwedFences) + 3
  BY <1>2, PaymentTypes DEF Inv, ShutdownInv
<1>11. Due' = 1 + 2 * (frames_admitted - (Sent + 1)) + Cardinality(OwedFences) + 3
  BY <1>1, <1>2, <1>3, <1>5 DEF Due
<1>12. Due' \in Nat /\ Len(events') + Due' <= Len(events) + Due
  BY <1>3, <1>6, <1>10, <1>11
<1> QED
  BY <1>1, <1>2, <1>6, <1>8, <1>9, <1>12, LoopPays

\* An answer is the one its fence paid for, and the fence is answered once.
LEMMA AnswerPays ==
  ASSUME Inv, ShutdownInv, BacklogInv, AnswerFence
  PROVE  BacklogInv'
<1> DEFINE answer == CompletedResult(taken.fence, worker_report.last_completed_frame)
           event == [kind |-> "Fence", result |-> answer]
           id == taken.fence.id
           S == RenderWorkerEvent \cup {event}
<1>1. /\ worker_pc = "serve" /\ worker_pc' = "recv" /\ taken.kind = "InsertFence"
      /\ taken' = NoCommand /\ Send(event)
      /\ UNCHANGED <<commands, worker_report, cached_fences, frames_admitted,
                     outstanding_frames, outstanding_fences>>
  BY DEF AnswerFence, Serving, handleVars, historyVars
<1>2. InLoop /\ InLoop' /\ ReportDue = 0 /\ ReportDue' = 0 /\ Sent' = Sent
  BY <1>1 DEF InLoop, ReportDue, Sent
<1>3. NamesFence(event) /\ NamedFence(event) = id
  BY DEF NamesFence, NamedFence, CompletedResult
<1>4. TakenFence = {id} /\ TakenFence' = {}
  BY <1>1 DEF TakenFence, NamesFence, NamedFence, NoCommand
<1>5. FencesApart
  BY <1>2 DEF BacklogInv
<1>6. /\ id \in OwedFences /\ id \notin FencesIn(commands)
      /\ id \notin FencesIn(events) /\ id \notin CachedFences
  BY <1>4, <1>5 DEF FencesApart, OwedFences
<1>7. OwedFences' = OwedFences \ {id} /\ CachedFences' = CachedFences
  BY <1>1, <1>4, <1>6 DEF OwedFences, CachedFences
<1>8. IsFiniteSet(OwedFences)
  BY FencesKnown DEF Inv, ShutdownInv
<1>9. Cardinality(OwedFences') = Cardinality(OwedFences) - 1
  BY <1>6, <1>7, <1>8, FS_RemoveElement
<1>10. /\ Len(events) \in Nat /\ Due \in Nat
       /\ frames_admitted \in Nat /\ Sent \in Nat /\ Sent <= frames_admitted
       /\ Cardinality(OwedFences) \in Nat
       /\ Due = 2 * (frames_admitted - Sent) + Cardinality(OwedFences) + 3
  BY <1>2, PaymentTypes DEF Inv, ShutdownInv
<1>11. Due' = 2 * (frames_admitted - Sent) + (Cardinality(OwedFences) - 1) + 3
  BY <1>1, <1>2, <1>9, <1>10 DEF Due
<1>12. Cardinality(OwedFences) # 0
  BY <1>6, <1>8, FS_EmptySet
<1>13. events \in Seq(S) /\ event \in S
  BY ShutdownTypes, SeqMonotonic DEF Inv
<1>14. /\ FencesIn(Append(events, event)) = FencesIn(events) \cup {id}
       /\ EachFenceOnce(Append(events, event))
       /\ Len(Append(events, event)) = Len(events) + 1
  <2> HIDE DEF S, event
  <2> QED
    BY <1>3, <1>5, <1>6, <1>13, FencesAppend, AppendProperties DEF FencesApart
<1> HIDE DEF S, event, id
<1>15. CASE call_pc # "dropped"
  <2>1. events' = Append(events, event)
    BY <1>1, <1>15 DEF Send
  <2>2. UnclaimedFences' = UnclaimedFences
    BY <1>6, <1>7, <1>14, <2>1 DEF UnclaimedFences
  <2>3. FencesApart'
    BY <1>1, <1>4, <1>5, <1>6, <1>7, <1>14, <2>1 DEF FencesApart
  <2>4. Len(events') \in Nat /\ Due' \in Nat /\ Len(events') + Due' <= Len(events) + Due
    BY <1>10, <1>11, <1>12, <1>14, <2>1
  <2> QED
    BY <1>1, <1>2, <2>2, <2>3, <2>4, LoopPays
<1>16. CASE call_pc = "dropped"
  <2>1. events' = events
    BY <1>1, <1>16 DEF Send
  <2>2. UnclaimedFences' \subseteq UnclaimedFences
    BY <1>7, <2>1 DEF UnclaimedFences
  <2>3. /\ IsFiniteSet(UnclaimedFences) /\ Cardinality(UnclaimedFences) \in Nat
        /\ Cardinality(UnclaimedFences) <= outstanding_fences
        /\ outstanding_fences \in Nat /\ outstanding_frames \in Nat
    BY <1>2, FencesKnown, PaymentTypes DEF Inv, ShutdownInv, BacklogInv, FencesPaid
  <2>4. Cardinality(UnclaimedFences') \in Nat
        /\ Cardinality(UnclaimedFences') <= outstanding_fences
    BY <2>2, <2>3, FS_Subset, FS_CardinalityType
  <2>5. FencesApart'
    BY <1>1, <1>4, <1>5, <1>6, <1>7, <2>1 DEF FencesApart
  <2>6. Len(events') + Due' <= Len(events) + Due /\ Due' \in Nat
    BY <1>10, <1>11, <1>12, <2>1
  <2>7. EventsPaid'
    BY <1>1, <1>10, <2>1, <2>3, <2>6 DEF EventsPaid, BacklogInv
  <2> QED
    BY <1>1, <2>4, <2>5, <2>7 DEF BacklogInv, FencesPaid
<1> QED
  BY <1>15, <1>16

\* Every step of the worker.
LEMMA WorkerPays ==
  ASSUME Inv, ShutdownInv, BacklogInv, WorkerStep \/ PanicInFrame
  PROVE  BacklogInv'
BY LeavingPays, ReportPays, RecvPays, AcceptPays, FinishPays, AnswerPays DEF WorkerStep

\* The frames without a result hold a slot each.
LEMMA FramesPaid == Inv => frames_admitted - Sent <= outstanding_frames
<1> SUFFICES ASSUME Inv PROVE frames_admitted - Sent <= outstanding_frames
  OBVIOUS
<1>1. /\ frames_admitted \in Nat /\ Sent \in Nat /\ Completed \in Nat
      /\ Sent <= frames_admitted
      /\ events \in Seq(Message)
  BY QueueTypes DEF Inv, WorkerControl
<1>2. Completed <= Sent
  <2>1. LastCount(events, Completed) \in Nat /\ Completed <= LastCount(events, Completed)
    BY <1>1, RunEnd DEF Inv, EventChain
  <2> QED
    BY <1>1, <2>1 DEF Inv, EventChain
<1>3. consumed \subseteq 1 .. Completed
  BY DEF Inv, ResultFacts, Received
<1> DEFINE waiting == (1 .. frames_admitted) \ consumed
<1>4. outstanding_frames = Cardinality(waiting)
  BY DEF Inv, ResultFacts
<1>5. Sent + 1 .. frames_admitted \subseteq waiting
  BY <1>1, <1>2, <1>3
<1>6. IsFiniteSet(waiting)
  <2>1. IsFiniteSet(1 .. frames_admitted)
    BY <1>1, FS_Interval
  <2> QED
    BY <2>1, FS_Subset
<1>7. Cardinality(Sent + 1 .. frames_admitted) <= Cardinality(waiting)
  BY <1>5, <1>6, FS_Subset
<1>8. Cardinality(Sent + 1 .. frames_admitted) = frames_admitted - Sent
  <2>1. Sent + 1 > frames_admitted => frames_admitted - Sent = 0
    BY <1>1
  <2>2. Sent + 1 \in Int /\ frames_admitted \in Int
    BY <1>1
  <2>3. Cardinality(Sent + 1 .. frames_admitted) =
          IF Sent + 1 > frames_admitted THEN 0 ELSE frames_admitted - (Sent + 1) + 1
    BY <2>2, FS_Interval
  <2> QED
    BY <1>1, <2>1, <2>3
<1> QED
  BY <1>4, <1>7, <1>8

\* A frame that is admitted pays for its two events.
LEMMA SubmitPays ==
  ASSUME Inv, ShutdownInv, BacklogInv, SubmitFrame
  PROVE  BacklogInv'
<1>1. /\ UNCHANGED <<events, worker_pc, taken, worker_report, cached_fences,
                     outstanding_fences>>
      /\ InLoop' = InLoop /\ ReportDue' = ReportDue /\ Sent' = Sent
  BY DEF SubmitFrame, workerVars, InLoop, ReportDue, Sent
<1>2. CASE UNCHANGED <<commands, frames_admitted, outstanding_frames>>
  BY <1>1, <1>2, BacklogSame
<1>3. CASE /\ commands' = Append(commands, [kind |-> "SubmitFrame",
                                            frame |-> frames_admitted + 1])
           /\ frames_admitted' = frames_admitted + 1
           /\ outstanding_frames' = outstanding_frames + 1
  <2> DEFINE command == [kind |-> "SubmitFrame", frame |-> frames_admitted + 1]
             S == RenderThreadCommand \cup {command}
  <2>1. commands \in Seq(S)
    BY ShutdownTypes, SeqMonotonic DEF Inv
  <2>2. command \in S /\ ~NamesFence(command)
    BY DEF NamesFence
  <2> HIDE DEF S, command
  <2>3. FencesIn(commands') = FencesIn(commands)
        /\ (EachFenceOnce(commands) => EachFenceOnce(commands'))
    BY <1>3, <2>1, <2>2, FencesAppend DEF command
  <2>4. OwedFences' = OwedFences /\ TakenFence' = TakenFence /\ CachedFences' = CachedFences
    BY <1>1, <2>3 DEF OwedFences, TakenFence, CachedFences
  <2>5. UnclaimedFences' = UnclaimedFences
    BY <1>1, <2>4 DEF UnclaimedFences
  <2>6. (InLoop => FencesApart)'
    BY <1>1, <2>3, <2>4 DEF FencesApart, BacklogInv
  <2>7. /\ Len(events) \in Nat /\ Due \in Nat
        /\ frames_admitted \in Nat /\ Sent \in Nat /\ ReportDue \in 0 .. 1
        /\ outstanding_frames \in Nat /\ outstanding_fences \in Nat
        /\ Cardinality(OwedFences) \in Nat
        /\ InLoop => Due = ReportDue + 2 * (frames_admitted - Sent)
                             + Cardinality(OwedFences) + 3
    BY PaymentTypes DEF Inv, ShutdownInv
  <2>8. CASE InLoop
    <3>1. Due' = ReportDue + 2 * (frames_admitted + 1 - Sent) + Cardinality(OwedFences) + 3
      BY <1>1, <1>3, <2>4, <2>7, <2>8 DEF Due
    <3>2. Due' = Due + 2
      BY <2>7, <2>8, <3>1
    <3>3. EventsPaid'
      BY <1>1, <1>3, <2>7, <3>2 DEF BacklogInv, EventsPaid
    <3>4. FencesPaid'
      BY <1>1, <2>5 DEF BacklogInv, FencesPaid
    <3> QED
      BY <2>6, <3>3, <3>4 DEF BacklogInv
  <2>9. CASE ~InLoop
    <3>1. Due' = Due
      BY <1>1, <2>9 DEF Due
    <3> QED
      BY <1>1, <1>3, <2>5, <2>6, <2>7, <2>9, <3>1 DEF BacklogInv, FencesPaid, EventsPaid
  <2> QED
    BY <2>8, <2>9
<1> QED
  BY <1>2, <1>3 DEF SubmitFrame

\* A fence that is admitted pays for its answer.
LEMMA InsertPays ==
  ASSUME Inv, ShutdownInv, BacklogInv, InsertFence
  PROVE  BacklogInv'
<1>1. /\ UNCHANGED <<events, worker_pc, taken, worker_report, cached_fences,
                     outstanding_frames, frames_admitted>>
      /\ InLoop' = InLoop /\ ReportDue' = ReportDue /\ Sent' = Sent
  BY DEF InsertFence, FenceCall, workerVars, InLoop, ReportDue, Sent
<1>2. PICK depth \in SyncDepth, target \in FenceTargets : InsertFenceOf(depth, target)
  BY DEF InsertFence
<1> DEFINE fence == [id |-> fences_created + 1, depth |-> depth,
                     target |-> target, mark |-> frames_admitted]
           command == [kind |-> "InsertFence", fence |-> fence]
           id == fences_created + 1
           S == RenderThreadCommand \cup {command}
<1>3. \/ UNCHANGED <<commands, outstanding_fences>>
      \/ /\ commands' = Append(commands, command)
         /\ outstanding_fences' = outstanding_fences + 1
  BY <1>2 DEF InsertFenceOf
<1>4. CASE UNCHANGED <<commands, outstanding_fences>>
  BY <1>1, <1>4, BacklogSame
<1>5. CASE /\ commands' = Append(commands, command)
           /\ outstanding_fences' = outstanding_fences + 1
  <2>1. commands \in Seq(S) /\ command \in S
    BY ShutdownTypes, SeqMonotonic DEF Inv
  <2>2. NamesFence(command) /\ NamedFence(command) = id
    BY DEF NamesFence, NamedFence
  <2>3. id \notin UnclaimedFences /\ IsFiniteSet(UnclaimedFences) /\ IsFiniteSet(OwedFences)
    BY FencesKnown DEF Inv, ShutdownInv
  <2>4. /\ id \notin OwedFences /\ id \notin FencesIn(commands) /\ id \notin TakenFence
        /\ id \notin FencesIn(events) /\ id \notin CachedFences
    BY <2>3 DEF UnclaimedFences, OwedFences
  <2> HIDE DEF S, command, id
  <2>5. FencesIn(commands') = FencesIn(commands) \cup {id}
        /\ (EachFenceOnce(commands) => EachFenceOnce(commands'))
    BY <1>5, <2>1, <2>2, <2>4, FencesAppend
  <2>6. /\ OwedFences' = OwedFences \cup {id}
        /\ TakenFence' = TakenFence /\ CachedFences' = CachedFences
    BY <1>1, <2>5 DEF OwedFences, TakenFence, CachedFences
  <2>7. UnclaimedFences' = UnclaimedFences \cup {id}
    BY <1>1, <2>6 DEF UnclaimedFences
  <2>8. (InLoop => FencesApart)'
    BY <1>1, <2>4, <2>5, <2>6 DEF FencesApart, BacklogInv
  <2>9. /\ Cardinality(OwedFences') = Cardinality(OwedFences) + 1
        /\ Cardinality(UnclaimedFences') = Cardinality(UnclaimedFences) + 1
    BY <2>3, <2>4, <2>6, <2>7, FS_AddElement
  <2>10. /\ Len(events) \in Nat /\ Due \in Nat
         /\ frames_admitted \in Nat /\ Sent \in Nat /\ ReportDue \in 0 .. 1
         /\ outstanding_frames \in Nat /\ outstanding_fences \in Nat
         /\ Cardinality(OwedFences) \in Nat
         /\ InLoop => Due = ReportDue + 2 * (frames_admitted - Sent)
                              + Cardinality(OwedFences) + 3
    BY PaymentTypes DEF Inv, ShutdownInv
  <2>11. Cardinality(UnclaimedFences) \in Nat
    BY FencesKnown DEF Inv, ShutdownInv
  <2>12. FencesPaid'
    BY <1>1, <1>5, <2>9, <2>10, <2>11 DEF BacklogInv, FencesPaid
  <2>13. Due' <= Due + 1 /\ Due' \in Nat
    <3>1. CASE InLoop
      <4>1. Due' = ReportDue + 2 * (frames_admitted - Sent)
                     + (Cardinality(OwedFences) + 1) + 3
        BY <1>1, <2>9, <2>10, <3>1 DEF Due
      <4> QED
        BY <2>10, <3>1, <4>1
    <3>2. CASE ~InLoop
      <4>1. Due' = Due
        BY <1>1, <3>2 DEF Due
      <4> QED
        BY <2>10, <4>1
    <3> QED
      BY <3>1, <3>2
  <2>14. EventsPaid'
    BY <1>1, <1>5, <2>10, <2>13 DEF EventsPaid, BacklogInv
  <2> QED
    BY <2>8, <2>12, <2>14 DEF BacklogInv
<1> QED
  BY <1>3, <1>4, <1>5

\* A shutdown's three events are always paid for.
LEMMA ShutdownPays ==
  ASSUME Inv, ShutdownInv, BacklogInv, Shutdown \/ DropHandle
  PROVE  BacklogInv'
<1>1. /\ UNCHANGED <<events, worker_pc, taken, worker_report, cached_fences,
                     outstanding_frames, outstanding_fences, frames_admitted>>
      /\ InLoop' = InLoop /\ ReportDue' = ReportDue /\ Sent' = Sent
  BY DEF Shutdown, DropHandle, SendShutdown, sharedVars, workerVars, handleVars,
         historyVars, InLoop, ReportDue, Sent
<1>2. CASE UNCHANGED commands
  BY <1>1, <1>2, BacklogSame
<1>3. ASSUME NEW fence,
             commands' = Append(commands, [kind |-> "Shutdown", fence |-> fence])
      PROVE  BacklogInv'
  <2> DEFINE command == [kind |-> "Shutdown", fence |-> fence]
             S == RenderThreadCommand \cup {command}
  <2>1. commands \in Seq(S)
    BY ShutdownTypes, SeqMonotonic DEF Inv
  <2>2. command \in S /\ ~NamesFence(command)
    BY DEF NamesFence
  <2> HIDE DEF S, command
  <2>3. FencesIn(commands') = FencesIn(commands)
        /\ (EachFenceOnce(commands) => EachFenceOnce(commands'))
    BY <1>3, <2>1, <2>2, FencesAppend DEF command
  <2>4. OwedFences' = OwedFences /\ TakenFence' = TakenFence /\ CachedFences' = CachedFences
    BY <1>1, <2>3 DEF OwedFences, TakenFence, CachedFences
  <2>5. UnclaimedFences' = UnclaimedFences
    BY <1>1, <2>4 DEF UnclaimedFences
  <2>6. (InLoop => FencesApart)'
    BY <1>1, <2>3, <2>4 DEF FencesApart, BacklogInv
  <2>7. Due' = Due
    BY <1>1, <2>4 DEF Due
  <2> QED
    BY <1>1, <2>5, <2>6, <2>7 DEF BacklogInv, FencesPaid, EventsPaid
<1>4. \/ UNCHANGED commands
      \/ \E fence : commands' = Append(commands, [kind |-> "Shutdown", fence |-> fence])
  BY DEF Shutdown, DropHandle, SendShutdown, sharedVars
<1> QED
  BY <1>2, <1>3, <1>4

\* An event that the handle takes leaves the channel; its answer is cached.
LEMMA HandlingPays ==
  ASSUME Inv, ShutdownInv, BacklogInv, events # << >>, HandleEvent
  PROVE  BacklogInv'
<1> DEFINE event == Head(events)
<1>1. /\ events' = Tail(events)
      /\ UNCHANGED <<commands, worker_pc, taken, worker_report, outstanding_frames,
                     outstanding_fences, frames_admitted>>
      /\ InLoop' = InLoop /\ ReportDue' = ReportDue /\ Sent' = Sent
  BY DEF HandleEvent, workerVars, historyVars, InLoop, ReportDue, Sent
<1>2. OwedFences' = OwedFences /\ TakenFence' = TakenFence
  BY <1>1 DEF OwedFences, TakenFence
<1>3. Due' = Due
  BY <1>1, <1>2 DEF Due
<1>4. /\ events \in Seq(RenderWorkerEvent) /\ Len(events) \in Nat
      /\ outstanding_frames \in Nat /\ outstanding_fences \in Nat /\ Due \in Nat
  BY ShutdownTypes, PaymentTypes DEF Inv, ShutdownInv
<1>5. Len(events') = Len(events) - 1 /\ Len(events) # 0 /\ event \in RenderWorkerEvent
  BY <1>1, <1>4, HeadTailProperties, EmptySeq
<1>6. EventsPaid'
  BY <1>1, <1>3, <1>4, <1>5 DEF EventsPaid, BacklogInv
<1>7. CASE InLoop
  <2>1. FencesApart /\ Cardinality(UnclaimedFences) <= outstanding_fences
    BY <1>7 DEF BacklogInv, FencesPaid
  <2> DEFINE gone == IF NamesFence(event) THEN {NamedFence(event)} ELSE {}
  <2>2. FencesIn(events') = FencesIn(events) \ gone /\ EachFenceOnce(events')
        /\ gone \subseteq FencesIn(events)
    BY <1>1, <1>4, <2>1, FencesTail DEF FencesApart
  <2>3. CASE event.kind = "Fence"
    <3>1. cached_fences' = cached_fences \cup {event.result}
      BY <2>3 DEF HandleEvent
    <3>2. gone = {event.result.id}
      BY <2>3 DEF NamesFence, NamedFence
    <3> HIDE DEF event, gone
    <3>3. CachedFences' = CachedFences \cup gone
      BY <3>1, <3>2 DEF CachedFences
    <3>4. UnclaimedFences' = UnclaimedFences
      BY <1>2, <2>2, <3>3 DEF UnclaimedFences
    <3>5. event.result.id \notin CachedFences
      BY <2>1, <2>2, <3>2 DEF FencesApart
    <3>6. \A result, other \in cached_fences' : result.id = other.id => result = other
      BY <2>1, <3>1, <3>5 DEF FencesApart, CachedFences
    <3>7. FencesApart'
      BY <1>1, <1>2, <2>1, <2>2, <3>3, <3>6 DEF FencesApart
    <3> QED
      BY <1>1, <1>6, <2>1, <3>4, <3>7 DEF BacklogInv, FencesPaid
  <2>4. CASE event.kind # "Fence"
    <3>1. cached_fences' = cached_fences
      BY <2>4 DEF HandleEvent
    <3>2. gone = {}
      BY <1>5, <2>4 DEF NamesFence, RenderWorkerEvent
    <3> HIDE DEF event, gone
    <3>3. CachedFences' = CachedFences
      BY <3>1 DEF CachedFences
    <3>4. UnclaimedFences' = UnclaimedFences
      BY <1>2, <2>2, <3>2, <3>3 DEF UnclaimedFences
    <3>5. FencesApart'
      BY <1>1, <1>2, <2>1, <2>2, <3>1, <3>2, <3>3 DEF FencesApart
    <3> QED
      BY <1>1, <1>6, <2>1, <3>4, <3>5 DEF BacklogInv, FencesPaid
  <2> QED
    BY <2>3, <2>4
<1>8. CASE ~InLoop
  BY <1>1, <1>6, <1>8 DEF BacklogInv, FencesPaid
<1> QED
  BY <1>7, <1>8

\* With the channel drained, what is owed alone has to be paid for.
LEMMA DrainedPays ==
  ASSUME Inv, ShutdownInv, events = << >>,
         NEW frames \in Nat, frames_admitted - Sent <= frames,
         NEW fences \in Nat, InLoop => Cardinality(OwedFences) <= fences
  PROVE  Len(events) + Due <= 1 + 2 * frames + fences + 3
<1>1. /\ ReportDue \in 0 .. 1 /\ frames_admitted \in Nat /\ Sent \in Nat
      /\ Cardinality(OwedFences) \in Nat
      /\ InLoop => Due = ReportDue + 2 * (frames_admitted - Sent)
                           + Cardinality(OwedFences) + 3
  BY PaymentTypes DEF Inv, ShutdownInv
<1>2. Len(events) = 0
  OBVIOUS
<1>3. CASE InLoop
  BY <1>1, <1>2, <1>3
<1>4. CASE ~InLoop
  <2>1. Due \in 0 .. 2
    BY <1>4 DEF Due
  <2> QED
    BY <1>2, <2>1
<1> QED
  BY <1>3, <1>4

\* A result is taken from a drained channel, and its slot with it.
LEMMA PollPays ==
  ASSUME Inv, Inv', ShutdownInv, BacklogInv, ReturnPoll
  PROVE  BacklogInv'
<1>1. /\ events = << >> /\ events' = events
      /\ UNCHANGED <<commands, worker_pc, taken, worker_report, cached_fences,
                     outstanding_fences, frames_admitted>>
      /\ InLoop' = InLoop /\ ReportDue' = ReportDue /\ Sent' = Sent
  BY DEF ReturnPoll, Drained, workerVars, InLoop, ReportDue, Sent
<1>2. /\ OwedFences' = OwedFences /\ TakenFence' = TakenFence
      /\ CachedFences' = CachedFences
  BY <1>1 DEF OwedFences, TakenFence, CachedFences
<1>3. UnclaimedFences' = UnclaimedFences /\ Due' = Due
  BY <1>1, <1>2 DEF UnclaimedFences, Due
<1>4. (InLoop => FencesApart)' /\ FencesPaid'
  BY <1>1, <1>2, <1>3 DEF BacklogInv, FencesApart, FencesPaid
<1>5. (Inv => frames_admitted - Sent <= outstanding_frames)'
  BY FramesPaid, PTL
<1>6. frames_admitted - Sent <= outstanding_frames'
  BY <1>1, <1>5
<1>7. outstanding_frames' \in Nat /\ outstanding_fences \in Nat
  BY LimitAssumption DEF Inv, TypeOK
<1>8. InLoop => Cardinality(OwedFences) <= outstanding_fences
  <2>1. /\ Cardinality(UnclaimedFences) \in Nat /\ Cardinality(OwedFences) \in Nat
        /\ Cardinality(OwedFences) <= Cardinality(UnclaimedFences)
    BY FencesKnown DEF Inv, ShutdownInv
  <2> QED
    BY <1>7, <2>1 DEF BacklogInv, FencesPaid
<1>9. Len(events) + Due <= 1 + 2 * outstanding_frames' + outstanding_fences + 3
  BY <1>1, <1>6, <1>7, <1>8, DrainedPays
<1> QED
  BY <1>1, <1>3, <1>4, <1>9 DEF BacklogInv, EventsPaid

\* An answer is taken from a drained channel, and its slot with it.
LEMMA AnsweredPays ==
  ASSUME Inv, ShutdownInv, BacklogInv, WaitAnswered
  PROVE  BacklogInv'
<1>1. /\ events = << >> /\ events' = events
      /\ UNCHANGED <<commands, worker_pc, taken, worker_report,
                     outstanding_frames, frames_admitted>>
      /\ InLoop' = InLoop /\ ReportDue' = ReportDue /\ Sent' = Sent
  BY DEF WaitAnswered, Drained, workerVars, historyVars, InLoop, ReportDue, Sent
<1>2. PICK result \in cached_fences : cached_fences' = cached_fences \ {result}
  BY DEF WaitAnswered, Answers
<1>3. outstanding_fences' = IF outstanding_fences = 0 THEN 0 ELSE outstanding_fences - 1
  BY DEF WaitAnswered
<1>4. OwedFences' = OwedFences /\ TakenFence' = TakenFence
  BY <1>1 DEF OwedFences, TakenFence
<1>5. Due' = Due
  BY <1>1, <1>4 DEF Due
<1>6. frames_admitted - Sent <= outstanding_frames
  BY FramesPaid
<1>7. outstanding_frames \in Nat /\ outstanding_fences \in Nat /\ outstanding_fences' \in Nat
  BY <1>3, LimitAssumption DEF Inv, TypeOK
<1>8. CASE InLoop
  <2>1. FencesApart /\ Cardinality(UnclaimedFences) <= outstanding_fences
    BY <1>8 DEF BacklogInv, FencesPaid
  <2>2. CachedFences' = CachedFences \ {result.id} /\ result.id \in CachedFences
    BY <1>2, <2>1 DEF CachedFences, FencesApart
  <2>3. result.id \notin OwedFences /\ result.id \notin FencesIn(events)
    BY <2>1, <2>2 DEF FencesApart
  <2>4. /\ UnclaimedFences' = UnclaimedFences \ {result.id}
        /\ result.id \in UnclaimedFences
        /\ OwedFences \subseteq UnclaimedFences \ {result.id}
    BY <1>1, <1>4, <2>2, <2>3 DEF UnclaimedFences
  <2>5. IsFiniteSet(UnclaimedFences) /\ Cardinality(UnclaimedFences) \in Nat
        /\ Cardinality(OwedFences) \in Nat
    BY FencesKnown DEF Inv, ShutdownInv
  <2>6. Cardinality(UnclaimedFences') = Cardinality(UnclaimedFences) - 1
        /\ IsFiniteSet(UnclaimedFences')
    BY <2>4, <2>5, FS_RemoveElement
  <2>7. Cardinality(UnclaimedFences) # 0
    BY <2>4, <2>5, FS_EmptySet
  <2>8. Cardinality(UnclaimedFences') <= outstanding_fences'
    BY <1>3, <1>7, <2>1, <2>5, <2>6, <2>7
  <2>9. Cardinality(OwedFences) <= Cardinality(UnclaimedFences')
    BY <2>4, <2>6, FS_Subset
  <2>10. Cardinality(OwedFences) <= outstanding_fences'
    BY <1>7, <2>5, <2>6, <2>7, <2>8, <2>9
  <2>11. Len(events) + Due <= 1 + 2 * outstanding_frames + outstanding_fences' + 3
    BY <1>1, <1>6, <1>7, <2>10, DrainedPays
  <2>12. FencesApart'
    BY <1>1, <1>2, <1>4, <2>1, <2>2 DEF FencesApart
  <2> QED
    BY <1>1, <1>5, <2>8, <2>11, <2>12 DEF BacklogInv, FencesPaid, EventsPaid
<1>9. CASE ~InLoop
  <2>1. Len(events) + Due <= 1 + 2 * outstanding_frames + outstanding_fences' + 3
    BY <1>1, <1>6, <1>7, <1>9, DrainedPays
  <2> QED
    BY <1>1, <1>5, <1>9, <2>1 DEF BacklogInv, FencesPaid, EventsPaid
<1> QED
  BY <1>8, <1>9

\* Every step keeps the third invariant.
LEMMA NextPays == Inv /\ Inv' /\ ShutdownInv /\ BacklogInv /\ [Next]_vars => BacklogInv'
<1> SUFFICES ASSUME Inv, Inv', ShutdownInv, BacklogInv, [Next]_vars
             PROVE  BacklogInv'
  OBVIOUS
<1>1. CASE WorkerStep \/ PanicInFrame
  BY <1>1, WorkerPays
<1>2. CASE SubmitFrame \/ InsertFence \/ Shutdown \/ DropHandle
  BY <1>2, SubmitPays, InsertPays, ShutdownPays
<1>3. CASE DrainEvent \/ RecvEvent
  BY <1>3, HandlingPays DEF DrainEvent, RecvEvent
<1>4. CASE ReturnPoll \/ WaitAnswered
  BY <1>4, PollPays, AnsweredPays
<1>5. CASE \/ PollSubmission \/ WaitFence \/ LatestReport \/ ReturnReport
           \/ WaitTimeout \/ WaitMore \/ RecvNothing \/ RecvDisconnected
           \/ ShutdownRefused \/ CloseAdmission \/ JoinThread \/ DropFields
           \/ Released \/ UNCHANGED vars
  <2>1. UNCHANGED <<commands, events, worker_pc, taken, worker_report, cached_fences,
                    outstanding_frames, outstanding_fences, frames_admitted>>
    BY <1>5 DEF PollSubmission, WaitFence, LatestReport, ReturnReport, WaitTimeout,
         WaitMore, RecvNothing, RecvDisconnected, ShutdownRefused, CloseAdmission,
         JoinThread, DropFields, Released, vars, sharedVars, workerVars, handleVars,
         historyVars
  <2> QED
    BY <2>1, BacklogSame
<1> QED
  BY <1>1, <1>2, <1>3, <1>4, <1>5 DEF Next, CallStep, NewCall

\* For every instance: what the worker may still send was paid for by an
\* admission that the handle still counts.
THEOREM BacklogInvAlways == Spec => []BacklogInv
<1>1. Init => BacklogInv
  BY InitBacklog
<1>2. Inv /\ Inv' /\ ShutdownInv /\ BacklogInv /\ [Next]_vars => BacklogInv'
  BY NextPays
<1> QED
  BY <1>1, <1>2, InvAlways, ShutdownInvAlways, PTL DEF Spec

\* The event channel, unbounded in the code, never holds more than two events
\* for each frame slot, one for each fence slot, and four.
THEOREM BacklogAlwaysBounded == Spec => []EventBacklogBounded
<1>1. Inv /\ ShutdownInv /\ BacklogInv => EventBacklogBounded
  <2> SUFFICES ASSUME Inv, ShutdownInv, BacklogInv PROVE EventBacklogBounded
    OBVIOUS
  <2>1. Len(events) \in Nat /\ Due \in Nat
    BY PaymentTypes DEF Inv, ShutdownInv
  <2>2. /\ outstanding_frames \in 0 .. FrameLimit
        /\ outstanding_fences \in 0 .. FenceLimit
    BY DEF Inv, TypeOK
  <2> QED
    BY <2>1, <2>2, LimitAssumption DEF BacklogInv, EventsPaid, EventBacklogBounded
<1> QED
  BY <1>1, InvAlways, ShutdownInvAlways, BacklogInvAlways, PTL
=============================================================================

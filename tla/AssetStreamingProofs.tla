------------------------ MODULE AssetStreamingProofs ------------------------
(***************************************************************************)
(* For any assets, closures, budgets and number of tickets: reference      *)
(* counts are exact, all work is charged once and within the budget, and   *)
(* the loader implements SharedAssets.  Two invariants carry this, each    *)
(* inductive.  Handled: a handle that waits is in pending and has no       *)
(* reference yet, and only what is live has handles.  Worked: the id of an *)
(* operation is in one place of the pipeline, and is charged there under   *)
(* its key or as retired; a thread that has ended holds nothing.           *)
(***************************************************************************)
EXTENDS AssetStreaming, TLAPS, FiniteSetTheorems

-----------------------------------------------------------------------------
(* The inductive invariant *)

HandlesOK ==
  /\ \A t \in Ticket : t > issued => state[t] = "None"
  /\ \A t \in Ticket : t \notin Live => keys[t] = {}
  /\ \A t \in Ticket : pending[t] \subseteq keys[t]
  /\ \A t \in Ticket : state[t] = "Ready" => pending[t] = {}
  /\ \A k \in Key : \A t \in consumers[k] : k \in pending[t]
  /\ failing \subseteq Loading

Counted == \A k \in Key : refs[k] = Cardinality(Holders(Ticket, k))

\* Ids name operations.
IdsOK ==
  /\ retired \subseteq 1 .. lastOperation
  /\ \A k \in Current : operations[k] \in (1 .. lastOperation) \ retired
  /\ \A k, l \in Current : operations[k] = operations[l] => k = l

\* One piece of work w is charged to its own operation.
WorkOK(w) == w.id \in retired \/ (w.id # 0 /\ operations[w.key] = w.id)

PipelineOK ==
  /\ InPipeline \subseteq 1 .. lastOperation
  /\ OnceEach
  /\ ~dropped => /\ \A w \in queued : WorkOK(w)
                 /\ InHand # {} => WorkOK(work)
                 /\ \A i \in DOMAIN completed : WorkOK(completed[i])
  /\ thread \in {"Waiting", "Decoding", "Sending", "Handing"} /\ ~dropped => Charged \subseteq InPipeline

ThreadOK ==
  /\ thread = "None" => ~worker /\ Charged = {} /\ queued = {} /\ completed = <<>>
  /\ ~worker /\ ~dropped => thread \in {"None", "Finished"}
  /\ ~worker /\ ~stopped /\ ~dropped => thread = "None"
  /\ ~jobsOpen => queued = {}
  /\ thread = "Finished" => ~jobsOpen
  /\ dropped => ~worker
  /\ closing => stopped

WithinBudget == IsFiniteSet(Charged) /\ Cardinality(Charged) <= limit

Handled == TypeOK /\ HandlesOK /\ Counted
Worked == TypeOK /\ IdsOK /\ PipelineOK /\ ThreadOK /\ WithinBudget

-----------------------------------------------------------------------------
(* Finite sets and the numbering of new operations *)

LEMMA KeyFinite == IsFiniteSet(Key)
<1>1. IsFiniteSet(0 .. MaxTrouble)
  BY FS_Interval, StreamingAssumption
<1> QED
  BY <1>1, FS_Product, StreamingAssumption DEF Key

LEMMA TicketsFinite ==
  ASSUME NEW S \in SUBSET Ticket
  PROVE  IsFiniteSet(S) /\ Cardinality(S) \in Nat
<1>1. IsFiniteSet(Ticket)
  BY FS_Interval, StreamingAssumption DEF Ticket
<1> QED
  BY <1>1, FS_Subset, FS_CardinalityType

LEMMA RangeAfter ==
  ASSUME NEW m \in Nat, NEW n \in Nat
  PROVE  IsFiniteSet(m + 1 .. m + n) /\ Cardinality(m + 1 .. m + n) = n
<1>1. m + 1 \in Int /\ m + n \in Int
  OBVIOUS
<1>2. /\ IsFiniteSet(m + 1 .. m + n)
      /\ Cardinality(m + 1 .. m + n) = IF m + 1 > m + n THEN 0 ELSE (m + n) - (m + 1) + 1
  BY <1>1, FS_Interval
<1>3. m + 1 > m + n => n = 0
  OBVIOUS
<1> QED
  BY <1>2, <1>3

\* The ids of a request are the next ones, each given to one key.
LEMMA NumberingFresh ==
  ASSUME NEW K \in SUBSET Key, lastOperation \in Nat
  PROVE  /\ IsFiniteSet(K) /\ Cardinality(K) \in Nat
         /\ Numbering(K) \in [K -> lastOperation + 1 .. lastOperation + Cardinality(K)]
         /\ \A k, l \in K : Numbering(K)[k] = Numbering(K)[l] => k = l
<1> DEFINE n == Cardinality(K)
           range == lastOperation + 1 .. lastOperation + n
           Onto(f) == \A i \in range : \E k \in K : f[k] = i
<1>1. IsFiniteSet(K) /\ n \in Nat
  BY KeyFinite, FS_Subset, FS_CardinalityType
<1>2. IsFiniteSet(range) /\ Cardinality(range) = n
  BY <1>1, RangeAfter
<1>3. PICK f \in Bijection(K, range) : TRUE
  BY <1>1, <1>2, FS_SameCardinalityBij DEF ExistsBijection
<1>4. f \in [K -> range] /\ Onto(f)
  BY <1>3 DEF Bijection, Injection, Surjection
<1>5. Numbering(K) \in [K -> range] /\ Onto(Numbering(K))
  <2>1. Numbering(K) = CHOOSE g \in [K -> range] : Onto(g)
    BY DEF Numbering
  <2> HIDE DEF Onto, range
  <2> QED
    BY <1>4, <2>1
<1>6. Numbering(K) \in Surjection(K, range)
  BY <1>5 DEF Surjection
<1>7. Numbering(K) \in Injection(K, range)
  BY <1>1, <1>2, <1>6, FS_SurjSameCardinalityImpliesInj
<1>8. \A k, l \in K : Numbering(K)[k] = Numbering(K)[l] => k = l
  BY <1>5, <1>7 DEF Injection, IsInjective
<1> QED
  BY <1>1, <1>5, <1>8

-----------------------------------------------------------------------------
(* Types *)

LEMMA KeysOfType ==
  ASSUME TypeOK, NEW a \in Asset
  PROVE  KeysOf(a) \subseteq Key
BY StreamingAssumption DEF KeysOf, Key, TypeOK

\* Letting go changes no type.
LEMMA DropHandlesType ==
  ASSUME TypeOK, NEW S \in SUBSET Ticket, DropHandles(S)
  PROVE  /\ keys' \in [Ticket -> SUBSET Key] /\ pending' \in [Ticket -> SUBSET Key]
         /\ failing' \subseteq Ticket /\ refs' \in [Key -> Nat] /\ typed' \subseteq Key
<1>1. \A k \in Key : Cardinality(Holders(S, k)) \in Nat
  BY TicketsFinite DEF Holders
<1>2. refs' \in [Key -> Nat]
  BY <1>1 DEF DropHandles, TypeOK
<1> QED
  BY <1>2 DEF DropHandles, TypeOK

LEMMA LeaveOperationsType ==
  ASSUME TypeOK, NEW S \in SUBSET Ticket, LeaveOperations(S)
  PROVE  /\ operations' \in [Key -> Nat] /\ consumers' \in [Key -> SUBSET Ticket]
         /\ retired' \subseteq Nat
BY DEF LeaveOperations, TypeOK, Abandoned, Current

LEMMA IssueType ==
  ASSUME TypeOK, NEW outcome \in Outcome, NEW K \in SUBSET Key, NEW waits \in SUBSET Key,
         Issue(outcome, K, waits)
  PROVE  /\ state' \in [Ticket -> Outcome] /\ keys' \in [Ticket -> SUBSET Key]
         /\ pending' \in [Ticket -> SUBSET Key] /\ failing' \subseteq Ticket
         /\ issued' \in 0 .. MaxTicket
BY DEF Issue, TypeOK, Ticket

LEMMA ReferenceType ==
  ASSUME TypeOK, NEW K, Reference(K)
  PROVE  refs' \in [Key -> Nat]
BY DEF Reference, TypeOK

LEMMA SettleType ==
  ASSUME TypeOK, NEW S, NEW outcome \in Outcome
  PROVE  Settle(S, outcome) \in [Ticket -> Outcome]
BY DEF Settle, TypeOK

LEMMA RequestType ==
  ASSUME TypeOK, NEW a \in Asset, Request(a), limit' = limit
  PROVE  TypeOK'
<1> DEFINE K == KeysOf(a)
           new == NewSpecs(K)
<1>1. K \subseteq Key /\ new \subseteq Key
  BY KeysOfType DEF NewSpecs
<1>2. /\ Cardinality(new) \in Nat
      /\ Numbering(new) \in [new -> lastOperation + 1 .. lastOperation + Cardinality(new)]
  BY <1>1, NumberingFresh DEF TypeOK
<1>3. \A k \in new : Numbering(new)[k] \in Nat
  BY <1>2 DEF TypeOK
<1>4. operations' \in [Key -> Nat] /\ lastOperation' \in Nat
  BY <1>1, <1>2, <1>3 DEF Request, TypeOK
<1>5. queued' \subseteq Work
  BY <1>1, <1>3 DEF Request, TypeOK, Work
<1>6. consumers' \in [Key -> SUBSET Ticket]
  BY DEF Request, Issue, TypeOK
<1>7. refs' \in [Key -> Nat]
  BY ReferenceType DEF Request
<1>8. /\ state' \in [Ticket -> Outcome] /\ keys' \in [Ticket -> SUBSET Key]
      /\ pending' \in [Ticket -> SUBSET Key] /\ failing' \subseteq Ticket
      /\ issued' \in 0 .. MaxTicket
  <2>1. "Loading" \in Outcome /\ K \ Cached(K) \in SUBSET Key
    BY <1>1 DEF Outcome
  <2> QED
    BY <1>1, <2>1, IssueType DEF Request
<1>9. worker' \in BOOLEAN /\ thread' \in {"None", "Waiting", "Decoding", "Sending", "Handing", "Leaving", "Finished"}
  BY DEF Request, StartWorker, TypeOK
<1>10. /\ thread' = "Decoding" => work' \in Work
       /\ thread' = "Sending" => work' \in Result
  BY DEF Request, StartWorker, TypeOK
<1> QED
  BY <1>4, <1>5, <1>6, <1>7, <1>8, <1>9, <1>10 DEF Request, TypeOK, index

LEMMA LetGoType ==
  ASSUME TypeOK, NEW S \in SUBSET Ticket, NEW outcome \in Outcome, LetGo(S, outcome)
  PROVE  /\ state' \in [Ticket -> Outcome] /\ keys' \in [Ticket -> SUBSET Key]
         /\ pending' \in [Ticket -> SUBSET Key] /\ failing' \subseteq Ticket
         /\ refs' \in [Key -> Nat] /\ typed' \subseteq Key
         /\ operations' \in [Key -> Nat] /\ consumers' \in [Key -> SUBSET Ticket]
         /\ retired' \subseteq Nat
<1>1. state' \in [Ticket -> Outcome]
  BY SettleType DEF LetGo
<1>2. DropHandles(S) /\ LeaveOperations(S)
  BY DEF LetGo, Detach
<1> QED
  BY <1>1, <1>2, DropHandlesType, LeaveOperationsType

LEMMA ApplyType ==
  ASSUME TypeOK, NEW c \in Result, Apply(c)
  PROVE  /\ operations' \in [Key -> Nat] /\ consumers' \in [Key -> SUBSET Ticket]
         /\ retired' \subseteq Nat
         /\ pending' \in [Ticket -> SUBSET Key] /\ failing' \subseteq Ticket
         /\ refs' \in [Key -> Nat] /\ typed' \subseteq Key
<1>1. c.key \in Key /\ c.id \in Nat
  BY DEF Result
<1>2. Cardinality(consumers[c.key]) \in Nat
  BY <1>1, TicketsFinite DEF TypeOK
<1>3. CASE c.id \in retired \/ operations[c.key] # c.id
  BY <1>3 DEF Apply, Discard, TypeOK, cache
<1>4. CASE ~(c.id \in retired \/ operations[c.key] # c.id)
  <2>1. /\ operations' = [operations EXCEPT ![c.key] = 0]
        /\ consumers' = [consumers EXCEPT ![c.key] = {}]
        /\ retired' = retired
    BY <1>4 DEF Apply
  <2>2. /\ operations' \in [Key -> Nat] /\ consumers' \in [Key -> SUBSET Ticket]
        /\ retired' \subseteq Nat
    BY <2>1 DEF TypeOK
  <2>3. CASE /\ pending' = [t \in Ticket |-> IF t \in consumers[c.key] THEN pending[t] \ {c.key}
                                            ELSE pending[t]]
             /\ refs' = [refs EXCEPT ![c.key] = @ + Cardinality(consumers[c.key])]
             /\ typed' = typed \cup {c.key} /\ failing' = failing
    <3>1. pending' \in [Ticket -> SUBSET Key]
      BY <2>3 DEF TypeOK
    <3>2. refs' \in [Key -> Nat]
      BY <1>1, <1>2, <2>3 DEF TypeOK
    <3> QED
      BY <1>1, <2>2, <2>3, <3>1, <3>2 DEF TypeOK
  <2>4. CASE failing' = failing \cup consumers[c.key] /\ UNCHANGED <<pending, cache>>
    BY <1>1, <2>2, <2>4 DEF TypeOK, cache
  <2> QED
    BY <1>4, <2>3, <2>4 DEF Apply
<1> QED
  BY <1>3, <1>4

LEMMA CallsType ==
  ASSUME TypeOK, Call
  PROVE  TypeOK'
<1>0. limit' = limit
  BY DEF Call
<1> USE <1>0 DEF host, index, inThread, charges, cache, tickets
<1>1. ASSUME NEW t \in Ticket, Release(t) PROVE TypeOK'
  <2>1. LetGo({t}, "Released") /\ {t} \in SUBSET Ticket /\ "Released" \in Outcome
    BY <1>1 DEF Release, Outcome
  <2>2. /\ state' \in [Ticket -> Outcome] /\ keys' \in [Ticket -> SUBSET Key]
        /\ pending' \in [Ticket -> SUBSET Key] /\ failing' \subseteq Ticket
        /\ refs' \in [Key -> Nat] /\ typed' \subseteq Key
        /\ operations' \in [Key -> Nat] /\ consumers' \in [Key -> SUBSET Ticket]
        /\ retired' \subseteq Nat
    BY <2>1, LetGoType
  <2> QED
    BY <1>1, <2>2 DEF Release, TypeOK
<1>2. ASSUME NEW t \in Ticket, RetainHandle(t) PROVE TypeOK'
  <2>1. keys[t] \in SUBSET Key /\ "Ready" \in Outcome /\ {} \in SUBSET Key
    BY DEF TypeOK, Outcome
  <2>2. refs' \in [Key -> Nat]
    BY <1>2, ReferenceType DEF RetainHandle
  <2>3. Issue("Ready", keys[t], {})
    BY <1>2 DEF RetainHandle
  <2>4. /\ state' \in [Ticket -> Outcome] /\ keys' \in [Ticket -> SUBSET Key]
        /\ pending' \in [Ticket -> SUBSET Key] /\ failing' \subseteq Ticket
        /\ issued' \in 0 .. MaxTicket
    BY <2>1, <2>3, IssueType
  <2> QED
    BY <1>2, <2>2, <2>4 DEF RetainHandle, TypeOK
<1>3. ASSUME NEW a \in Asset, Request(a) PROVE TypeOK'
  BY <1>3, RequestType
<1>4. ASSUME NEW a \in Asset, RequestLost(a) PROVE TypeOK'
  <2>1. NewSpecs(KeysOf(a)) \in SUBSET Key
    BY KeysOfType DEF NewSpecs
  <2>2. Cardinality(NewSpecs(KeysOf(a))) \in Nat
    BY <2>1, NumberingFresh DEF TypeOK
  <2>3. retired' \subseteq Nat /\ lastOperation' \in Nat
    BY <1>4, <2>2 DEF RequestLost, TypeOK
  <2>4. jobsOpen' \in BOOLEAN /\ queued' \subseteq Work
    BY <1>4 DEF RequestLost, TypeOK
  <2> QED
    BY <1>4, <2>3, <2>4 DEF RequestLost, TypeOK
<1>5. ASSUME NEW a \in Asset, Load(a) PROVE TypeOK'
  <2>1. KeysOf(a) \in SUBSET Key /\ "Ready" \in Outcome /\ {} \in SUBSET Key
    BY KeysOfType DEF Outcome
  <2>2. refs' \in [Key -> Nat]
    BY <1>5, ReferenceType DEF Load
  <2>3. typed' \subseteq Key
    BY <1>5, <2>1 DEF Load, TypeOK
  <2>4. /\ state' \in [Ticket -> Outcome] /\ keys' \in [Ticket -> SUBSET Key]
        /\ pending' \in [Ticket -> SUBSET Key] /\ failing' \subseteq Ticket
        /\ issued' \in 0 .. MaxTicket
    BY <1>5, <2>1, IssueType DEF Load
  <2> QED
    BY <1>5, <2>2, <2>3, <2>4 DEF Load, TypeOK
<1>6. ASSUME NEW a \in Asset, MountPatchIndex(a) PROVE TypeOK'
  <2>1. LetGo(Loading, "Failed") /\ "Failed" \in Outcome
    BY <1>6 DEF MountPatchIndex, Outcome
  <2>2. Loading \in SUBSET Ticket
    BY DEF Loading
  <2>3. /\ revision' \in [Asset -> 0 .. MaxTrouble] /\ epoch' \in Nat /\ epoch' + panics <= MaxTrouble
        /\ \A b \in Asset : revision'[b] <= epoch'
    BY <1>6, StreamingAssumption DEF MountPatchIndex, MayGoWrong, TypeOK
  <2>4. /\ state' \in [Ticket -> Outcome] /\ keys' \in [Ticket -> SUBSET Key]
        /\ pending' \in [Ticket -> SUBSET Key] /\ failing' \subseteq Ticket
        /\ refs' \in [Key -> Nat] /\ typed' \subseteq Key
        /\ operations' \in [Key -> Nat] /\ consumers' \in [Key -> SUBSET Ticket]
        /\ retired' \subseteq Nat
    BY <2>1, <2>2, LetGoType
  <2> QED
    BY <1>6, <2>3, <2>4 DEF MountPatchIndex, TypeOK
<1>7. CASE UnmountBundle
  <2>1. LetGo(Loading, "Failed") /\ "Failed" \in Outcome
    BY <1>7 DEF UnmountBundle, Outcome
  <2>2. Loading \in SUBSET Ticket
    BY DEF Loading
  <2>3. /\ epoch' \in Nat /\ epoch' + panics <= MaxTrouble
        /\ \A b \in Asset : revision[b] <= epoch'
    BY <1>7, StreamingAssumption DEF UnmountBundle, MayGoWrong, TypeOK
  <2>4. /\ state' \in [Ticket -> Outcome] /\ keys' \in [Ticket -> SUBSET Key]
        /\ pending' \in [Ticket -> SUBSET Key] /\ failing' \subseteq Ticket
        /\ refs' \in [Key -> Nat] /\ typed' \subseteq Key
        /\ operations' \in [Key -> Nat] /\ consumers' \in [Key -> SUBSET Ticket]
        /\ retired' \subseteq Nat
    BY <2>1, <2>2, LetGoType
  <2> QED
    BY <1>7, <2>3, <2>4 DEF UnmountBundle, TypeOK
<1>8. CASE MountBundle
  BY <1>8 DEF MountBundle, TypeOK
<1>9. CASE Shutdown
  <2>1. LetGo(Loading, "Failed") /\ "Failed" \in Outcome
    BY <1>9 DEF Shutdown, Outcome
  <2>2. Loading \in SUBSET Ticket
    BY DEF Loading
  <2>3. stop' \in BOOLEAN /\ stopped' \in BOOLEAN /\ closing' \in BOOLEAN
    BY <1>9 DEF Shutdown, TypeOK
  <2> QED
    BY <1>9, <2>1, <2>2, <2>3, LetGoType DEF Shutdown, TypeOK
<1>10. CASE DropLoader
  <2>1. state' \in [Ticket -> Outcome]
    BY <1>10, SettleType DEF DropLoader, Outcome
  <2>2. completed' \in Seq(Result)
    BY <1>10 DEF DropLoader
  <2> QED
    BY <1>10, <2>1, <2>2 DEF DropLoader, ForgetCharges, TypeOK
<1> QED
  BY <1>1, <1>2, <1>3, <1>4, <1>5, <1>6, <1>7, <1>8, <1>9, <1>10 DEF Call

LEMMA PollEndsType ==
  ASSUME TypeOK, PollEnds
  PROVE  taken' \in 0 .. MaxCompletions /\ closing' \in BOOLEAN
<1>1. taken' = 0
  BY DEF PollEnds
<1>2. taken' \in 0 .. MaxCompletions
  BY <1>1, StreamingAssumption
<1>3. closing' = FALSE \/ closing' = closing
  BY DEF PollEnds
<1>4. closing \in BOOLEAN
  BY DEF TypeOK
<1> QED
  BY <1>2, <1>3, <1>4

LEMMA PollsType ==
  ASSUME TypeOK, Poll
  PROVE  TypeOK'
<1>0. limit' = limit
  BY DEF Poll
<1> USE <1>0 DEF host, index, inThread, charges, cache, tickets
<1>1. CASE PollTake
  <2> DEFINE c == Head(completed)
  <2>1. c \in Result /\ completed' \in Seq(Result)
    BY <1>1 DEF PollTake, TypeOK
  <2>2. taken' \in 0 .. MaxCompletions
    BY <1>1, StreamingAssumption DEF PollTake, Polls, TypeOK
  <2>3. Apply(c)
    BY <1>1 DEF PollTake
  <2> QED
    BY <1>1, <2>1, <2>2, <2>3, ApplyType DEF PollTake, TypeOK
<1>2. CASE PollPublish
  <2>1. state' \in [Ticket -> Outcome]
    BY <1>2 DEF PollPublish, Outcome, TypeOK
  <2>2. failing \cap Loading \in SUBSET Ticket
    BY DEF Loading
  <2>3. taken' \in 0 .. MaxCompletions /\ closing' \in BOOLEAN
    BY <1>2, StreamingAssumption, PollEndsType DEF PollPublish
  <2>4. DropHandles(failing \cap Loading) /\ LeaveOperations(failing \cap Loading)
    BY <1>2 DEF PollPublish, Detach
  <2>5. /\ keys' \in [Ticket -> SUBSET Key] /\ pending' \in [Ticket -> SUBSET Key]
        /\ failing' \subseteq Ticket /\ refs' \in [Key -> Nat] /\ typed' \subseteq Key
    BY <2>2, <2>4, DropHandlesType
  <2>6. /\ operations' \in [Key -> Nat] /\ consumers' \in [Key -> SUBSET Ticket]
        /\ retired' \subseteq Nat
    BY <2>2, <2>4, LeaveOperationsType
  <2>7. UNCHANGED <<issued, revision, mounted, epoch, lastOperation, worker, stopped, dropped,
                    thread, work, jobsOpen, resultsOpen, panics, stop, queued, completed>>
    BY <1>2 DEF PollPublish
  <2> QED
    BY <2>1, <2>3, <2>5, <2>6, <2>7 DEF TypeOK
<1>3. CASE PollLost
  <2>1. state' \in [Ticket -> Outcome]
    BY <1>3, SettleType DEF PollLost, Outcome
  <2>2. Loading \in SUBSET Ticket
    BY DEF Loading
  <2>3. taken' \in 0 .. MaxCompletions /\ closing' \in BOOLEAN
    BY <1>3, StreamingAssumption, PollEndsType DEF PollLost
  <2>4. /\ operations' \in [Key -> Nat] /\ consumers' \in [Key -> SUBSET Ticket]
        /\ retired' \subseteq Nat /\ worker' \in BOOLEAN
    <3>1. CASE ForgetCharges /\ worker' = FALSE
      BY <3>1 DEF ForgetCharges
    <3>2. CASE LeaveOperations(Loading) /\ UNCHANGED worker
      <4>1. worker' = worker /\ worker \in BOOLEAN
        BY <3>2 DEF TypeOK
      <4> QED
        BY <2>2, <3>2, <4>1, LeaveOperationsType
    <3> QED
      BY <1>3, <3>1, <3>2 DEF PollLost
  <2>5. DropHandles(Loading)
    BY <1>3 DEF PollLost
  <2>6. /\ keys' \in [Ticket -> SUBSET Key] /\ pending' \in [Ticket -> SUBSET Key]
        /\ failing' \subseteq Ticket /\ refs' \in [Key -> Nat] /\ typed' \subseteq Key
    BY <2>2, <2>5, DropHandlesType
  <2> QED
    BY <1>3, <2>1, <2>3, <2>4, <2>6 DEF PollLost, TypeOK
<1>4. CASE ShutdownDone
  <2>1. completed' \in Seq(Result)
    BY <1>4 DEF ShutdownDone
  <2> QED
    BY <1>4, <2>1 DEF ShutdownDone, ForgetCharges, TypeOK
<1> QED
  BY <1>1, <1>2, <1>3, <1>4 DEF Poll

LEMMA ThreadType ==
  ASSUME TypeOK, Thread
  PROVE  TypeOK'
<1>0. limit' = limit
  BY DEF Thread
<1> USE <1>0 DEF host, index, charges, cache, tickets
<1>1. CASE ThreadTakes
  BY <1>1 DEF ThreadTakes, TypeOK
<1>2. CASE ThreadDecodes
  BY <1>2 DEF ThreadDecodes, TypeOK, Work, Result
<1>3. CASE ThreadSends
  <2>0. work \in Result /\ completed \in Seq(Result)
    BY <1>3 DEF ThreadSends, TypeOK
  <2>1. completed' \in Seq(Result)
    BY <1>3, <2>0 DEF ThreadSends
  <2>2. thread' \in {"Waiting", "Handing", "Leaving"}
    BY <1>3 DEF ThreadSends, GoesOn
  <2> QED
    BY <1>3, <2>1, <2>2 DEF ThreadSends, TypeOK
<1>4. CASE ThreadPanics
  BY <1>4, StreamingAssumption DEF ThreadPanics, MayGoWrong, TypeOK
<1>5. CASE ThreadHanded
  BY <1>5 DEF ThreadHanded, GoesOn, TypeOK
<1>6. CASE ThreadStops \/ ThreadEnds
  BY <1>6 DEF ThreadStops, ThreadEnds, TypeOK
<1>7. CASE ThreadDropsJobs
  BY <1>7 DEF ThreadDropsJobs, TypeOK
<1>8. CASE ThreadDropsResults
  BY <1>8 DEF ThreadDropsResults, TypeOK
<1> QED
  BY <1>1, <1>2, <1>3, <1>4, <1>5, <1>6, <1>7, <1>8 DEF Thread

LEMMA UnchangedType ==
  ASSUME TypeOK, UNCHANGED vars
  PROVE  TypeOK'
BY DEF TypeOK, vars, tickets, index, cache, charges, host, inThread

-----------------------------------------------------------------------------
(* Handles and counts *)
\* Tickets that let go take exactly their references with them.
LEMMA DropHandlesCounts ==
  ASSUME TypeOK, Counted, NEW S \in SUBSET Ticket, DropHandles(S)
  PROVE  Counted'
<1> SUFFICES ASSUME NEW k \in Key
             PROVE  refs'[k] = Cardinality(Holders(Ticket, k)')
  BY DEF Counted, Holders
<1> DEFINE H == Holders(Ticket, k)
           gone == Holders(S, k)
<1>1. /\ IsFiniteSet(H) /\ Cardinality(H) \in Nat
      /\ IsFiniteSet(gone) /\ Cardinality(gone) \in Nat
  BY TicketsFinite DEF Holders
<1>2. gone \subseteq H /\ H \cap gone = gone
  BY DEF Holders
<1>3. Holders(Ticket, k)' = H \ gone
  BY DEF Holders, DropHandles
<1>4. Cardinality(H \ gone) = Cardinality(H) - Cardinality(gone)
  BY <1>1, <1>2, FS_Difference
<1>5. Cardinality(gone) <= Cardinality(H)
  BY <1>1, <1>2, FS_Subset
<1>6. refs[k] = Cardinality(H)
  BY DEF Counted
<1>7. refs'[k] = IF Cardinality(gone) < refs[k] THEN refs[k] - Cardinality(gone) ELSE 0
  BY DEF DropHandles
<1> HIDE DEF H, gone
<1> QED
  BY <1>1, <1>3, <1>4, <1>5, <1>6, <1>7

\* What becomes of the other tickets meanwhile: nothing, or they are ready.
LEMMA DropHandlesOK ==
  ASSUME Handled, NEW S \in SUBSET Ticket, DropHandles(S),
         issued' = issued,
         \A t \in S : state[t] # "None" /\ state'[t] \in {"Failed", "Released"},
         \A t \in Ticket \ S : \/ state'[t] = state[t]
                               \/ /\ state[t] = "Loading" /\ state'[t] = "Ready"
                                  /\ pending[t] = {} /\ t \notin failing,
         \A k \in Key : consumers'[k] \subseteq consumers[k] \ S
  PROVE  HandlesOK' /\ Counted'
<1>1. Counted'
  BY DropHandlesCounts DEF Handled
<1>2. \A t \in Ticket : t > issued' => state'[t] = "None"
  BY DEF Handled, HandlesOK
<1>3. \A t \in Ticket : t \notin Live' => keys'[t] = {}
  BY DEF Handled, HandlesOK, Live, DropHandles
<1>4. \A t \in Ticket : pending'[t] \subseteq keys'[t]
  BY DEF Handled, HandlesOK, DropHandles
<1>5. \A t \in Ticket : state'[t] = "Ready" => pending'[t] = {}
  BY DEF Handled, HandlesOK, DropHandles
<1>6. \A k \in Key : \A t \in consumers'[k] : k \in pending'[t]
  BY DEF Handled, HandlesOK, DropHandles, TypeOK
<1>7. failing' \subseteq Loading'
  BY DEF Handled, HandlesOK, DropHandles, Loading
<1> QED
  BY <1>1, <1>2, <1>3, <1>4, <1>5, <1>6, <1>7 DEF HandlesOK

LEMMA LetGoOK ==
  ASSUME Handled, NEW S \in SUBSET Ticket, NEW outcome \in {"Failed", "Released"},
         LetGo(S, outcome), issued' = issued, \A t \in S : state[t] # "None"
  PROVE  HandlesOK' /\ Counted'
<1>1. \A t \in Ticket : state'[t] = IF t \in S THEN outcome ELSE state[t]
  BY DEF LetGo, Settle
<1>2. \A k \in Key : consumers'[k] \subseteq consumers[k] \ S
  BY DEF LetGo, Detach, LeaveOperations
<1>3. DropHandles(S)
  BY DEF LetGo, Detach
<1> QED
  BY <1>1, <1>2, <1>3, DropHandlesOK

\* A new ticket adds its references and nothing else.
LEMMA IssueOK ==
  ASSUME Handled, NEW outcome \in {"Loading", "Ready"}, NEW K \in SUBSET Key,
         NEW waits \in SUBSET K, Issue(outcome, K, waits), Reference(K \ waits),
         outcome = "Ready" => waits = {},
         \A k \in Key : consumers'[k] = consumers[k]
                        \/ (k \in waits /\ consumers'[k] = consumers[k] \cup {issued + 1})
  PROVE  HandlesOK' /\ Counted'
<1> DEFINE t == issued + 1
<1>1. t \in Ticket /\ state[t] = "None" /\ keys[t] = {} /\ pending[t] = {} /\ issued \in Nat
  <2>1. t \in Ticket /\ issued \in Nat /\ t > issued
    BY StreamingAssumption DEF Issue, Handled, TypeOK
  <2>2. state[t] = "None" /\ t \notin Live
    BY <2>1 DEF Handled, HandlesOK, Live
  <2>3. keys[t] = {} /\ pending[t] \subseteq keys[t]
    BY <2>1, <2>2 DEF Handled, HandlesOK
  <2> QED
    BY <2>1, <2>2, <2>3
<1>2. /\ issued' = t /\ failing' = failing
      /\ \A u \in Ticket : u # t => state'[u] = state[u] /\ keys'[u] = keys[u] /\ pending'[u] = pending[u]
      /\ state'[t] = outcome /\ keys'[t] = K /\ pending'[t] = waits
  BY <1>1 DEF Issue, Handled, TypeOK
<1>3. Counted'
  <2> SUFFICES ASSUME NEW k \in Key
               PROVE  refs'[k] = Cardinality(Holders(Ticket, k)')
    BY DEF Counted, Holders
  <2> DEFINE H == Holders(Ticket, k)
  <2>1. IsFiniteSet(H) /\ Cardinality(H) \in Nat /\ refs[k] = Cardinality(H) /\ t \notin H
    BY <1>1, TicketsFinite DEF Holders, Handled, Counted
  <2>2. CASE k \in K \ waits
    <3>1. Holders(Ticket, k)' = H \cup {t}
      BY <1>1, <1>2, <2>2 DEF Holders
    <3>2. refs'[k] = refs[k] + 1
      BY <2>2 DEF Reference
    <3> QED
      BY <2>1, <3>1, <3>2, FS_AddElement
  <2>3. CASE k \notin K \ waits
    <3>1. Holders(Ticket, k)' = H
      BY <1>1, <1>2, <2>3 DEF Holders
    <3> QED
      BY <2>1, <2>3, <3>1 DEF Reference
  <2> QED
    BY <2>2, <2>3
<1>4. \A u \in Ticket : u > issued' => state'[u] = "None"
  BY <1>1, <1>2 DEF Handled, HandlesOK, Ticket
<1>5. \A u \in Ticket : u \notin Live' => keys'[u] = {}
  BY <1>1, <1>2 DEF Handled, HandlesOK, Live
<1>6. \A u \in Ticket : pending'[u] \subseteq keys'[u]
  BY <1>1, <1>2 DEF Handled, HandlesOK
<1>7. \A u \in Ticket : state'[u] = "Ready" => pending'[u] = {}
  BY <1>1, <1>2 DEF Handled, HandlesOK
<1>8. ASSUME NEW k \in Key, NEW u \in consumers'[k] PROVE k \in pending'[u]
  <2>1. CASE u \in consumers[k]
    <3>1. u \in Ticket /\ k \in pending[u]
      BY <2>1 DEF Handled, HandlesOK, TypeOK
    <3> QED
      BY <1>1, <1>2, <3>1
  <2>2. CASE u \notin consumers[k]
    <3>1. k \in waits /\ u = t
      BY <1>8, <2>2
    <3> QED
      BY <1>2, <3>1
  <2> QED
    BY <2>1, <2>2
<1>9. failing' \subseteq Loading'
  BY <1>1, <1>2 DEF Handled, HandlesOK, Loading
<1> QED
  BY <1>3, <1>4, <1>5, <1>6, <1>7, <1>8, <1>9 DEF HandlesOK

\* A result gives its waiters their references, or an error.
LEMMA ApplyOK ==
  ASSUME Handled, NEW c \in Result, Apply(c), UNCHANGED <<state, keys, issued>>
  PROVE  HandlesOK' /\ Counted'
<1> DEFINE key == c.key
           waiting == consumers[key]
<1>1. key \in Key /\ waiting \in SUBSET Ticket
  BY DEF Result, Handled, TypeOK
<1>2. \A t \in waiting : key \in pending[t] /\ key \in keys[t] /\ t \in Loading
  BY <1>1 DEF Handled, HandlesOK, Live, Loading
<1>3. CASE UNCHANGED <<pending, failing, cache, consumers>>
  BY <1>3 DEF Handled, HandlesOK, Counted, Holders, Live, Loading, cache
<1>4. CASE /\ consumers' = [consumers EXCEPT ![key] = {}]
           /\ failing' = failing \cup waiting
           /\ UNCHANGED <<pending, cache>>
  <2>1. Counted'
    BY <1>4 DEF Handled, Counted, Holders, cache
  <2>2. \A k \in Key : \A t \in consumers'[k] : k \in pending'[t]
    BY <1>1, <1>4 DEF Handled, HandlesOK, TypeOK
  <2>3. failing' \subseteq Loading'
    BY <1>2, <1>4 DEF Handled, HandlesOK, Loading
  <2> QED
    BY <1>4, <2>1, <2>2, <2>3 DEF Handled, HandlesOK, Live
<1>5. CASE /\ consumers' = [consumers EXCEPT ![key] = {}]
           /\ pending' = [t \in Ticket |-> IF t \in waiting THEN pending[t] \ {key} ELSE pending[t]]
           /\ refs' = [refs EXCEPT ![key] = @ + Cardinality(waiting)]
           /\ UNCHANGED failing
  <2>1. Counted'
    <3> SUFFICES ASSUME NEW k \in Key
                 PROVE  refs'[k] = Cardinality(Holders(Ticket, k)')
      BY DEF Counted, Holders
    <3> DEFINE H == Holders(Ticket, k)
    <3>1. /\ IsFiniteSet(H) /\ Cardinality(H) \in Nat /\ refs[k] = Cardinality(H)
          /\ IsFiniteSet(waiting) /\ Cardinality(waiting) \in Nat
      BY <1>1, TicketsFinite DEF Holders, Handled, Counted
    <3>2. CASE k = key
      <4>1. Holders(Ticket, k)' = H \cup waiting
        BY <1>1, <1>2, <1>5, <3>2 DEF Holders
      <4>2. H \cap waiting = {}
        BY <1>2, <3>2 DEF Holders
      <4>3. Cardinality(H \cup waiting) = Cardinality(H) + Cardinality(waiting)
        BY <3>1, <4>2, FS_Union, FS_EmptySet
      <4>4. refs'[k] = refs[k] + Cardinality(waiting)
        BY <1>1, <1>5, <3>2 DEF Handled, TypeOK
      <4> QED
        BY <3>1, <4>1, <4>3, <4>4
    <3>3. CASE k # key
      <4>1. Holders(Ticket, k)' = H
        BY <1>5, <3>3 DEF Holders
      <4> QED
        BY <1>5, <3>1, <3>3, <4>1 DEF Handled, TypeOK
    <3> QED
      BY <3>2, <3>3
  <2>2. \A k \in Key : \A t \in consumers'[k] : k \in pending'[t]
    <3> SUFFICES ASSUME NEW k \in Key, NEW t \in consumers'[k] PROVE k \in pending'[t]
      OBVIOUS
    <3>1. k # key /\ t \in consumers[k] /\ t \in Ticket
      BY <1>1, <1>5 DEF Handled, TypeOK
    <3>2. k \in pending[t]
      BY <3>1 DEF Handled, HandlesOK
    <3> QED
      BY <1>5, <3>1, <3>2
  <2>3. \A t \in Ticket : pending'[t] \subseteq pending[t]
    BY <1>5
  <2> QED
    BY <1>5, <2>1, <2>2, <2>3 DEF Handled, HandlesOK, Live, Loading
<1> QED
  BY <1>3, <1>4, <1>5 DEF Apply, Discard, cache

LEMMA CallsHandled ==
  ASSUME Handled, Call
  PROVE  HandlesOK' /\ Counted'
<1>1. ASSUME NEW t \in Ticket, Release(t) PROVE HandlesOK' /\ Counted'
  <2>1. LetGo({t}, "Released") /\ issued' = issued /\ state[t] # "None"
    BY <1>1 DEF Release
  <2> QED
    BY <2>1, LetGoOK
<1>2. ASSUME NEW t \in Ticket, RetainHandle(t) PROVE HandlesOK' /\ Counted'
  <2>1. /\ Issue("Ready", keys[t], {}) /\ keys[t] \in SUBSET Key /\ keys[t] \ {} = keys[t]
        /\ Reference(keys[t]) /\ consumers' = consumers
    BY <1>2 DEF RetainHandle, Handled, TypeOK, charges
  <2> QED
    BY <2>1, IssueOK
<1>3. ASSUME NEW a \in Asset, Request(a) PROVE HandlesOK' /\ Counted'
  <2> DEFINE K == KeysOf(a)
  <2>1. K \in SUBSET Key /\ K \ Cached(K) \in SUBSET K /\ K \ (K \ Cached(K)) = Cached(K)
    BY KeysOfType DEF Handled, Cached
  <2>2. /\ Issue("Loading", K, K \ Cached(K)) /\ Reference(Cached(K))
        /\ \A k \in Key : consumers'[k] = consumers[k]
             \/ (k \in K \ Cached(K) /\ consumers'[k] = consumers[k] \cup {issued + 1})
    BY <1>3 DEF Request
  <2> QED
    BY <2>1, <2>2, IssueOK
<1>4. ASSUME NEW a \in Asset, RequestLost(a) PROVE HandlesOK' /\ Counted'
  BY <1>4 DEF RequestLost, Handled, HandlesOK, Counted, Holders, Live, Loading, tickets, cache
<1>5. ASSUME NEW a \in Asset, Load(a) PROVE HandlesOK' /\ Counted'
  <2>1. /\ Issue("Ready", KeysOf(a), {}) /\ KeysOf(a) \in SUBSET Key
        /\ KeysOf(a) \ {} = KeysOf(a) /\ Reference(KeysOf(a)) /\ consumers' = consumers
    BY <1>5, KeysOfType DEF Load, Handled, charges
  <2> QED
    BY <2>1, IssueOK
<1>6. CASE Shutdown \/ UnmountBundle \/ \E a \in Asset : MountPatchIndex(a)
  <2>1. LetGo(Loading, "Failed") /\ issued' = issued /\ Loading \in SUBSET Ticket
        /\ \A t \in Loading : state[t] # "None"
    BY <1>6 DEF Shutdown, UnmountBundle, MountPatchIndex, Loading
  <2> QED
    BY <2>1, LetGoOK
<1>7. CASE MountBundle
  BY <1>7 DEF MountBundle, Handled, HandlesOK, Counted, Holders, Live, Loading, tickets, cache, charges
<1>8. CASE DropLoader
  <2>1. HandlesOK'
    BY <1>8 DEF DropLoader, Settle, ForgetCharges, Handled, HandlesOK, Live, Loading
  <2>2. \A k \in Key : Holders(Ticket, k)' = {} /\ refs'[k] = 0
    BY <1>8 DEF DropLoader, Holders
  <2>3. Counted'
    BY <2>2, FS_EmptySet DEF Counted, Holders
  <2> QED
    BY <2>1, <2>3
<1> QED
  BY <1>1, <1>2, <1>3, <1>4, <1>5, <1>6, <1>7, <1>8 DEF Call

LEMMA PollsHandled ==
  ASSUME Handled, Poll
  PROVE  HandlesOK' /\ Counted'
<1>1. CASE PollTake
  <2>1. Head(completed) \in Result
    BY <1>1 DEF PollTake, Handled, TypeOK
  <2>2. Apply(Head(completed)) /\ UNCHANGED <<state, keys, issued>>
    BY <1>1 DEF PollTake
  <2> QED
    BY <2>1, <2>2, ApplyOK
<1>2. CASE PollPublish
  <2> DEFINE failed == failing \cap Loading
             arrived == {t \in Loading \ failed : pending[t] = {} /\ keys[t] \subseteq Resident}
  <2>1. /\ DropHandles(failed) /\ issued' = issued /\ failed \in SUBSET Ticket
        /\ \A k \in Key : consumers'[k] \subseteq consumers[k] \ failed
    BY <1>2 DEF PollPublish, Detach, LeaveOperations, Loading
  <2>2. \A t \in Ticket : state'[t] = IF t \in failed THEN "Failed"
                                      ELSE IF t \in arrived THEN "Ready" ELSE state[t]
    BY <1>2 DEF PollPublish
  <2>3. \A t \in failed : state[t] # "None" /\ state'[t] \in {"Failed", "Released"}
    BY <2>1, <2>2 DEF Loading
  <2>4. \A t \in Ticket \ failed : \/ state'[t] = state[t]
                                   \/ /\ state[t] = "Loading" /\ state'[t] = "Ready"
                                      /\ pending[t] = {} /\ t \notin failing
    BY <2>2 DEF Loading
  <2> QED
    BY <2>1, <2>3, <2>4, DropHandlesOK
<1>3. CASE PollLost
  <2>1. /\ DropHandles(Loading) /\ issued' = issued /\ Loading \in SUBSET Ticket
        /\ state' = Settle(Loading, "Failed")
    BY <1>3 DEF PollLost, Loading
  <2>2. \A k \in Key : consumers'[k] \subseteq consumers[k] \ Loading
    BY <1>3 DEF PollLost, ForgetCharges, LeaveOperations
  <2>3. \A t \in Ticket : state'[t] = IF t \in Loading THEN "Failed" ELSE state[t]
    BY <2>1 DEF Settle
  <2>4. \A t \in Loading : state[t] # "None" /\ state'[t] \in {"Failed", "Released"}
    BY <2>1, <2>3 DEF Loading
  <2> QED
    BY <2>1, <2>2, <2>3, <2>4, DropHandlesOK
<1>4. CASE ShutdownDone
  BY <1>4 DEF ShutdownDone, ForgetCharges, Handled, HandlesOK, Counted, Holders, Live, Loading, tickets, cache
<1> QED
  BY <1>1, <1>2, <1>3, <1>4 DEF Poll

LEMMA ThreadHandled ==
  ASSUME Handled, Thread \/ UNCHANGED vars
  PROVE  HandlesOK' /\ Counted'
<1>1. UNCHANGED <<tickets, refs, consumers>>
  BY DEF Thread, ThreadTakes, ThreadDecodes, ThreadSends, ThreadHanded, ThreadStops, ThreadPanics, ThreadDropsJobs,
         ThreadDropsResults, ThreadEnds, vars, cache, charges
<1> QED
  BY <1>1 DEF Handled, HandlesOK, Counted, Holders, Live, Loading, tickets

LEMMA InitHandled == Init => Handled
<1> SUFFICES ASSUME Init PROVE Handled
  OBVIOUS
<1>1. TypeOK
  <2>1. {MaxTicket, MaxTrouble, MaxCompletions, MaxOperations} \subseteq Nat
    BY StreamingAssumption
  <2>2. epoch + panics <= MaxTrouble /\ taken \in 0 .. MaxCompletions /\ issued \in 0 .. MaxTicket
    BY <2>1 DEF Init
  <2>3. revision \in [Asset -> 0 .. MaxTrouble] /\ \A a \in Asset : revision[a] <= epoch
    BY <2>1 DEF Init
  <2>4. queued \subseteq Work /\ completed \in Seq(Result)
    BY DEF Init
  <2> QED
    BY <2>2, <2>3, <2>4 DEF Init, TypeOK, Outcome
<1>2. HandlesOK
  BY DEF Init, HandlesOK, Live, Loading
<1>3. \A k \in Key : Holders(Ticket, k) = {}
  BY DEF Init, Holders
<1>4. Counted
  BY <1>3, FS_EmptySet DEF Init, Counted
<1> QED
  BY <1>1, <1>2, <1>4 DEF Handled

LEMMA NextHandled == Handled /\ [Next]_vars => Handled'
<1> SUFFICES ASSUME Handled, [Next]_vars PROVE Handled'
  OBVIOUS
<1>1. TypeOK
  BY DEF Handled
<1>2. TypeOK'
  BY <1>1, CallsType, PollsType, ThreadType, UnchangedType DEF Next
<1>3. HandlesOK' /\ Counted'
  BY CallsHandled, PollsHandled, ThreadHandled DEF Next
<1> QED
  BY <1>2, <1>3 DEF Handled

LEMMA HandledAlways == Spec => []Handled
<1> QED
  BY InitHandled, NextHandled, PTL DEF Spec

\* Every variable keeps its type.
THEOREM TypeCorrect == Spec => []TypeOK
<1>1. Handled => TypeOK
  BY DEF Handled
<1> QED
  BY <1>1, HandledAlways, PTL

LEMMA LiveHolders ==
  ASSUME Handled, NEW k \in Key
  PROVE  Holders(Live, k) = Holders(Ticket, k)
BY DEF Handled, HandlesOK, Holders, Live

\* The count of a cache entry is always the number of handles that have it.
THEOREM RefCountsExactAlways == Spec => []RefCountsExact
<1>1. Handled => RefCountsExact
  BY LiveHolders DEF Handled, Counted, RefCountsExact
<1> QED
  BY <1>1, HandledAlways, PTL

-----------------------------------------------------------------------------
(* The loader implements SharedAssets *)

\* A payload is resident exactly while some handle has a reference to it.
LEMMA ResidentHeld ==
  ASSUME Handled
  PROVE  /\ Resident \subseteq Key
         /\ \A k \in Key : k \in Resident <=> \E t \in Ticket : k \in keys[t] \ pending[t]
<1> SUFFICES ASSUME NEW k \in Key
             PROVE  k \in Resident <=> \E t \in Ticket : k \in keys[t] \ pending[t]
  BY DEF Resident
<1>1. IsFiniteSet(Holders(Ticket, k)) /\ Cardinality(Holders(Ticket, k)) \in Nat
  BY TicketsFinite DEF Holders
<1>2. Holders(Ticket, k) = {} <=> Cardinality(Holders(Ticket, k)) = 0
  BY <1>1, FS_EmptySet
<1> QED
  BY <1>1, <1>2 DEF Handled, Counted, Resident, Holders

LEMMA ResidentHeldNext ==
  ASSUME Handled'
  PROVE  /\ Resident' \subseteq Key
         /\ \A k \in Key : k \in Resident' <=> \E t \in Ticket : k \in keys'[t] \ pending'[t]
<1> SUFFICES ASSUME NEW k \in Key
             PROVE  k \in Resident' <=> \E t \in Ticket : k \in keys'[t] \ pending'[t]
  BY DEF Resident
<1>1. IsFiniteSet(Holders(Ticket, k)') /\ Cardinality(Holders(Ticket, k)') \in Nat
  BY TicketsFinite DEF Holders
<1>2. Holders(Ticket, k)' = {} <=> Cardinality(Holders(Ticket, k)') = 0
  BY <1>1, FS_EmptySet
<1> QED
  BY <1>1, <1>2 DEF Handled, Counted, Resident, Holders

\* Tickets that settle or end, and drop their handles if not ready.
LEMMA TurnStep ==
  ASSUME Handled, Handled',
         NEW ready \in SUBSET Loading, NEW failed \in SUBSET (Loading \ ready),
         NEW ended \in SUBSET {t \in Ticket : state[t] \notin {"None", "Released"}},
         ended = {} \/ ready \cup failed = {},
         state' = [t \in Ticket |-> IF t \in ended THEN "Released" ELSE IF t \in failed THEN "Failed"
                                    ELSE IF t \in ready THEN "Ready" ELSE state[t]],
         keys' = [t \in Ticket |-> IF t \in failed \cup ended THEN {} ELSE keys[t]],
         \A t \in Ticket \ (failed \cup ended) : pending'[t] = pending[t]
  PROVE  Shared!Next
<1>1. Resident' \subseteq Resident
  <2> SUFFICES ASSUME NEW k \in Resident' PROVE k \in Resident
    OBVIOUS
  <2>1. k \in Key /\ \E t \in Ticket : k \in keys'[t] \ pending'[t]
    BY ResidentHeldNext
  <2>2. \E t \in Ticket : k \in keys[t] \ pending[t]
    BY <2>1
  <2> QED
    BY <2>1, <2>2, ResidentHeld
<1>2. Shared!HeldNext \subseteq Resident'
  <2> SUFFICES ASSUME NEW t \in Ticket, state'[t] = "Ready", NEW k \in keys'[t]
               PROVE  k \in Resident'
    BY DEF Shared!HeldNext
  <2>1. k \in Key /\ pending'[t] = {}
    BY DEF Handled, HandlesOK, TypeOK
  <2> QED
    BY <2>1, ResidentHeldNext
<1>3. Resident' \subseteq UNION {keys'[t] : t \in Ticket}
  BY ResidentHeldNext
<1>4. Shared!Turn(ready, failed, ended)
  BY <1>1, <1>2, <1>3 DEF Shared!Turn
<1>5. Shared!In("Loading") = Loading
  BY DEF Shared!In, Loading
<1> QED
  BY <1>4, <1>5 DEF Shared!Next

LEMMA FailedStep ==
  ASSUME Handled, Handled', state' = Settle(Loading, "Failed"), DropHandles(Loading)
  PROVE  Shared!Next
<1>1. Loading \in SUBSET (Loading \ {}) /\ {} \in SUBSET Loading
  OBVIOUS
<1>2. {} \in SUBSET {t \in Ticket : state[t] \notin {"None", "Released"}}
  OBVIOUS
<1>3. /\ state' = [t \in Ticket |-> IF t \in {} THEN "Released" ELSE IF t \in Loading THEN "Failed"
                                    ELSE IF t \in {} THEN "Ready" ELSE state[t]]
      /\ keys' = [t \in Ticket |-> IF t \in Loading \cup {} THEN {} ELSE keys[t]]
      /\ \A t \in Ticket \ (Loading \cup {}) : pending'[t] = pending[t]
  BY DEF Settle, DropHandles
<1> QED
  BY <1>1, <1>2, <1>3, TurnStep

\* A new ticket, with the payloads its references bring.
LEMMA MakeStep ==
  ASSUME Handled, NEW outcome, NEW K \in SUBSET Key, NEW waits, Issue(outcome, K, waits),
         NEW got \in SUBSET K, Reference(got),
         \/ outcome = "Loading" /\ got \subseteq Resident
         \/ outcome = "Ready" /\ got = K
  PROVE  Shared!Next
<1> DEFINE t == issued + 1
<1>1. t \in Ticket /\ t > issued
  BY StreamingAssumption DEF Issue, Handled, TypeOK
<1>2. t \in Shared!In("None")
  BY <1>1 DEF Handled, HandlesOK, Shared!In
<1>3. Resident' = Resident \cup got
  BY DEF Resident, Reference, Handled, TypeOK
<1>4. Shared!Make(t, outcome, K)
  BY DEF Shared!Make, Issue
<1>5. Shared!Ask(t, K) \/ Shared!Grant(t, K)
  BY <1>3, <1>4 DEF Shared!Ask, Shared!Grant
<1> QED
  BY <1>2, <1>5 DEF Shared!Next

LEMMA CallsRefine ==
  ASSUME Handled, Handled', Call
  PROVE  [Shared!Next]_(Shared!vars)
<1>1. ASSUME NEW t \in Ticket, Release(t) PROVE Shared!Next
  <2>1. /\ {t} \in SUBSET {u \in Ticket : state[u] \notin {"None", "Released"}}
        /\ {} \in SUBSET Loading /\ {} \in SUBSET (Loading \ {}) /\ {} \cup {} = {}
    BY <1>1 DEF Release
  <2>2. state' = Settle({t}, "Released") /\ DropHandles({t})
    BY <1>1 DEF Release, LetGo, Detach
  <2>3. /\ state' = [u \in Ticket |-> IF u \in {t} THEN "Released" ELSE IF u \in {} THEN "Failed"
                                      ELSE IF u \in {} THEN "Ready" ELSE state[u]]
        /\ keys' = [u \in Ticket |-> IF u \in {} \cup {t} THEN {} ELSE keys[u]]
        /\ \A u \in Ticket \ ({} \cup {t}) : pending'[u] = pending[u]
    BY <2>2 DEF Settle, DropHandles
  <2> QED
    BY <2>1, <2>3, TurnStep
<1>2. ASSUME NEW t \in Ticket, RetainHandle(t) PROVE Shared!Next
  <2>1. Issue("Ready", keys[t], {}) /\ Reference(keys[t]) /\ keys[t] \in SUBSET Key
    BY <1>2 DEF RetainHandle, Handled, TypeOK
  <2> QED
    BY <2>1, MakeStep
<1>3. ASSUME NEW a \in Asset, Request(a) PROVE Shared!Next
  <2> DEFINE K == KeysOf(a)
  <2>1. K \in SUBSET Key /\ Cached(K) \in SUBSET K /\ Cached(K) \subseteq Resident
    BY KeysOfType DEF Handled, Cached, CacheReady
  <2>2. Issue("Loading", K, K \ Cached(K)) /\ Reference(Cached(K))
    BY <1>3 DEF Request
  <2> QED
    BY <2>1, <2>2, MakeStep
<1>4. ASSUME NEW a \in Asset, RequestLost(a) PROVE UNCHANGED Shared!vars
  BY <1>4 DEF RequestLost, Shared!vars, tickets, cache, Resident
<1>5. ASSUME NEW a \in Asset, Load(a) PROVE Shared!Next
  <2>1. Issue("Ready", KeysOf(a), {}) /\ Reference(KeysOf(a)) /\ KeysOf(a) \in SUBSET Key
    BY <1>5, KeysOfType DEF Load, Handled
  <2> QED
    BY <2>1, MakeStep
<1>6. CASE Shutdown \/ UnmountBundle \/ \E a \in Asset : MountPatchIndex(a)
  <2>1. state' = Settle(Loading, "Failed") /\ DropHandles(Loading)
    BY <1>6 DEF Shutdown, UnmountBundle, MountPatchIndex, LetGo, Detach
  <2> QED
    BY <2>1, FailedStep
<1>7. CASE MountBundle
  BY <1>7 DEF MountBundle, Shared!vars, tickets, cache, Resident
<1>8. CASE DropLoader
  <2> DEFINE ended == {t \in Ticket : state[t] \notin {"None", "Released"}}
  <2>1. \A t \in Ticket \ ended : keys[t] = {} /\ pending[t] = {}
    BY DEF Handled, HandlesOK, Live
  <2>2. /\ state' = [t \in Ticket |-> IF t \in ended THEN "Released" ELSE IF t \in {} THEN "Failed"
                                      ELSE IF t \in {} THEN "Ready" ELSE state[t]]
        /\ keys' = [t \in Ticket |-> IF t \in {} \cup ended THEN {} ELSE keys[t]]
        /\ \A t \in Ticket \ ({} \cup ended) : pending'[t] = pending[t]
    BY <1>8, <2>1 DEF DropLoader, Settle
  <2>3. {} \in SUBSET Loading /\ {} \in SUBSET (Loading \ {}) /\ {} \cup {} = {} /\ ended \in SUBSET ended
    OBVIOUS
  <2> HIDE DEF ended
  <2>4. ended \in SUBSET {t \in Ticket : state[t] \notin {"None", "Released"}}
    BY DEF ended
  <2> QED
    BY <2>2, <2>3, <2>4, TurnStep
<1> QED
  BY <1>1, <1>2, <1>3, <1>4, <1>5, <1>6, <1>7, <1>8 DEF Call

LEMMA PollsRefine ==
  ASSUME Handled, Handled', Poll
  PROVE  [Shared!Next]_(Shared!vars)
<1>1. CASE PollTake
  <2> DEFINE c == Head(completed)
             waiting == consumers[c.key]
  <2>1. c \in Result
    BY <1>1 DEF PollTake, Handled, TypeOK
  <2>2. c.key \in Key /\ Apply(c) /\ UNCHANGED <<state, keys>>
    BY <1>1, <2>1 DEF PollTake, Result
  <2>3. CASE UNCHANGED cache
    BY <2>2, <2>3 DEF Shared!vars, cache, Resident
  <2>4. CASE waiting # {} /\ refs' = [refs EXCEPT ![c.key] = @ + Cardinality(waiting)]
    <3>1. PICK t \in waiting : TRUE
      BY <2>4
    <3>2. t \in Ticket /\ c.key \in keys[t] /\ state[t] = "Loading"
      BY <2>2, <3>1 DEF Handled, HandlesOK, TypeOK, Live
    <3>3. c.key \in Shared!KeysFor(Shared!In("Loading"))
      BY <3>2 DEF Shared!KeysFor, Shared!In
    <3>4. IsFiniteSet(waiting) /\ Cardinality(waiting) \in Nat /\ Cardinality(waiting) # 0
      BY <2>2, <2>4, TicketsFinite, FS_EmptySet DEF Handled, TypeOK
    <3>5. refs \in [Key -> Nat]
      BY DEF Handled, TypeOK
    <3>6. \A k \in Key : refs'[k] = IF k = c.key THEN refs[k] + Cardinality(waiting) ELSE refs[k]
      BY <2>4, <3>5
    <3> HIDE DEF c, waiting
    <3>7. \A k \in Key : refs'[k] > 0 <=> refs[k] > 0 \/ k = c.key
      BY <3>4, <3>5, <3>6
    <3>8. Resident' = Resident \cup {c.key}
      BY <2>2, <3>7 DEF Resident
    <3> QED
      BY <2>2, <3>3, <3>8 DEF Shared!Next, Shared!Arrive
  <2> QED
    BY <2>2, <2>3, <2>4 DEF Apply, Discard
<1>2. CASE PollPublish
  <2> DEFINE failed == failing \cap Loading
             arrived == {t \in Loading \ failed : pending[t] = {} /\ keys[t] \subseteq Resident}
  <2>1. /\ failed \in SUBSET (Loading \ arrived) /\ arrived \in SUBSET Loading
        /\ {} \in SUBSET {t \in Ticket : state[t] \notin {"None", "Released"}}
    OBVIOUS
  <2>2. /\ state' = [t \in Ticket |-> IF t \in failed THEN "Failed"
                                      ELSE IF t \in arrived THEN "Ready" ELSE state[t]]
        /\ DropHandles(failed)
    BY <1>2 DEF PollPublish, Detach
  <2>3. /\ state' = [t \in Ticket |-> IF t \in {} THEN "Released" ELSE IF t \in failed THEN "Failed"
                                      ELSE IF t \in arrived THEN "Ready" ELSE state[t]]
        /\ keys' = [t \in Ticket |-> IF t \in failed \cup {} THEN {} ELSE keys[t]]
        /\ \A t \in Ticket \ (failed \cup {}) : pending'[t] = pending[t]
    BY <2>2 DEF DropHandles
  <2> HIDE DEF failed, arrived
  <2> QED
    BY <2>1, <2>3, TurnStep
<1>3. CASE PollLost
  BY <1>3, FailedStep DEF PollLost
<1>4. CASE ShutdownDone
  BY <1>4 DEF ShutdownDone, Shared!vars, tickets, cache, Resident
<1> QED
  BY <1>1, <1>2, <1>3, <1>4 DEF Poll

\* The loader implements SharedAssets.
THEOREM SharedAssetsImplemented == Spec => ImplementsSharedAssets
<1>1. Init => Shared!Init
  BY DEF Init, Shared!Init, Resident
<1>2. Handled /\ Handled' /\ [Next]_vars => [Shared!Next]_(Shared!vars)
  <2> SUFFICES ASSUME Handled, Handled', [Next]_vars PROVE [Shared!Next]_(Shared!vars)
    OBVIOUS
  <2>1. CASE Thread \/ UNCHANGED vars
    <3>1. UNCHANGED <<tickets, cache>>
      BY <2>1 DEF Thread, ThreadTakes, ThreadDecodes, ThreadSends, ThreadHanded, ThreadStops, ThreadPanics,
         ThreadDropsJobs, ThreadDropsResults, ThreadEnds, vars
    <3> QED
      BY <3>1 DEF Shared!vars, tickets, cache, Resident
  <2> QED
    BY <2>1, CallsRefine, PollsRefine DEF Next
<1> QED
  BY <1>1, <1>2, HandledAlways, PTL DEF Spec, ImplementsSharedAssets, Shared!Spec

-----------------------------------------------------------------------------
(* Work and charges *)

\* No charge comes or goes: an operation may only become retired.
ChargesKept ==
  /\ lastOperation' = lastOperation
  /\ operations' \in [Key -> Nat]
  /\ \A k \in Key : operations'[k] \in {0, operations[k]}
  /\ retired' = retired \cup {operations[k] : k \in {l \in Current : operations'[l] = 0}}

LEMMA LeaveKeeps ==
  ASSUME TypeOK, NEW S \in SUBSET Ticket, LeaveOperations(S), lastOperation' = lastOperation
  PROVE  ChargesKept
<1>1. operations' \in [Key -> Nat]
  BY LeaveOperationsType
<1>2. \A k \in Current : operations'[k] = 0 <=> k \in Abandoned(S)
  BY DEF LeaveOperations, Current, Abandoned
<1>3. Abandoned(S) = {l \in Current : operations'[l] = 0}
  BY <1>2 DEF Abandoned
<1>4. \A k \in Key : operations'[k] \in {0, operations[k]}
  BY DEF LeaveOperations
<1> QED
  BY <1>1, <1>3, <1>4 DEF LeaveOperations, ChargesKept

LEMMA UnchangedKeeps ==
  ASSUME TypeOK, UNCHANGED <<operations, retired, lastOperation>>
  PROVE  ChargesKept
<1>1. {l \in Current : operations'[l] = 0} = {}
  BY DEF Current
<1> QED
  BY <1>1 DEF ChargesKept, TypeOK

LEMMA KeptCharges ==
  ASSUME TypeOK, IdsOK, ChargesKept
  PROVE  /\ IdsOK' /\ Charged' = Charged
         /\ \A w : w.key \in Key /\ WorkOK(w)
                   => w.id \in retired' \/ (w.id # 0 /\ operations'[w.key] = w.id)
<1> DEFINE gone == {l \in Current : operations'[l] = 0}
<1>1. Current' = Current \ gone /\ \A k \in Current' : operations'[k] = operations[k]
  BY DEF ChargesKept, Current, TypeOK
<1>2. Charged' = Charged
  <2>1. {operations'[k] : k \in Current'} = {operations[k] : k \in Current \ gone}
    BY <1>1
  <2> QED
    BY <2>1 DEF Charged, ChargesKept
<1>3. IdsOK'
  <2>1. retired' \subseteq 1 .. lastOperation'
    BY DEF ChargesKept, IdsOK
  <2>2. \A k \in Current' : operations'[k] \in (1 .. lastOperation') \ retired'
    BY <1>1 DEF ChargesKept, IdsOK
  <2>3. \A k, l \in Current' : operations'[k] = operations'[l] => k = l
    BY <1>1 DEF IdsOK
  <2> QED
    BY <2>1, <2>2, <2>3 DEF IdsOK
<1>4. ASSUME NEW w, w.key \in Key, WorkOK(w)
      PROVE  w.id \in retired' \/ (w.id # 0 /\ operations'[w.key] = w.id)
  BY <1>4 DEF ChargesKept, WorkOK, Current
<1> QED
  BY <1>2, <1>3, <1>4

LEMMA PipelineTypes ==
  ASSUME TypeOK
  PROVE  /\ \A w \in queued : w.key \in Key /\ w.id \in Nat
         /\ InHand # {} => thread \in {"Decoding", "Sending"} /\ work.key \in Key /\ work.id \in Nat
                           /\ InHand = {work.id}
         /\ \A i \in DOMAIN completed : completed[i].key \in Key /\ completed[i].id \in Nat
<1>1. \A w \in queued : w.key \in Key /\ w.id \in Nat
  BY DEF TypeOK, Work
<1>2. InHand # {} => thread \in {"Decoding", "Sending"} /\ work.key \in Key /\ work.id \in Nat
                    /\ InHand = {work.id}
  BY DEF TypeOK, Work, Result, InHand
<1>3. \A i \in DOMAIN completed : completed[i] \in Result
  BY DEF TypeOK
<1> QED
  BY <1>1, <1>2, <1>3 DEF Result

\* Calls that leave the worker's hands alone and keep all charges.
LEMMA KeptWorked ==
  ASSUME TypeOK, IdsOK, PipelineOK, WithinBudget, ChargesKept,
         UNCHANGED <<queued, completed, thread, work, limit>>, dropped' = dropped
  PROVE  IdsOK' /\ PipelineOK' /\ WithinBudget' /\ Charged' = Charged
<1>1. IdsOK' /\ Charged' = Charged
  BY KeptCharges
<1>2. WithinBudget'
  BY <1>1 DEF WithinBudget
<1>3. InPipeline' = InPipeline /\ InHand' = InHand /\ OnceEach' = OnceEach
  BY DEF InPipeline, InHand, Queued, Completed, OnceEach
<1>4. PipelineOK'
  <2>1. ~dropped => \A w \in queued : WorkOK(w)'
    BY KeptCharges, PipelineTypes DEF PipelineOK, WorkOK
  <2>2. ~dropped /\ InHand # {} => WorkOK(work)'
    BY KeptCharges, PipelineTypes DEF PipelineOK, WorkOK
  <2>3. ~dropped => \A i \in DOMAIN completed : WorkOK(completed[i])'
    BY KeptCharges, PipelineTypes DEF PipelineOK, WorkOK
  <2>4. lastOperation' = lastOperation
    BY DEF ChargesKept
  <2> QED
    BY <1>1, <1>3, <2>1, <2>2, <2>3, <2>4 DEF PipelineOK
<1> QED
  BY <1>1, <1>2, <1>4

\* A thread that has ended, or never was, has nothing in its hands.
LEMMA EndedHandsEmpty ==
  ASSUME ThreadOK, thread \in {"None", "Finished"}
  PROVE  queued = {} /\ InHand = {}
BY DEF ThreadOK, InHand

\* All charges may be returned when nothing is in the worker's hands.
LEMMA ForgetWorked ==
  ASSUME TypeOK, PipelineOK, ForgetCharges, lastOperation' = lastOperation, completed' = <<>>,
         UNCHANGED <<queued, thread, work, limit>>,
         dropped' \/ (queued = {} /\ InHand = {})
  PROVE  IdsOK' /\ PipelineOK' /\ WithinBudget' /\ Charged' = {}
<1>1. Current' = {} /\ Charged' = {} /\ retired' = {}
  BY DEF ForgetCharges, Current, Charged
<1>2. IdsOK'
  BY <1>1 DEF IdsOK
<1>3. WithinBudget'
  <2>1. IsFiniteSet({}) /\ Cardinality({}) = 0 /\ limit \in Nat
    BY FS_EmptySet, StreamingAssumption DEF TypeOK
  <2> QED
    BY <1>1, <2>1 DEF WithinBudget
<1>4. Completed' = {} /\ InHand' = InHand /\ Queued' = Queued /\ DOMAIN completed' = {}
  BY DEF Completed, InHand, Queued
<1>5. InPipeline' \subseteq 1 .. lastOperation' /\ OnceEach'
  BY <1>4 DEF InPipeline, PipelineOK, OnceEach
<1>6. PipelineOK'
  BY <1>1, <1>4, <1>5 DEF PipelineOK
<1> QED
  BY <1>1, <1>2, <1>3, <1>6

LEMMA PollTakeWorked ==
  ASSUME Worked, PollTake, limit' = limit
  PROVE  Worked'
<1> DEFINE c == Head(completed)
<1> USE DEF Worked
<1>1. TypeOK'
  BY PollsType DEF Poll
<1>2. /\ completed \in Seq(Result) /\ completed # <<>> /\ completed' = Tail(completed)
      /\ Apply(c) /\ ~dropped
      /\ UNCHANGED <<lastOperation, worker, stopped, closing, dropped, thread, work, jobsOpen, queued>>
  BY DEF PollTake, Polls, TypeOK, inThread
<1>3. /\ c \in Result /\ c = completed[1] /\ 1 \in DOMAIN completed
      /\ DOMAIN completed' = 1 .. Len(completed) - 1 /\ Len(completed) \in Nat
      /\ DOMAIN completed = 1 .. Len(completed)
      /\ \A i \in DOMAIN completed' : i + 1 \in DOMAIN completed /\ completed'[i] = completed[i + 1]
  BY <1>2
<1>4. c.key \in Key /\ c.id \in Nat /\ WorkOK(c) /\ c.id # 0 /\ c.id \in Completed
  BY <1>2, <1>3 DEF Result, PipelineOK, InPipeline, Completed
\* One charge goes.
<1>5. /\ Charged' = Charged \ {c.id} /\ IdsOK'
      /\ \A w : w.id # c.id /\ w.key \in Key /\ WorkOK(w)
                => w.id \in retired' \/ (w.id # 0 /\ operations'[w.key] = w.id)
  <2>1. CASE c.id \in retired
    <3>1. retired' = retired \ {c.id} /\ operations' = operations
      BY <1>2, <2>1 DEF Apply, Discard
    <3>2. Current' = Current /\ \A k \in Current : operations[k] # c.id
      BY <2>1, <3>1 DEF Current, IdsOK
    <3>3. Charged' = Charged \ {c.id}
      BY <3>1, <3>2 DEF Charged
    <3>4. IdsOK'
      BY <1>2, <3>1, <3>2 DEF IdsOK
    <3> QED
      BY <3>1, <3>3, <3>4 DEF WorkOK
  <2>2. CASE c.id \notin retired
    <3>1. /\ operations[c.key] = c.id /\ c.key \in Current
      BY <1>4, <2>2 DEF WorkOK, Current
    <3>2. retired' = retired /\ operations' = [operations EXCEPT ![c.key] = 0]
      BY <1>2, <2>2, <3>1 DEF Apply
    <3>3. /\ Current' = Current \ {c.key}
          /\ \A k \in Current' : operations'[k] = operations[k] /\ operations[k] # c.id
      BY <3>1, <3>2 DEF Current, TypeOK, IdsOK
    <3>4. Charged' = Charged \ {c.id}
      <4>1. {operations'[k] : k \in Current'} = {operations[k] : k \in Current} \ {c.id}
        BY <3>1, <3>3
      <4> QED
        BY <2>2, <3>2, <4>1 DEF Charged
    <3>5. IdsOK'
      <4>1. retired' \subseteq 1 .. lastOperation'
        BY <1>2, <3>2 DEF IdsOK
      <4>2. \A k \in Current' : operations'[k] \in (1 .. lastOperation') \ retired'
        BY <1>2, <3>2, <3>3 DEF IdsOK
      <4>3. \A k, l \in Current' : operations'[k] = operations'[l] => k = l
        BY <3>3 DEF IdsOK
      <4> QED
        BY <4>1, <4>2, <4>3 DEF IdsOK
    <3>6. ASSUME NEW w, w.id # c.id, w.key \in Key, WorkOK(w)
          PROVE  w.id \in retired' \/ (w.id # 0 /\ operations'[w.key] = w.id)
      BY <3>1, <3>2, <3>6 DEF WorkOK, TypeOK
    <3> QED
      BY <3>4, <3>5, <3>6
  <2> QED
    BY <2>1, <2>2
\* Its work has left the pipeline.
<1>6. /\ Queued' = Queued /\ InHand' = InHand /\ Completed' = Completed \ {c.id}
      /\ c.id \notin Queued /\ c.id \notin InHand
  <2>1. c.id \notin Queued /\ c.id \notin InHand
    BY <1>4 DEF PipelineOK, OnceEach
  <2>2. Queued' = Queued /\ InHand' = InHand
    BY <1>2 DEF Queued, InHand
  <2>3. ASSUME NEW x \in Completed' PROVE x \in Completed \ {c.id}
    <3>1. PICK i \in DOMAIN completed' : x = completed'[i].id
      BY <2>3 DEF Completed
    <3>2. i + 1 \in DOMAIN completed /\ x = completed[i + 1].id /\ i + 1 # 1
      BY <1>3, <3>1
    <3> QED
      BY <1>3, <3>2 DEF Completed, PipelineOK, OnceEach
  <2>4. ASSUME NEW x \in Completed \ {c.id} PROVE x \in Completed'
    <3>1. PICK i \in DOMAIN completed : x = completed[i].id
      BY <2>4 DEF Completed
    <3>2. i # 1 /\ i - 1 \in DOMAIN completed'
      BY <1>3, <2>4, <3>1
    <3>3. completed'[i - 1] = completed[i]
      BY <1>3, <3>2
    <3> QED
      BY <3>1, <3>2, <3>3 DEF Completed
  <2> QED
    BY <2>1, <2>2, <2>3, <2>4
<1>7. OnceEach'
  <2>1. \A i, j \in DOMAIN completed' : completed'[i].id = completed'[j].id => i = j
    <3> SUFFICES ASSUME NEW i \in DOMAIN completed', NEW j \in DOMAIN completed',
                        completed'[i].id = completed'[j].id
                 PROVE  i = j
      OBVIOUS
    <3>1. i + 1 = j + 1
      BY <1>3 DEF PipelineOK, OnceEach
    <3> QED
      BY <1>3, <3>1
  <2>2. \A v, w \in queued' : v.id = w.id => v = w
    BY <1>2 DEF PipelineOK, OnceEach
  <2> QED
    BY <1>6, <2>1, <2>2 DEF PipelineOK, OnceEach
<1>8. PipelineOK'
  <2>1. \A w \in queued' : WorkOK(w)'
    <3> SUFFICES ASSUME NEW w \in queued PROVE WorkOK(w)'
      BY <1>2
    <3>1. w.id # c.id /\ w.key \in Key /\ WorkOK(w)
      BY <1>2, <1>6, PipelineTypes DEF Queued, PipelineOK
    <3> QED
      BY <1>5, <3>1 DEF WorkOK
  <2>2. InHand' # {} => WorkOK(work)'
    <3> SUFFICES ASSUME InHand # {} PROVE WorkOK(work)'
      BY <1>6
    <3>1. work.id # c.id /\ work.key \in Key /\ WorkOK(work)
      BY <1>2, <1>6, PipelineTypes DEF PipelineOK
    <3> QED
      BY <1>2, <1>5, <3>1 DEF WorkOK
  <2>3. \A i \in DOMAIN completed' : WorkOK(completed[i])'
    <3> SUFFICES ASSUME NEW i \in DOMAIN completed' PROVE WorkOK(completed[i])'
      OBVIOUS
    <3> DEFINE w == completed[i + 1]
    <3>1. i + 1 \in DOMAIN completed /\ completed'[i] = w /\ i + 1 # 1
      BY <1>3
    <3>2. w.id # c.id /\ w.key \in Key /\ WorkOK(w)
      BY <1>2, <1>3, <3>1, PipelineTypes DEF PipelineOK, OnceEach
    <3>3. w.id \in retired' \/ (w.id # 0 /\ operations'[w.key] = w.id)
      BY <1>5, <3>2
    <3> QED
      BY <3>1, <3>3 DEF WorkOK
  <2>4. InPipeline' \subseteq 1 .. lastOperation'
    BY <1>2, <1>6 DEF PipelineOK, InPipeline
  <2>5. thread' \in {"Waiting", "Decoding", "Sending", "Handing"} => Charged' \subseteq InPipeline'
    BY <1>2, <1>5, <1>6 DEF PipelineOK, InPipeline
  <2> QED
    BY <1>7, <2>1, <2>2, <2>3, <2>4, <2>5 DEF PipelineOK
<1>9. WithinBudget'
  <2>1. IsFiniteSet(Charged') /\ Cardinality(Charged') <= Cardinality(Charged)
        /\ Cardinality(Charged) \in Nat /\ Cardinality(Charged') \in Nat
    BY <1>5, FS_Subset, FS_CardinalityType DEF WithinBudget
  <2> QED
    BY <2>1, StreamingAssumption DEF WithinBudget, TypeOK
<1>10. ThreadOK'
  BY <1>2 DEF ThreadOK
<1> QED
  BY <1>1, <1>5, <1>8, <1>9, <1>10

\* The thread moves work on, or ends.
LEMMA ThreadWorked ==
  ASSUME Worked, Thread \/ UNCHANGED vars
  PROVE  Worked'
<1> USE DEF Worked
<1>1. TypeOK'
  BY ThreadType, UnchangedType
<1>2. /\ UNCHANGED <<operations, retired, lastOperation, worker, stopped, closing, dropped, limit>>
      /\ Charged' = Charged /\ IdsOK' /\ WithinBudget'
      /\ \A w : WorkOK(w) => w.id \in retired' \/ (w.id # 0 /\ operations'[w.key] = w.id)
  <2>1. UNCHANGED <<charges, host>>
    BY DEF Thread, ThreadTakes, ThreadDecodes, ThreadSends, ThreadHanded, ThreadStops, ThreadPanics,
       ThreadDropsJobs, ThreadDropsResults, ThreadEnds, vars
  <2>2. UNCHANGED <<operations, retired, lastOperation, worker, stopped, closing, dropped, limit>>
    BY <2>1 DEF charges, host, Thread, vars
  <2>3. Charged' = Charged /\ IdsOK'
    BY <2>2 DEF Charged, Current, IdsOK
  <2> QED
    BY <2>2, <2>3 DEF WithinBudget, WorkOK
<1>3. CASE ThreadTakes
  <2>1. PICK w \in queued : work' = w /\ queued' = queued \ {w}
    BY <1>3 DEF ThreadTakes
  <2>2. /\ thread = "Waiting" /\ thread' = "Decoding" /\ completed' = completed
        /\ jobsOpen' = jobsOpen
    BY <1>3 DEF ThreadTakes
  <2>3. InHand = {} /\ InHand' = {w.id} /\ Queued' = Queued \ {w.id} /\ Completed' = Completed
        /\ w.id \in Queued
    BY <2>1, <2>2 DEF InHand, Queued, Completed, PipelineOK, OnceEach
  <2>4. InPipeline' = InPipeline
    BY <2>3 DEF InPipeline
  <2>5. OnceEach'
    BY <2>1, <2>2, <2>3 DEF PipelineOK, OnceEach
  <2>6. ~dropped => \A v \in queued' : WorkOK(v)'
    BY <1>2, <2>1 DEF PipelineOK, WorkOK
  <2>7. ~dropped => WorkOK(work)'
    BY <1>2, <2>1 DEF PipelineOK, WorkOK
  <2>8. ~dropped => \A i \in DOMAIN completed' : WorkOK(completed[i])'
    BY <1>2, <2>2 DEF PipelineOK, WorkOK
  <2>9. PipelineOK'
    BY <1>2, <2>2, <2>4, <2>5, <2>6, <2>7, <2>8 DEF PipelineOK
  <2>10. ThreadOK'
    BY <1>2, <2>1, <2>2 DEF ThreadOK
  <2> QED
    BY <1>1, <1>2, <2>9, <2>10
<1>4. CASE ThreadDecodes
  <2>1. /\ thread = "Decoding" /\ thread' = "Sending" /\ work'.id = work.id /\ work'.key = work.key
        /\ UNCHANGED <<queued, completed, jobsOpen>>
    BY <1>4 DEF ThreadDecodes
  <2>2. InHand # {} /\ InHand' = InHand /\ InPipeline' = InPipeline /\ OnceEach'
    BY <2>1 DEF InHand, InPipeline, Queued, Completed, PipelineOK, OnceEach
  <2>3. PipelineOK'
    <3>1. ~dropped => \A v \in queued' : WorkOK(v)'
      BY <1>2, <2>1 DEF PipelineOK, WorkOK
    <3>2. ~dropped => WorkOK(work)'
      BY <1>2, <2>1, <2>2 DEF PipelineOK, WorkOK
    <3>3. ~dropped => \A i \in DOMAIN completed' : WorkOK(completed[i])'
      BY <1>2, <2>1 DEF PipelineOK, WorkOK
    <3> QED
      BY <1>2, <2>1, <2>2, <3>1, <3>2, <3>3 DEF PipelineOK
  <2>4. ThreadOK'
    BY <1>2, <2>1 DEF ThreadOK
  <2> QED
    BY <1>1, <1>2, <2>3, <2>4
<1>5. CASE ThreadSends
  <2>1. /\ thread = "Sending" /\ thread' \in {"Waiting", "Handing", "Leaving"}
        /\ thread' \in {"Waiting", "Handing"} => worker
        /\ UNCHANGED <<queued, jobsOpen>> /\ InHand = {work.id} /\ InHand' = {} /\ Queued' = Queued
    BY <1>5 DEF ThreadSends, GoesOn, InHand, Queued
  <2>2. ThreadOK'
    BY <1>2, <2>1 DEF ThreadOK
  <2>3. ~dropped => \A v \in queued' : WorkOK(v)'
    BY <1>2, <2>1 DEF PipelineOK, WorkOK
  <2>4. CASE ~worker /\ completed' = completed
    <3>1. Completed' = Completed /\ thread' = "Leaving"
      BY <1>5, <2>4 DEF Completed, ThreadSends, GoesOn
    <3>2. InPipeline' \subseteq InPipeline /\ OnceEach'
      BY <2>1, <2>4, <3>1 DEF InPipeline, PipelineOK, OnceEach
    <3>3. ~dropped => \A i \in DOMAIN completed' : WorkOK(completed[i])'
      BY <1>2, <2>4 DEF PipelineOK, WorkOK
    <3>4. PipelineOK'
      BY <1>2, <2>1, <2>3, <3>1, <3>2, <3>3 DEF PipelineOK
    <3> QED
      BY <1>1, <1>2, <2>2, <3>4
  <2>5. CASE worker /\ completed' = Append(completed, work)
    <3> DEFINE n == Len(completed) + 1
    <3>1. /\ completed \in Seq(Result) /\ Len(completed) \in Nat /\ work \in Result
          /\ DOMAIN completed = 1 .. Len(completed) /\ DOMAIN completed' = 1 .. n
          /\ completed'[n] = work /\ \A i \in DOMAIN completed : completed'[i] = completed[i]
          /\ DOMAIN completed' = DOMAIN completed \cup {n} /\ n \notin DOMAIN completed
      BY <2>1, <2>5 DEF TypeOK
    <3> HIDE DEF n
    <3>2. Completed' = Completed \cup {work.id} /\ work.id \notin Completed /\ work.id \notin Queued
      <4>1. Completed' = {completed'[i].id : i \in DOMAIN completed \cup {n}}
        BY <3>1 DEF Completed
      <4>2. Completed' = {completed'[i].id : i \in DOMAIN completed} \cup {completed'[n].id}
        BY <4>1
      <4>3. {completed'[i].id : i \in DOMAIN completed} = Completed
        BY <3>1 DEF Completed
      <4> QED
        BY <2>1, <3>1, <4>2, <4>3 DEF PipelineOK, OnceEach
    <3>3. InPipeline' = InPipeline
      BY <2>1, <3>2 DEF InPipeline
    <3>4. \A i, j \in DOMAIN completed' : completed'[i].id = completed'[j].id => i = j
      <4>1. \A i \in DOMAIN completed : completed'[i].id \in Completed
        BY <3>1 DEF Completed
      <4>2. \A i, j \in DOMAIN completed : completed'[i].id = completed'[j].id => i = j
        BY <3>1 DEF PipelineOK, OnceEach
      <4> QED
        BY <3>1, <3>2, <4>1, <4>2
    <3>5. OnceEach'
      BY <2>1, <3>2, <3>4 DEF PipelineOK, OnceEach
    <3>6. ~dropped => WorkOK(work) /\ \A i \in DOMAIN completed : WorkOK(completed[i])
      BY <2>1 DEF PipelineOK
    <3>7. ~dropped => \A i \in DOMAIN completed' : WorkOK(completed[i])'
      BY <1>2, <3>1, <3>6 DEF WorkOK
    <3>8. PipelineOK'
      BY <1>2, <2>1, <2>3, <3>3, <3>5, <3>7 DEF PipelineOK
    <3> QED
      BY <1>1, <1>2, <2>2, <3>8
  <2> QED
    BY <1>5, <2>4, <2>5 DEF ThreadSends
<1>6. CASE ThreadStops \/ ThreadPanics \/ ThreadDropsJobs \/ ThreadDropsResults \/ ThreadEnds
  <2>1. /\ thread \in {"Waiting", "Decoding", "Leaving"} /\ thread' \in {"Leaving", "Finished"}
        /\ completed' = completed /\ queued' \subseteq queued
        /\ queued' = {} \/ (jobsOpen' = jobsOpen /\ queued' = queued)
        /\ thread' = "Finished" => ~jobsOpen'
    <3>1. CASE ThreadStops
      BY <3>1 DEF ThreadStops
    <3>2. CASE ThreadPanics
      BY <3>2 DEF ThreadPanics
    <3>3. CASE ThreadDropsJobs
      BY <3>3 DEF ThreadDropsJobs
    <3>4. CASE ThreadDropsResults
      BY <3>4 DEF ThreadDropsResults
    <3>5. CASE ThreadEnds
      BY <3>5 DEF ThreadEnds
    <3> QED
      BY <1>6, <3>1, <3>2, <3>3, <3>4, <3>5
  <2>2. InHand' = {} /\ Queued' \subseteq Queued /\ Completed' = Completed
    BY <2>1 DEF InHand, Queued, Completed
  <2>3. InPipeline' \subseteq InPipeline /\ OnceEach'
    BY <2>1, <2>2 DEF InPipeline, PipelineOK, OnceEach
  <2>4. PipelineOK'
    <3>1. ~dropped => \A v \in queued' : WorkOK(v)'
      BY <1>2, <2>1 DEF PipelineOK, WorkOK
    <3>2. ~dropped => \A i \in DOMAIN completed' : WorkOK(completed[i])'
      BY <1>2, <2>1 DEF PipelineOK, WorkOK
    <3> QED
      BY <1>2, <2>1, <2>2, <2>3, <3>1, <3>2 DEF PipelineOK
  <2>5. ThreadOK'
    BY <1>2, <2>1 DEF ThreadOK
  <2> QED
    BY <1>1, <1>2, <2>4, <2>5
<1>7. CASE UNCHANGED vars
  <2>1. UNCHANGED <<queued, completed, thread, work, jobsOpen>>
    BY <1>7 DEF vars, inThread
  <2>2. PipelineOK'
    BY <1>2, <2>1 DEF PipelineOK, WorkOK, OnceEach, InPipeline, InHand, Queued, Completed
  <2> QED
    BY <1>1, <1>2, <2>1, <2>2 DEF ThreadOK
<1>8. CASE ThreadHanded
  <2>1. /\ thread = "Handing" /\ thread' \in {"Waiting", "Leaving"}
        /\ UNCHANGED <<queued, completed, work, jobsOpen>>
    BY <1>8 DEF ThreadHanded, GoesOn, inThread
  <2>2. InHand' = InHand /\ InPipeline' = InPipeline /\ OnceEach' = OnceEach
    BY <2>1 DEF InPipeline, InHand, Queued, Completed, OnceEach
  <2>3. PipelineOK'
    BY <1>2, <2>1, <2>2 DEF PipelineOK, WorkOK, InHand
  <2> QED
    BY <1>1, <1>2, <2>1, <2>3 DEF ThreadOK
<1> QED
  BY <1>3, <1>4, <1>5, <1>6, <1>7, <1>8 DEF Thread

\* New charges, one id each, stay within the budget that admitted them.
LEMMA BudgetGrows ==
  ASSUME TypeOK, limit' = limit, WithinBudget, NEW more, NEW n \in Nat, NEW last \in Nat,
         more \subseteq last + 1 .. last + n,
         PendingOperations + n <= limit, Charged' = Charged \cup more
  PROVE  WithinBudget'
<1>1. IsFiniteSet(last + 1 .. last + n) /\ Cardinality(last + 1 .. last + n) = n
  BY FS_Interval
<1>2. IsFiniteSet(more) /\ Cardinality(more) <= n
  BY <1>1, FS_Subset
<1>3. /\ IsFiniteSet(Charged) /\ IsFiniteSet(Charged \cap more) /\ IsFiniteSet(Charged \cup more)
      /\ Cardinality(Charged \cup more)
           = Cardinality(Charged) + Cardinality(more) - Cardinality(Charged \cap more)
  BY <1>2, FS_Union, FS_Intersection DEF WithinBudget
<1>4. {Cardinality(Charged), Cardinality(more), Cardinality(Charged \cap more),
       Cardinality(Charged \cup more), limit} \subseteq Nat
  BY <1>2, <1>3, FS_CardinalityType, StreamingAssumption DEF TypeOK
<1>5. Cardinality(Charged \cup more) <= limit
  BY <1>2, <1>3, <1>4 DEF PendingOperations
<1> QED
  BY <1>3, <1>5 DEF WithinBudget

LEMMA RequestWorked ==
  ASSUME Worked, NEW a \in Asset, Request(a), limit' = limit
  PROVE  Worked'
<1> DEFINE new == NewSpecs(KeysOf(a))
           n == Cardinality(new)
           id == Numbering(new)
           ids == {id[k] : k \in new}
           sent == {[id |-> id[k], key |-> k] : k \in new}
<1> USE DEF Worked
<1>1. TypeOK'
  BY RequestType
<1>2. /\ new \subseteq Key /\ new \cap Current = {} /\ n \in Nat /\ lastOperation \in Nat
      /\ \A k \in new : id[k] \in lastOperation + 1 .. lastOperation + n
      /\ \A k, l \in new : id[k] = id[l] => k = l
  <2>1. new \in SUBSET Key /\ lastOperation \in Nat /\ new \cap Current = {}
    BY KeysOfType DEF NewSpecs, Current, TypeOK
  <2>2. /\ n \in Nat /\ id \in [new -> lastOperation + 1 .. lastOperation + n]
        /\ \A k, l \in new : id[k] = id[l] => k = l
    BY <2>1, NumberingFresh
  <2> QED
    BY <2>1, <2>2
<1>3. /\ operations' = [k \in Key |-> IF k \in new THEN id[k] ELSE operations[k]]
      /\ queued' = queued \cup sent /\ lastOperation' = lastOperation + n
      /\ ~dropped /\ ~stopped /\ worker' /\ thread' = IF worker THEN thread ELSE "Waiting"
      /\ PendingOperations + n <= limit /\ (new = {} \/ jobsOpen)
      /\ UNCHANGED <<retired, completed, work, dropped, stopped, closing, jobsOpen>>
  BY DEF Request, Idle, Admits, SendFails, StartWorker
<1> HIDE DEF new, n, id
<1>4. /\ Current' = Current \cup new
      /\ \A k \in new : operations'[k] = id[k]
      /\ \A k \in Current : operations'[k] = operations[k]
  BY <1>2, <1>3 DEF Current
<1>5. Charged' = Charged \cup ids
  <2>1. {operations'[k] : k \in Current'} = {operations[k] : k \in Current} \cup ids
    BY <1>4
  <2> QED
    BY <1>3, <2>1 DEF Charged
<1>6. IdsOK'
  <2>1. /\ retired' \subseteq 1 .. lastOperation' /\ retired' \subseteq 1 .. lastOperation
    BY <1>2, <1>3 DEF IdsOK
  <2>2. /\ \A k \in Current : operations'[k] \in 1 .. lastOperation
        /\ \A k \in new : operations'[k] \in lastOperation + 1 .. lastOperation'
    BY <1>2, <1>3, <1>4 DEF IdsOK
  <2>3. \A k \in Current' : operations'[k] \in (1 .. lastOperation') \ retired'
    BY <1>2, <1>3, <1>4, <2>1, <2>2 DEF IdsOK
  <2>4. ASSUME NEW k \in Current', NEW l \in Current', operations'[k] = operations'[l] PROVE k = l
    <3>1. CASE k \in new /\ l \in new
      BY <1>2, <1>4, <2>4, <3>1
    <3>2. CASE k \in Current /\ l \in Current
      BY <1>4, <2>4, <3>2 DEF IdsOK
    <3>3. ASSUME NEW i \in new, NEW j \in Current PROVE operations'[i] # operations'[j]
      BY <1>2, <2>2
    <3> QED
      BY <1>4, <2>4, <3>1, <3>2, <3>3
  <2> QED
    BY <2>1, <2>3, <2>4 DEF IdsOK
<1>7. /\ Queued' = Queued \cup ids /\ InHand' = InHand /\ Completed' = Completed
      /\ ids \cap InPipeline = {} /\ ids \subseteq 1 .. lastOperation'
      /\ InPipeline \subseteq 1 .. lastOperation'
  <2>1. Queued' = Queued \cup ids
    <3>1. {w.id : w \in sent} = ids
      <4>1. \A w \in sent : w.id \in ids
        OBVIOUS
      <4>2. \A k \in new : [id |-> id[k], key |-> k] \in sent /\ [id |-> id[k], key |-> k].id = id[k]
        OBVIOUS
      <4>3. \A i \in ids : \E w \in sent : w.id = i
        BY <4>2
      <4> QED
        BY <4>1, <4>3
    <3>2. {w.id : w \in queued \cup sent} = {w.id : w \in queued} \cup {w.id : w \in sent}
      OBVIOUS
    <3> QED
      BY <1>3, <3>1, <3>2 DEF Queued
  <2>2. Completed' = Completed
    BY <1>3 DEF Completed
  <2>3. InHand' = InHand
    BY <1>3 DEF InHand, ThreadOK
  <2>4. InPipeline \subseteq 1 .. lastOperation
    BY DEF PipelineOK
  <2> QED
    BY <1>2, <1>3, <2>1, <2>2, <2>3, <2>4
<1>8. OnceEach'
  <2>1. \A v, w \in queued' : v.id = w.id => v = w
    <3>1. \A v, w \in queued : v.id = w.id => v = w
      BY DEF PipelineOK, OnceEach
    <3>2. \A v, w \in sent : v.id = w.id => v = w
      BY <1>2
    <3>3. ASSUME NEW v \in queued, NEW w \in sent PROVE v.id # w.id
      <4>1. v.id \in InPipeline /\ w.id \in ids
        BY DEF InPipeline, Queued
      <4> QED
        BY <1>7, <4>1
    <3> HIDE DEF sent
    <3> QED
      BY <1>3, <3>1, <3>2, <3>3
  <2>2. \A i, j \in DOMAIN completed' : completed'[i].id = completed'[j].id => i = j
    BY <1>3 DEF PipelineOK, OnceEach
  <2>3. ids \cap InHand = {} /\ ids \cap Completed = {}
    BY <1>7 DEF InPipeline
  <2> HIDE DEF ids
  <2> QED
    BY <1>7, <2>1, <2>2, <2>3 DEF PipelineOK, OnceEach
<1>9. PipelineOK'
  <2>1. \A w : w.key \in Key /\ WorkOK(w) => w.id \in retired' \/ (w.id # 0 /\ operations'[w.key] = w.id)
    BY <1>3, <1>4 DEF WorkOK, Current
  <2>2. \A w \in queued' : WorkOK(w)'
    <3>1. \A w \in queued : WorkOK(w)'
      BY <1>3, <2>1, PipelineTypes DEF PipelineOK, WorkOK
    <3>2. \A w \in sent : WorkOK(w)'
      BY <1>2, <1>4 DEF WorkOK
    <3> HIDE DEF sent
    <3> QED
      BY <1>3, <3>1, <3>2
  <2>3. InHand' # {} => WorkOK(work)'
    BY <1>3, <1>7, <2>1, PipelineTypes DEF PipelineOK, WorkOK
  <2>4. \A i \in DOMAIN completed' : WorkOK(completed[i])'
    BY <1>3, <2>1, PipelineTypes DEF PipelineOK, WorkOK
  <2>5. thread' \in {"Waiting", "Decoding", "Sending", "Handing"} => Charged \subseteq InPipeline
    BY <1>3 DEF PipelineOK, ThreadOK
  <2>6. InPipeline' = InPipeline \cup ids
    BY <1>7 DEF InPipeline
  <2> HIDE DEF ids
  <2> QED
    BY <1>5, <1>7, <1>8, <2>2, <2>3, <2>4, <2>5, <2>6 DEF PipelineOK
<1>10. WithinBudget'
  <2>1. ids \subseteq lastOperation + 1 .. lastOperation + n
    BY <1>2
  <2> HIDE DEF ids
  <2> QED
    BY <1>2, <1>3, <1>5, <2>1, BudgetGrows
<1>11. ThreadOK'
  <2>1. new = {} => queued' = queued
    BY <1>3
  <2> QED
    BY <1>3, <2>1 DEF ThreadOK
<1> QED
  BY <1>1, <1>6, <1>9, <1>10, <1>11

LEMMA RequestLostWorked ==
  ASSUME Worked, NEW a \in Asset, RequestLost(a), limit' = limit
  PROVE  Worked'
<1> DEFINE new == NewSpecs(KeysOf(a))
<1> USE DEF Worked
<1>1. TypeOK'
  BY CallsType DEF Call
<1>2. Cardinality(new) \in Nat /\ lastOperation \in Nat
  <2>1. new \in SUBSET Key /\ lastOperation \in Nat
    BY KeysOfType DEF NewSpecs, TypeOK
  <2> QED
    BY <2>1, NumberingFresh
<1>3. PICK sent \in 0 .. Cardinality(new) - 1 :
        /\ \/ jobsOpen /\ thread = "Leaving" /\ jobsOpen' = FALSE /\ queued' = {}
           \/ ~jobsOpen /\ sent = 0 /\ UNCHANGED <<jobsOpen, queued>>
        /\ retired' = retired \cup (lastOperation + 1 .. lastOperation + sent)
        /\ lastOperation' = lastOperation + sent
  BY DEF RequestLost
<1>4. /\ PendingOperations + Cardinality(new) <= limit
      /\ UNCHANGED <<operations, worker, stopped, closing, dropped, thread, work, completed>>
  BY DEF RequestLost, Admits, host
<1> HIDE DEF new
<1> DEFINE ids == lastOperation + 1 .. lastOperation + sent
<1>5. sent \in Nat /\ sent <= Cardinality(new) /\ PendingOperations + sent <= limit
  <2>1. PendingOperations \in Nat /\ limit \in Nat
    BY FS_CardinalityType, StreamingAssumption DEF PendingOperations, WithinBudget, TypeOK
  <2> QED
    BY <1>2, <1>4, <2>1
<1>6. Current' = Current /\ Charged' = Charged \cup ids
  BY <1>3, <1>4 DEF Charged, Current
<1>7. IdsOK'
  BY <1>2, <1>3, <1>4, <1>5, <1>6 DEF IdsOK
<1>8. WithinBudget'
  BY <1>2, <1>5, <1>6, BudgetGrows
<1>9. queued' \subseteq queued /\ InHand' = InHand /\ Completed' = Completed
  BY <1>3, <1>4 DEF InHand, Completed
<1>10. PipelineOK'
  <2>1. InPipeline' \subseteq InPipeline /\ OnceEach'
    BY <1>4, <1>9 DEF InPipeline, Queued, PipelineOK, OnceEach
  <2>2. InPipeline' \subseteq 1 .. lastOperation'
    BY <1>2, <1>3, <1>5, <2>1 DEF PipelineOK
  <2>3. ~dropped' => /\ \A w \in queued' : WorkOK(w)'
                     /\ InHand' # {} => WorkOK(work)'
                     /\ \A i \in DOMAIN completed' : WorkOK(completed[i])'
    BY <1>3, <1>4, <1>9 DEF PipelineOK, WorkOK
  <2>4. thread' \in {"Waiting", "Decoding", "Sending", "Handing"} /\ ~dropped' => Charged' \subseteq InPipeline'
    <3>1. CASE thread = "Leaving"
      BY <1>4, <3>1
    <3>2. CASE sent = 0 /\ queued' = queued
      <4>1. Charged' = Charged
        BY <1>2, <1>6, <3>2
      <4> QED
        BY <1>4, <1>9, <3>2, <4>1 DEF PipelineOK, InPipeline, Queued
    <3> QED
      BY <1>3, <3>1, <3>2
  <2> QED
    BY <2>1, <2>2, <2>3, <2>4 DEF PipelineOK
<1>11. ThreadOK'
  <2>1. worker
    BY DEF RequestLost
  <2> QED
    BY <1>3, <1>4, <2>1 DEF ThreadOK
<1> QED
  BY <1>1, <1>7, <1>8, <1>10, <1>11

LEMMA CallsWorked ==
  ASSUME Worked, Call
  PROVE  Worked'
<1>0. limit' = limit
  BY DEF Call
<1> USE <1>0 DEF Worked
<1>1. TypeOK'
  BY CallsType
<1>2. ASSUME NEW a \in Asset, Request(a) PROVE Worked'
  BY <1>2, RequestWorked
<1>3. ASSUME NEW a \in Asset, RequestLost(a) PROVE Worked'
  BY <1>3, RequestLostWorked
\* Shutdown marks the loader as stopped; other calls touch no flag.
<1>4. ASSUME ChargesKept, UNCHANGED <<queued, completed, thread, work, dropped, worker, jobsOpen>>,
             UNCHANGED <<stopped, closing>> \/ stopped'
      PROVE  Worked'
  <2>1. IdsOK' /\ PipelineOK' /\ WithinBudget' /\ Charged' = Charged
    BY <1>4, KeptWorked
  <2>2. ThreadOK'
    BY <1>4, <2>1 DEF ThreadOK
  <2> QED
    BY <1>1, <2>1, <2>2
<1>5. ASSUME NEW t \in Ticket, Release(t) PROVE Worked'
  <2>1. LeaveOperations({t}) /\ lastOperation' = lastOperation
    BY <1>5 DEF Release, LetGo, Detach
  <2>2. ChargesKept
    BY <2>1, LeaveKeeps
  <2> QED
    BY <1>4, <1>5, <2>2 DEF Release, host, inThread
<1>6. CASE \/ \E t \in Ticket : RetainHandle(t)
           \/ \E a \in Asset : Load(a)
           \/ MountBundle
  <2>1. UNCHANGED <<charges, host, inThread, queued, completed>>
    BY <1>6 DEF RetainHandle, Load, MountBundle
  <2>2. ChargesKept
    BY <2>1, UnchangedKeeps DEF charges
  <2> QED
    BY <1>4, <2>1, <2>2 DEF host, inThread
<1>7. CASE Shutdown \/ UnmountBundle \/ \E a \in Asset : MountPatchIndex(a)
  <2>1. LeaveOperations(Loading) /\ lastOperation' = lastOperation /\ Loading \in SUBSET Ticket
    BY <1>7 DEF Shutdown, UnmountBundle, MountPatchIndex, LetGo, Detach, Loading
  <2>2. ChargesKept
    BY <2>1, LeaveKeeps
  <2> QED
    BY <1>4, <1>7, <2>2 DEF Shutdown, UnmountBundle, MountPatchIndex, host, inThread
<1>8. CASE DropLoader
  <2>1. /\ ForgetCharges /\ lastOperation' = lastOperation /\ completed' = <<>> /\ dropped'
        /\ ~worker' /\ UNCHANGED <<queued, thread, work, jobsOpen, stopped, closing>>
    BY <1>8 DEF DropLoader, inThread
  <2>2. IdsOK' /\ PipelineOK' /\ WithinBudget' /\ Charged' = {}
    BY <2>1, ForgetWorked
  <2>3. ThreadOK'
    BY <2>1, <2>2 DEF ThreadOK
  <2> QED
    BY <1>1, <2>2, <2>3
<1> QED
  BY <1>2, <1>3, <1>5, <1>6, <1>7, <1>8 DEF Call

LEMMA PollsWorked ==
  ASSUME Worked, Poll
  PROVE  Worked'
<1>0. limit' = limit
  BY DEF Poll
<1> USE <1>0 DEF Worked
<1>1. TypeOK'
  BY PollsType
<1>2. CASE PollTake
  BY <1>2, PollTakeWorked
<1>3. ASSUME NEW S \in SUBSET Ticket, LeaveOperations(S),
             UNCHANGED <<lastOperation, queued, completed, thread, work, dropped, worker, jobsOpen>>,
             closing' => closing, stopped => stopped'
      PROVE  Worked'
  <2>1. ChargesKept
    BY <1>3, LeaveKeeps
  <2>2. IdsOK' /\ PipelineOK' /\ WithinBudget' /\ Charged' = Charged
    BY <1>3, <2>1, KeptWorked
  <2>3. ThreadOK'
    BY <1>3, <2>2 DEF ThreadOK
  <2> QED
    BY <1>1, <2>2, <2>3
<1>4. CASE PollPublish
  <2>1. LeaveOperations(failing \cap Loading) /\ failing \cap Loading \in SUBSET Ticket
    BY <1>4 DEF PollPublish, Detach, Loading
  <2>2. /\ UNCHANGED <<lastOperation, queued, completed, thread, work, dropped, worker, jobsOpen>>
        /\ (closing' => closing) /\ stopped' = stopped
    BY <1>4 DEF PollPublish, PollEnds, inThread
  <2> QED
    BY <1>3, <2>1, <2>2
<1>5. ASSUME ForgetCharges, ~worker', stopped', completed' = <<>>, closing' => closing,
             UNCHANGED <<lastOperation, queued, thread, work, dropped, jobsOpen>>,
             dropped \/ thread \in {"None", "Finished"}
      PROVE  Worked'
  <2>1. dropped' \/ (queued = {} /\ InHand = {})
    BY <1>5, EndedHandsEmpty
  <2>2. IdsOK' /\ PipelineOK' /\ WithinBudget' /\ Charged' = {}
    BY <1>5, <2>1, ForgetWorked
  <2>3. ThreadOK'
    BY <1>5, <2>2 DEF ThreadOK
  <2> QED
    BY <1>1, <2>2, <2>3
<1>6. CASE PollLost
  <2>1. /\ UNCHANGED <<lastOperation, queued, completed, thread, work, dropped, jobsOpen>>
        /\ (closing' => closing) /\ stopped' /\ worker /\ completed = <<>>
    BY <1>6 DEF PollLost, PollEnds, Polls, inThread
  <2>2. CASE thread = "Finished" /\ ForgetCharges /\ worker' = FALSE
    BY <1>5, <2>1, <2>2
  <2>3. CASE LeaveOperations(Loading) /\ UNCHANGED worker
    <3>1. Loading \in SUBSET Ticket
      BY DEF Loading
    <3> QED
      BY <1>3, <2>1, <2>3, <3>1
  <2> QED
    BY <1>6, <2>2, <2>3 DEF PollLost
<1>7. CASE ShutdownDone
  <2>1. /\ ForgetCharges /\ ~worker' /\ completed' = <<>> /\ ~closing' /\ stopped' = stopped /\ closing
        /\ UNCHANGED <<lastOperation, queued, thread, work, dropped, jobsOpen>>
        /\ ~worker \/ thread = "Finished"
    BY <1>7 DEF ShutdownDone, inThread
  <2> QED
    BY <1>5, <2>1 DEF ThreadOK
<1> QED
  BY <1>2, <1>4, <1>6, <1>7 DEF Poll

LEMMA WorkedAlways == Spec => []Worked
<1>1. Init => Worked
  <2> SUFFICES ASSUME Init PROVE Worked
    OBVIOUS
  <2>1. TypeOK
    BY InitHandled DEF Handled
  <2>2. Current = {} /\ Charged = {} /\ InPipeline = {} /\ DOMAIN completed = {}
    BY DEF Init, Current, Charged, InPipeline, Queued, InHand, Completed
  <2>3. WithinBudget
    <3>1. IsFiniteSet({}) /\ Cardinality({}) = 0 /\ limit \in Nat
      BY <2>1, FS_EmptySet, StreamingAssumption DEF TypeOK
    <3> QED
      BY <2>2, <3>1 DEF WithinBudget
  <2> QED
    BY <2>1, <2>2, <2>3 DEF Init, Worked, IdsOK, PipelineOK, OnceEach, Queued, InHand, Completed, ThreadOK
<1>2. Worked /\ [Next]_vars => Worked'
  BY CallsWorked, PollsWorked, ThreadWorked DEF Next
<1> QED
  BY <1>1, <1>2, PTL DEF Spec

\* All work in the worker's hands is charged, once, until it is received or
\* the thread has ended, and the charges stay within the budget.
THEOREM WorkIsChargedAlways == Spec => []WorkIsCharged
<1>1. Worked => WorkIsCharged
  <2> SUFFICES ASSUME Worked, ~dropped PROVE InPipeline \subseteq Charged /\ WorkIsCharged
    BY DEF WorkIsCharged
  <2>1. \A w : w.key \in Key /\ WorkOK(w) => w.id \in Charged
    BY DEF WorkOK, Charged, Current
  <2>2. Queued \subseteq Charged
    BY <2>1, PipelineTypes DEF Worked, PipelineOK, Queued
  <2>3. InHand \subseteq Charged
    BY <2>1, PipelineTypes DEF Worked, PipelineOK
  <2>4. Completed \subseteq Charged
    BY <2>1, PipelineTypes DEF Worked, PipelineOK, Completed
  <2> QED
    BY <2>2, <2>3, <2>4 DEF Worked, PipelineOK, InPipeline, WithinBudget, PendingOperations, WorkIsCharged
<1> QED
  BY <1>1, WorkedAlways, PTL
=============================================================================

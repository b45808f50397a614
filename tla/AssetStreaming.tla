--------------------------- MODULE AssetStreaming ---------------------------
(***************************************************************************)
(* How packaged assets reach the game:                                     *)
(* engine_runtime_core/src/runtime_asset_loader.rs (tickets, the shared    *)
(* decoded cache and its reference counts) over                            *)
(* runtime_asset_loader/streaming.rs (one worker thread that reads and     *)
(* decodes, the operations several tickets share, and the poll of the      *)
(* frame loop that publishes what the worker finished).                    *)
(*                                                                         *)
(* A ticket is a root handle with the handles of its dependency closure,   *)
(* which live and die with it.  The loader is used by one thread; a poll   *)
(* is several steps because the worker runs on between its receives.  Of   *)
(* a payload only its identity is kept, and whether it is the worker's.    *)
(* A synchronous load makes a handle for every path that leads to a        *)
(* dependency, the model one for every key: Needs is taken as a tree.      *)
(* The budgets of bytes, edges and handles can only refuse a request, and  *)
(* a refusal changes nothing; so can the reads of other owners that share  *)
(* the budget (RuntimeStorage has them).  The number of operations is kept.*)
(***************************************************************************)
EXTENDS Naturals, Sequences, FiniteSets

CONSTANTS
  MaxTicket,       \* bound: tickets ever made
  Asset,
  Needs,           \* of an asset, its dependency closure: itself and more
  Meshes,          \* assets a synchronous load leaves without a typed payload
  MaxTrouble,      \* bound: patches, unmounts and panics of the worker
  MaxOperations,   \* the largest StreamingBudget::max_operations
  MaxCompletions   \* StreamingBudget::max_completions_per_poll

ASSUME StreamingAssumption ==
  /\ {MaxTicket, MaxTrouble, MaxOperations, MaxCompletions} \subseteq Nat
  /\ MaxOperations > 0 /\ MaxCompletions > 0
  /\ Needs \in [Asset -> SUBSET Asset] /\ \A a \in Asset : a \in Needs[a]
  /\ IsFiniteSet(Asset)

Ticket == 1 .. MaxTicket
Key == Asset \X (0 .. MaxTrouble)
Work == [id : Nat, key : Key]
NoWork == [id |-> 0]

VARIABLES
  state,      \* RuntimeAssetLoadState of each ticket's root, "None" before it is made
  keys,       \* the cache keys its handles hold or wait for
  pending,    \* pending_cache_handles: keys waited for
  failing,    \* tickets with a handle in StreamingState::errors, not settled yet
  issued,     \* tickets made so far
  revision, mounted,   \* the package index and the mount table
  epoch,      \* asset_revision_epoch
  refs,       \* DecodedAsset::ref_count; an entry goes when its count does
  typed,      \* resident keys with the worker's payload
  operations, consumers, retired, lastOperation,   \* the charges
  worker,     \* whether the loader has its Worker: both channel ends, the thread
  stopped,    \* StreamingState::stopped
  taken,      \* results taken by the poll that is running
  closing,    \* inside shutdown_streaming
  dropped,    \* the loader has been dropped
  limit,      \* StreamingBudget::max_operations, set before the first request
  stop,       \* Worker::stop
  thread, work, queued, completed, jobsOpen, resultsOpen, panics

tickets == <<state, keys, pending, failing, issued>>
index == <<revision, mounted, epoch>>
cache == <<refs, typed>>
charges == <<operations, consumers, retired, lastOperation>>
host == <<worker, stopped, taken, closing, dropped>>
inThread == <<thread, work, jobsOpen, resultsOpen, panics>>
vars == <<tickets, index, cache, charges, host, limit, inThread, stop, queued, completed>>

Init ==
  /\ state = [t \in Ticket |-> "None"] /\ keys = [t \in Ticket |-> {}]
  /\ pending = [t \in Ticket |-> {}] /\ failing = {} /\ issued = 0
  /\ revision = [a \in Asset |-> 0] /\ mounted = TRUE /\ epoch = 0
  /\ refs = [k \in Key |-> 0] /\ typed = {}
  /\ operations = [k \in Key |-> 0] /\ consumers = [k \in Key |-> {}]
  /\ retired = {} /\ lastOperation = 0
  /\ worker = FALSE /\ stopped = FALSE /\ taken = 0
  /\ closing = FALSE /\ dropped = FALSE /\ limit \in 1 .. MaxOperations
  /\ thread = "None" /\ work = NoWork /\ queued = {} /\ completed = <<>>
  /\ jobsOpen = TRUE /\ resultsOpen = TRUE /\ stop = FALSE /\ panics = 0

Live == {t \in Ticket : state[t] \in {"Loading", "Ready"}}
Loading == {t \in Ticket : state[t] = "Loading"}
Resident == {k \in Key : refs[k] > 0}
Current == {k \in Key : operations[k] # 0}
Charged == {operations[k] : k \in Current} \cup retired
MayGoWrong == epoch + panics < MaxTrouble
Idle == taken = 0 /\ ~closing /\ ~dropped
-----------------------------------------------------------------------------
(* Letting go of tickets: release, fail_pending, detach_stream_ticket.     *)

Holders(S, k) == {t \in S : k \in keys[t] \ pending[t]}
Abandoned(S) ==
  {k \in Current : consumers[k] \subseteq S /\ \E t \in S : k \in keys[t]}

Settle(S, outcome) == [t \in Ticket |-> IF t \in S THEN outcome ELSE state[t]]

DropHandles(S) ==
  /\ keys' = [t \in Ticket |-> IF t \in S THEN {} ELSE keys[t]]
  /\ pending' = [t \in Ticket |-> IF t \in S THEN {} ELSE pending[t]]
  /\ failing' = failing \ S
  /\ refs' = [k \in Key |-> LET n == Cardinality(Holders(S, k))
                            IN IF n < refs[k] THEN refs[k] - n ELSE 0]
  /\ typed' = {k \in typed : refs'[k] > 0}

\* Faulty variants: the charge of an abandoned operation is returned at once;
\* a ticket that has gone is still given what it waited for.
LeaveOperationsAtOnce(S) ==
  /\ operations' = [k \in Key |-> IF k \in Abandoned(S) THEN 0 ELSE operations[k]]
  /\ consumers' = [k \in Key |-> consumers[k] \ S]
  /\ UNCHANGED retired

LeaveOperationsWaiting(S) ==
  /\ operations' = [k \in Key |-> IF k \in Abandoned(S) THEN 0 ELSE operations[k]]
  /\ retired' = retired \cup {operations[k] : k \in Abandoned(S)}
  /\ UNCHANGED consumers

LeaveOperations(S) ==
  /\ operations' = [k \in Key |-> IF k \in Abandoned(S) THEN 0 ELSE operations[k]]
  /\ consumers' = [k \in Key |-> consumers[k] \ S]
  /\ retired' = retired \cup {operations[k] : k \in Abandoned(S)}

Detach(S) == DropHandles(S) /\ LeaveOperations(S)
LetGo(S, outcome) == state' = Settle(S, outcome) /\ Detach(S)

Release(t) ==
  /\ Idle /\ state[t] \in {"Loading", "Ready", "Failed"}
  /\ LetGo({t}, "Released")
  /\ UNCHANGED <<issued, index, lastOperation, host, inThread, stop, queued, completed>>
-----------------------------------------------------------------------------
(* Making tickets.                                                         *)

KeysOf(a) == {<<b, revision[b]>> : b \in Needs[a]}
CacheReady(k) == k \in Resident /\ (k[1] \in Meshes => k \in typed)
Cached(K) == {k \in K : CacheReady(k)}
NewSpecs(K) == {k \in K : ~CacheReady(k) /\ operations[k] = 0}
PendingOperations == Cardinality(Charged)
Admits(K) == PendingOperations + Cardinality(NewSpecs(K)) <= limit

\* The next ids, one for each of the keys to be sent.
Numbering(K) ==
  LET range == lastOperation + 1 .. lastOperation + Cardinality(K)
  IN CHOOSE f \in [K -> range] : \A n \in range : \E k \in K : f[k] = n

Issue(outcome, K, waits) ==
  LET t == issued + 1 IN
  /\ t \in Ticket /\ issued' = t
  /\ state' = [state EXCEPT ![t] = outcome]
  /\ keys' = [keys EXCEPT ![t] = K]
  /\ pending' = [pending EXCEPT ![t] = waits]
  /\ UNCHANGED failing

\* Faulty variant: what is resident is used without a reference.
ReferenceOnce(K) == refs' = [k \in Key |-> IF k \in K /\ refs[k] = 0 THEN 1 ELSE refs[k]]

Reference(K) == refs' = [k \in Key |-> IF k \in K THEN refs[k] + 1 ELSE refs[k]]

StartWorker ==
  /\ worker' = TRUE
  /\ thread' = IF worker THEN thread ELSE "Waiting"

SendFails == ~jobsOpen \/ Cardinality(queued) >= limit

Request(a) ==
  LET K == KeysOf(a)
      new == NewSpecs(K)
  IN
  /\ Idle /\ ~stopped /\ mounted /\ Admits(K)
  /\ new = {} \/ ~SendFails
  /\ Issue("Loading", K, K \ Cached(K))
  /\ Reference(Cached(K)) /\ UNCHANGED typed
  /\ operations' = [k \in Key |-> IF k \in new THEN Numbering(new)[k] ELSE operations[k]]
  /\ queued' = queued \cup {[id |-> Numbering(new)[k], key |-> k] : k \in new}
  /\ consumers' = [k \in Key |-> IF k \in K \ Cached(K) THEN consumers[k] \cup {issued + 1}
                                 ELSE consumers[k]]
  /\ lastOperation' = lastOperation + Cardinality(new)
  /\ StartWorker
  /\ UNCHANGED <<index, retired, stopped, taken, closing, dropped, work, jobsOpen,
                 resultsOpen, panics, stop, completed>>

\* The worker's receiver goes away before or amid the sends: the handles made
\* so far are released, and what was sent keeps its charge.  (The id of the
\* operation that was not sent is given again here: nobody has seen it.)
RequestLost(a) ==
  LET new == NewSpecs(KeysOf(a)) IN
  /\ Idle /\ ~stopped /\ mounted /\ Admits(KeysOf(a)) /\ worker /\ new # {}
  /\ \E sent \in 0 .. Cardinality(new) - 1 :
       /\ \/ jobsOpen /\ thread = "Leaving" /\ jobsOpen' = FALSE /\ queued' = {}
          \/ ~jobsOpen /\ sent = 0 /\ UNCHANGED <<jobsOpen, queued>>
       /\ retired' = retired \cup (lastOperation + 1 .. lastOperation + sent)
       /\ lastOperation' = lastOperation + sent
  /\ UNCHANGED <<tickets, index, cache, operations, consumers, host, thread, work,
                 resultsOpen, panics, stop, completed>>

\* load_internal: every asset of the closure decoded here unless resident.
Load(a) ==
  /\ Idle /\ mounted
  /\ Issue("Ready", KeysOf(a), {})
  /\ Reference(KeysOf(a))
  /\ typed' = typed \cup {k \in KeysOf(a) : k \notin Resident /\ k[1] \notin Meshes}
  /\ UNCHANGED <<index, charges, host, inThread, stop, queued, completed>>

RetainHandle(t) ==
  /\ Idle /\ state[t] = "Ready" /\ keys[t] \subseteq Resident
  /\ Issue("Ready", keys[t], {})
  /\ Reference(keys[t])
  /\ UNCHANGED <<index, typed, charges, host, inThread, stop, queued, completed>>
-----------------------------------------------------------------------------
(* The package changes under the loader.                                   *)

MountPatchIndex(a) ==
  /\ Idle /\ MayGoWrong /\ epoch' = epoch + 1
  /\ revision' = [revision EXCEPT ![a] = @ + 1]
  /\ LetGo(Loading, "Failed")
  /\ UNCHANGED <<issued, mounted, lastOperation, host, inThread, stop, queued, completed>>

UnmountBundle ==
  /\ Idle /\ MayGoWrong /\ epoch' = epoch + 1
  /\ mounted' = FALSE
  /\ LetGo(Loading, "Failed")
  /\ UNCHANGED <<issued, revision, lastOperation, host, inThread, stop, queued, completed>>

MountBundle ==
  /\ Idle /\ ~mounted /\ mounted' = TRUE
  /\ UNCHANGED <<tickets, revision, epoch, cache, charges, host, inThread, stop, queued, completed>>
-----------------------------------------------------------------------------
(* poll_async.                                                             *)

Polls == ~dropped /\ worker /\ taken < MaxCompletions
         /\ (closing /\ taken = 0 => thread # "Finished")

\* Faulty variant: a result nobody waits for keeps its charge.
DiscardCharged(c) == UNCHANGED <<operations, consumers, retired, pending, failing, cache>>

Discard(c) ==
  /\ retired' = retired \ {c.id}
  /\ UNCHANGED <<operations, consumers, pending, failing, cache>>

\* One result received and applied to those that wait for it.
Apply(c) ==
  IF c.id \in retired \/ operations[c.key] # c.id
  THEN Discard(c)
  ELSE LET waiting == consumers[c.key] IN
       /\ operations' = [operations EXCEPT ![c.key] = 0]
       /\ consumers' = [consumers EXCEPT ![c.key] = {}]
       /\ UNCHANGED retired
       /\ \/ /\ c.ok /\ waiting # {}
             /\ pending' = [t \in Ticket |-> IF t \in waiting THEN pending[t] \ {c.key}
                                             ELSE pending[t]]
             /\ refs' = [refs EXCEPT ![c.key] = @ + Cardinality(waiting)]
             /\ typed' = typed \cup {c.key}
             /\ UNCHANGED failing
          \/ /\ ~c.ok \/ waiting = {}
             /\ failing' = failing \cup waiting
             /\ UNCHANGED <<pending, cache>>

PollTake ==
  /\ Polls /\ completed # <<>>
  /\ completed' = Tail(completed) /\ taken' = taken + 1
  /\ Apply(Head(completed))
  /\ UNCHANGED <<state, keys, issued, index, lastOperation, worker, stopped, closing,
                 dropped, inThread, stop, queued>>

ForgetCharges ==
  /\ operations' = [k \in Key |-> 0] /\ consumers' = [k \in Key |-> {}] /\ retired' = {}

\* In shutdown_streaming the time may be up whenever a poll has ended.
PollEnds == /\ taken' = 0
            /\ closing' = FALSE \/ closing' = closing

\* Nothing to receive, or enough: tickets with an error fail, and those whose
\* whole closure has arrived become ready.
PollPublish ==
  LET failed == failing \cap Loading
      arrived == {t \in Loading \ failed : pending[t] = {} /\ keys[t] \subseteq Resident}
  IN
  /\ ~dropped /\ (closing /\ taken = 0 => worker /\ thread # "Finished")
  /\ ~worker \/ taken = MaxCompletions \/ (completed = <<>> /\ resultsOpen)
  /\ state' = [t \in Ticket |-> IF t \in failed THEN "Failed"
                              ELSE IF t \in arrived THEN "Ready" ELSE state[t]]
  /\ Detach(failed)
  /\ PollEnds
  /\ UNCHANGED <<issued, index, lastOperation, worker, stopped, dropped, inThread, stop,
                 queued, completed>>

\* The worker has gone: pending tickets fail at once, but charges are returned
\* only when its thread has ended.
PollLost ==
  /\ Polls /\ completed = <<>> /\ ~resultsOpen
  /\ stopped' = TRUE
  /\ state' = Settle(Loading, "Failed") /\ DropHandles(Loading)
  /\ \/ thread = "Finished" /\ ForgetCharges /\ worker' = FALSE
     \/ thread # "Finished" /\ LeaveOperations(Loading) /\ UNCHANGED worker
  /\ PollEnds
  /\ UNCHANGED <<issued, index, lastOperation, dropped, inThread, stop, queued, completed>>
-----------------------------------------------------------------------------
(* shutdown_streaming, and the drop of the loader.                         *)

Shutdown ==
  /\ Idle
  /\ LetGo(Loading, "Failed")
  /\ stopped' = TRUE
  /\ stop' = (stop \/ worker) /\ closing' = worker
  /\ UNCHANGED <<issued, index, lastOperation, worker, taken, dropped, inThread, queued,
                 completed>>

ShutdownDone ==
  /\ closing /\ taken = 0 /\ (~worker \/ thread = "Finished")
  /\ ForgetCharges /\ worker' = FALSE /\ completed' = <<>>
  /\ closing' = FALSE
  /\ UNCHANGED <<tickets, index, cache, lastOperation, stopped, taken, dropped, inThread,
                 stop, queued>>

\* Both ends of the loader's channels close; the thread is not waited for.
DropLoader ==
  /\ Idle
  /\ dropped' = TRUE /\ worker' = FALSE /\ stop' = TRUE
  /\ state' = Settle({t \in Ticket : state[t] # "None"}, "Released")
  /\ keys' = [t \in Ticket |-> {}] /\ pending' = [t \in Ticket |-> {}] /\ failing' = {}
  /\ refs' = [k \in Key |-> 0] /\ typed' = {}
  /\ ForgetCharges /\ completed' = <<>>
  /\ UNCHANGED <<issued, index, lastOperation, stopped, taken, closing, inThread, queued>>
-----------------------------------------------------------------------------
(* The thread "runtime-package-loader".  Of what is queued it takes any:   *)
(* which has the highest priority is not kept.                             *)

ThreadTakes ==
  /\ thread = "Waiting"
  /\ \E w \in queued : work' = w /\ queued' = queued \ {w}
  /\ thread' = "Decoding"
  /\ UNCHANGED <<tickets, index, cache, charges, host, jobsOpen, resultsOpen, panics, stop, completed>>

\* A read that fails, a payload that is not what its key says, or a cancelled
\* or stopped operation is not ok.
ThreadDecodes ==
  /\ thread = "Decoding"
  /\ \E ok \in BOOLEAN : work' = [id |-> work.id, key |-> work.key, ok |-> ok]
  /\ thread' = "Sending"
  /\ UNCHANGED <<tickets, index, cache, charges, host, jobsOpen, resultsOpen, panics, stop, queued,
                 completed>>

\* The mailbox has one slot less than there may be operations, and 127 at most.
\* With a single operation it has none, and the thread waits until its result
\* is taken from its hands; the result is the one in completed.
Rendezvous == limit = 1
Room == IF Rendezvous THEN 1 ELSE (IF limit < 128 THEN limit ELSE 128) - 1

GoesOn == thread' = IF stop \/ ~worker THEN "Leaving" ELSE "Waiting"

ThreadSends ==
  /\ thread = "Sending"
  /\ \/ /\ worker /\ Len(completed) < Room /\ completed' = Append(completed, work)
        /\ IF Rendezvous THEN thread' = "Handing" ELSE GoesOn
     \/ ~worker /\ UNCHANGED completed /\ GoesOn
  /\ work' = NoWork
  /\ UNCHANGED <<tickets, index, cache, charges, host, jobsOpen, resultsOpen, panics, stop, queued>>

ThreadHanded ==
  /\ thread = "Handing" /\ completed = <<>>
  /\ GoesOn
  /\ UNCHANGED <<tickets, index, cache, charges, host, work, jobsOpen, resultsOpen, panics, stop,
                 queued, completed>>

ThreadStops ==
  /\ thread = "Waiting" /\ stop
  /\ thread' = "Leaving"
  /\ UNCHANGED <<tickets, index, cache, charges, host, work, jobsOpen, resultsOpen, panics, stop,
                 queued, completed>>

ThreadPanics ==
  /\ thread = "Decoding" /\ MayGoWrong
  /\ thread' = "Leaving" /\ work' = NoWork /\ panics' = panics + 1
  /\ UNCHANGED <<tickets, index, cache, charges, host, jobsOpen, resultsOpen, stop, queued, completed>>

ThreadDropsJobs ==
  /\ thread = "Leaving" /\ jobsOpen
  /\ jobsOpen' = FALSE /\ queued' = {}
  /\ UNCHANGED <<tickets, index, cache, charges, host, thread, work, resultsOpen, panics, stop,
                 completed>>

ThreadDropsResults ==
  /\ thread = "Leaving" /\ resultsOpen
  /\ resultsOpen' = FALSE
  /\ UNCHANGED <<tickets, index, cache, charges, host, thread, work, jobsOpen, panics, stop, queued,
                 completed>>

ThreadEnds ==
  /\ thread = "Leaving" /\ ~jobsOpen /\ ~resultsOpen
  /\ thread' = "Finished"
  /\ UNCHANGED <<tickets, index, cache, charges, host, work, jobsOpen, resultsOpen, panics, stop,
                 queued, completed>>
-----------------------------------------------------------------------------
Call ==
  /\ UNCHANGED limit
  /\ \/ \E t \in Ticket : Release(t) \/ RetainHandle(t)
     \/ \E a \in Asset : Request(a) \/ RequestLost(a) \/ Load(a) \/ MountPatchIndex(a)
     \/ UnmountBundle \/ MountBundle
     \/ Shutdown \/ DropLoader

Poll ==
  /\ UNCHANGED limit
  /\ PollTake \/ PollPublish \/ PollLost \/ ShutdownDone

Thread ==
  /\ UNCHANGED limit
  /\ \/ ThreadTakes \/ ThreadDecodes \/ ThreadSends \/ ThreadHanded \/ ThreadStops \/ ThreadPanics
     \/ ThreadDropsJobs \/ ThreadDropsResults \/ ThreadEnds

Next == Call \/ Poll \/ Thread

Spec == Init /\ [][Next]_vars

\* The frame loop polls in every frame, and a read of the package ends.
FairSpec == Spec /\ WF_vars(Poll) /\ WF_vars(Thread)
-----------------------------------------------------------------------------
Outcome == {"None", "Loading", "Ready", "Failed", "Released"}
Result == [id : Nat, key : Key, ok : BOOLEAN]

TypeOK ==
  /\ state \in [Ticket -> Outcome] /\ keys \in [Ticket -> SUBSET Key]
  /\ pending \in [Ticket -> SUBSET Key] /\ failing \subseteq Ticket /\ issued \in 0 .. MaxTicket
  /\ revision \in [Asset -> 0 .. MaxTrouble] /\ mounted \in BOOLEAN
  /\ epoch \in Nat /\ panics \in Nat /\ epoch + panics <= MaxTrouble
  /\ \A a \in Asset : revision[a] <= epoch
  /\ refs \in [Key -> Nat] /\ typed \subseteq Key
  /\ operations \in [Key -> Nat] /\ consumers \in [Key -> SUBSET Ticket]
  /\ retired \subseteq Nat /\ lastOperation \in Nat
  /\ worker \in BOOLEAN /\ stopped \in BOOLEAN /\ closing \in BOOLEAN /\ dropped \in BOOLEAN
  /\ stop \in BOOLEAN /\ jobsOpen \in BOOLEAN /\ resultsOpen \in BOOLEAN
  /\ taken \in 0 .. MaxCompletions /\ limit \in 1 .. MaxOperations
  /\ thread \in {"None", "Waiting", "Decoding", "Sending", "Handing", "Leaving", "Finished"}
  /\ thread = "Decoding" => work \in Work
  /\ thread = "Sending" => work \in Result
  /\ queued \subseteq Work /\ completed \in Seq(Result)

\* The count of a cache entry is the number of handles that have it, whatever
\* came late, was joined, upgraded, cancelled or failed: a count too low frees
\* a payload in use, one too high keeps it for ever.
RefCountsExact == \A k \in Key : refs[k] = Cardinality(Holders(Live, k))

InHand == IF thread \in {"Decoding", "Sending"} THEN {work.id} ELSE {}
Queued == {w.id : w \in queued}
Completed == {completed[i].id : i \in DOMAIN completed}
InPipeline == Queued \cup InHand \cup Completed

OnceEach ==
  /\ \A v, w \in queued : v.id = w.id => v = w
  /\ \A i, j \in DOMAIN completed : completed[i].id = completed[j].id => i = j
  /\ Queued \cap InHand = {} /\ Queued \cap Completed = {} /\ InHand \cap Completed = {}

\* All work in the worker's hands is charged to the budget until its result is
\* received or its thread has ended, cancelled or not; nothing is done twice;
\* and nothing else is charged while the thread runs.
WorkIsCharged ==
  ~dropped =>
    /\ InPipeline \subseteq Charged /\ PendingOperations <= limit
    /\ OnceEach
    /\ thread \in {"Waiting", "Decoding", "Sending", "Handing"} => InPipeline = Charged

\* Every ticket is settled and every charge returned, in whatever order
\* cancellations, patches, failures, panics and shutdowns come.  (Tickets are
\* bounded: what is asked for comes to an end, and then nothing may be left.)
StreamsSettle == []<>(Loading = {} /\ Charged = {})

\* The loader keeps its promise to the holders of tickets.
Shared == INSTANCE SharedAssets WITH needs <- keys, resident <- Resident
ImplementsSharedAssets == Shared!Spec
=============================================================================

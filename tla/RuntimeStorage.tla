--------------------------- MODULE RuntimeStorage ---------------------------
(***************************************************************************)
(* The stored bytes of a running project:                                  *)
(* engine_runtime_core/src/runtime_instance_loader/project_storage.rs (the *)
(* session: records, budget, one worker at a time, polled by the frame     *)
(* loop) over engine_content/src/atomic_file_replace/project_storage (the  *)
(* owner of a namespace: an exclusive lease and one file per key, replaced *)
(* by one rename).                                                         *)
(*                                                                         *)
(* A request writes its own number.  Calls that are refused change nothing *)
(* but for the draining of released charges, which is AcceptRefused.       *)
(* Temporary files are left out: no reader opens one, and the next owner   *)
(* removes those that were left.                                           *)
(***************************************************************************)
EXTENDS Naturals, FiniteSets

CONSTANTS
  Key,
  MaxRequest,     \* bound: requests ever accepted
  MaxLoader,      \* bound: loaders ever made
  MaxFault,       \* bound: failed calls, panics and dead processes
  MaxForeign,     \* bound: writes by other owners of the namespace
  ReceiptLimit,   \* GENERATED_RECEIPT_LIMIT
  MaxOperations,  \* StreamingBudget::max_operations
  MaxBytes,       \* StreamingBudget::max_in_flight_bytes
  ReadCharge      \* what a read reserves; anything else reserves one

ASSUME StorageAssumption ==
  /\ {MaxRequest, MaxLoader, MaxFault, MaxForeign, ReceiptLimit, MaxOperations,
      MaxBytes, ReadCharge} \subseteq Nat
  /\ ReceiptLimit > 0 /\ ReadCharge > 0

Request == 1 .. MaxRequest
Missing == 0
Other == MaxRequest + 1
Bytes == Request \cup {Other}
NoBytes == 0

VARIABLES
  disk,       \* what each key's file holds
  lease,      \* whether a ProjectStorage of ours holds the namespace
  main,       \* the loader: "open", in close_project_storage, in its drop, "gone"
  accepting, owner, worker, records, released,   \* StorageState
  reserved,   \* RuntimeAssetLoader: external_io_operations, external_io_bytes
  thread,     \* the thread "runtime-project-storage" and what it returns
  asked,      \* history: the operation of each request
  effect,     \* history: what each request did to, or found on, the disk
  answers,    \* history: what each request was told at its end
  loaders, faults, foreign

session == <<accepting, owner, worker, records, released, reserved>>
bounds == <<loaders, faults, foreign>>
vars == <<disk, lease, main, session, thread, asked, effect, answers, bounds>>

NoOperation == [kind |-> "None", key |-> 0]
Operation == [kind : {"Read", "Write", "Delete"}, key : Key]

NoRecord == [status |-> "None", commit |-> "NotCommitted", claimed |-> FALSE, queued |-> FALSE,
             payload |-> NoBytes, charged |-> FALSE, active |-> FALSE, abandoned |-> FALSE]
Record ==
  [status : {"None", "Accepted", "Preparing", "Applied", "Failed", "Cancelled"},
   commit : {"NotCommitted", "Committed", "Unknown"}, claimed : BOOLEAN, queued : BOOLEAN,
   payload : Bytes \cup {NoBytes}, charged : BOOLEAN, active : BOOLEAN, abandoned : BOOLEAN]
Terminal == {"Applied", "Failed", "Cancelled"}

\* error: whether StorageCommit carries one.
NoThread == [pc |-> "none", request |-> 0, commit |-> "NotCommitted", error |-> FALSE, bytes |-> NoBytes]
Thread ==
  [pc : {"none", "begun", "prepared", "returned", "panicked"}, request : {0} \cup Request,
   commit : {"NotCommitted", "Committed", "Unknown"}, error : BOOLEAN, bytes : Bytes \cup {NoBytes}]

IsRead(r) == asked[r].kind = "Read"
Present == {r \in Request : records[r].status # "None"}
Charged(rs) == {r \in Request : rs[r].charged}
\* One for each of S, and for a read as much more as a read reserves.
Charges(S) == Cardinality(S) + (ReadCharge - 1) * Cardinality({r \in S : IsRead(r)})
First(S) == {r \in S : \A s \in S : r <= s}
Fresh == {r \in Request : \A s \in Request : asked[s] # NoOperation => s < r}
Running == thread.pc \in {"begun", "prepared"}
Ended == thread.pc \in {"returned", "panicked"}

Init ==
  /\ disk = [k \in Key |-> Missing]
  /\ lease = FALSE /\ main = "open"
  /\ accepting = FALSE /\ owner = FALSE /\ worker = 0
  /\ records = [r \in Request |-> NoRecord] /\ released = {}
  /\ reserved = [operations |-> 0, bytes |-> 0]
  /\ thread = NoThread
  /\ asked = [r \in Request |-> NoOperation]
  /\ effect = [r \in Request |-> NoBytes]
  /\ answers = [r \in Request |-> "none"]
  /\ loaders = 1 /\ faults = 0 /\ foreign = 0

-----------------------------------------------------------------------------
(* Helpers of the session *)

Fault == faults < MaxFault /\ faults' = faults + 1 /\ UNCHANGED <<loaders, foreign>>

\* release_external_io
Without(S) == [operations |-> reserved.operations - Cardinality(S),
               bytes |-> reserved.bytes - Charges(S)]

\* release, then drain_released: the charges the step takes from their records
\* go with those released before.
Drained == released' = {} /\ reserved' = Without(released \cup (Charged(records) \ Charged(records')))

\* History: the commit state a request has when its record becomes terminal.
Answered ==
  answers' = [r \in Request |->
                IF answers[r] = "none" /\ records'[r].status \in Terminal
                THEN records'[r].commit ELSE answers[r]]
LostUnanswered ==
  answers' = [r \in Request |->
                IF answers[r] = "none" /\ asked[r] # NoOperation THEN "Lost" ELSE answers[r]]

\* Faulty variant: a panic before the answer counts as a change not made.
FinishedHopeful(record) ==
  LET panicked == thread.pc = "panicked"
      payload == IF panicked \/ record.abandoned THEN NoBytes ELSE thread.bytes
  IN [record EXCEPT
        !.active = FALSE,
        !.commit = thread.commit,
        !.status = IF panicked \/ thread.error THEN "Failed" ELSE "Applied",
        !.payload = payload,
        !.charged = @ /\ payload # NoBytes]

\* finish, of a worker that returned; a payload keeps its charge.
Finished(record) ==
  LET panicked == thread.pc = "panicked"
      payload == IF panicked \/ record.abandoned THEN NoBytes ELSE thread.bytes
  IN [record EXCEPT
        !.active = FALSE,
        !.commit = IF ~panicked THEN thread.commit
                   ELSE IF IsRead(worker) THEN "NotCommitted" ELSE "Unknown",
        !.status = IF ~panicked /\ record.abandoned THEN "Cancelled"
                   ELSE IF panicked \/ thread.commit = "Unknown" \/ (thread.error /\ thread.commit = "NotCommitted")
                        THEN "Failed" ELSE "Applied",
        !.claimed = @ \/ (~panicked /\ record.abandoned),
        !.payload = payload,
        !.charged = @ /\ payload # NoBytes]

Collecting == worker # 0 /\ Ended
Collected == IF Collecting THEN [records EXCEPT ![worker] = Finished(@)] ELSE records
OwnerBack == owner \/ (Collecting /\ thread.pc = "returned")
Working == worker # 0 /\ ~Ended
StillAccepting == accepting /\ ~(Collecting /\ thread.pc = "panicked")
KeepWorker == IF Collecting THEN worker' = 0 /\ thread' = NoThread ELSE UNCHANGED <<worker, thread>>
Queued == {r \in Request : Collected[r].queued}

-----------------------------------------------------------------------------
(* The loader's thread *)

\* bind_project_storage and Owner::open
Bind ==
  /\ main = "open"
  /\ ~owner /\ worker = 0 /\ Present = {}
  /\ ~lease
  /\ lease' = TRUE /\ owner' = TRUE /\ accepting' = TRUE
  /\ UNCHANGED <<disk, main, worker, records, released, reserved, thread, asked, effect, answers, bounds>>

\* Faulty variant: any record that ended may be forgotten.
SettledUnclaimed(r) == records[r].status \in Terminal

\* The records accept_project_storage may forget for a new one: the oldest only.
Settled(r) ==
  /\ records[r].status \in Terminal
  /\ ~records[r].active /\ ~records[r].charged /\ records[r].payload = NoBytes
Evictable == {r \in Present : Settled(r)}
Evicted == {r \in First(Evictable) : Cardinality(Present) >= ReceiptLimit}

AcceptRecord == [NoRecord EXCEPT !.status = "Accepted", !.queued = TRUE, !.charged = TRUE]

\* accept_project_storage.  Ids only have to ascend; the next one stands for any.
Accept(r, operation) ==
  LET charge == IF operation.kind = "Read" THEN ReadCharge ELSE 1
      free == Without(released)
  IN /\ main = "open" /\ accepting /\ r \in First(Fresh)
     /\ Cardinality(Present) >= ReceiptLimit => Evictable # {}
     /\ free.operations < MaxOperations
     /\ free.bytes + charge <= MaxBytes
     /\ released' = {}
     /\ reserved' = [operations |-> free.operations + 1, bytes |-> free.bytes + charge]
     /\ asked' = [asked EXCEPT ![r] = operation]
     /\ records' = [s \in Request |->
                      IF s = r THEN AcceptRecord ELSE IF s \in Evicted THEN NoRecord ELSE records[s]]
     /\ UNCHANGED <<disk, lease, main, accepting, owner, worker, thread, effect, answers, bounds>>

AcceptRefused ==
  /\ main = "open" /\ released # {}
  /\ released' = {} /\ reserved' = Without(released)
  /\ UNCHANGED <<disk, lease, main, accepting, owner, worker, records, thread, asked, effect, answers, bounds>>

\* Faulty variant: the charge is forgotten with the payload.
TakeUncharged(r) ==
  /\ main = "open" /\ records[r].payload # NoBytes
  /\ records' = [records EXCEPT ![r].payload = NoBytes, ![r].claimed = TRUE, ![r].charged = FALSE]
  /\ UNCHANGED <<disk, lease, main, accepting, owner, worker, released, reserved, thread, asked, effect, answers, bounds>>

\* copy_project_storage_bytes, into a buffer large enough
Take(r) ==
  /\ main = "open" /\ records[r].payload # NoBytes
  /\ records' = [records EXCEPT ![r].payload = NoBytes, ![r].claimed = TRUE, ![r].charged = FALSE]
  /\ released' = released \cup {r}
  /\ UNCHANGED <<disk, lease, main, accepting, owner, worker, reserved, thread, asked, effect, answers, bounds>>

\* abandon_project_storage: the charge of a running read stays until it returns.
Abandoned(record) == [record EXCEPT !.abandoned = TRUE, !.payload = NoBytes, !.claimed = TRUE]
Withdrawn(record) ==
  [Abandoned(record) EXCEPT !.queued = FALSE, !.charged = FALSE,
                            !.status = IF record.queued THEN "Cancelled" ELSE @]
\* Faulty variant: a running read gives its charge back at once.
AbandonAtOnce(r) ==
  /\ main = "open" /\ r \in Present /\ IsRead(r) /\ ~records[r].abandoned
  /\ records' = [records EXCEPT ![r] = Withdrawn(@)]
  /\ Drained /\ Answered
  /\ UNCHANGED <<disk, lease, main, accepting, owner, worker, thread, asked, effect, bounds>>

Abandon(r) ==
  /\ main = "open" /\ r \in Present /\ IsRead(r) /\ ~records[r].abandoned
  /\ \/ /\ records[r].active
        /\ records' = [records EXCEPT ![r] = Abandoned(@)]
        /\ UNCHANGED <<released, reserved>>
     \/ /\ ~records[r].active
        /\ records' = [records EXCEPT ![r] = Withdrawn(@)]
        /\ Drained
  /\ Answered
  /\ UNCHANGED <<disk, lease, main, accepting, owner, worker, thread, asked, effect, bounds>>

\* advance, when nothing is to be started
AdvanceCollects ==
  /\ main = "open" /\ StillAccepting
  /\ Working \/ Queued = {}
  /\ records' = Collected /\ owner' = OwnerBack
  /\ KeepWorker /\ Drained /\ Answered
  /\ UNCHANGED <<disk, lease, main, accepting, asked, effect, bounds>>

\* Faulty variant: a session that stopped only collects.
AdvanceStopsEarly ==
  /\ main = "open" /\ ~StillAccepting
  /\ accepting' = FALSE /\ owner' = OwnerBack
  /\ records' = Collected
  /\ KeepWorker /\ Drained /\ Answered
  /\ UNCHANGED <<disk, lease, main, asked, effect, bounds>>

\* advance, of a session that stopped: nothing that waits is ever started.
AdvanceStops ==
  /\ main = "open" /\ ~StillAccepting
  /\ accepting' = FALSE /\ owner' = OwnerBack
  /\ records' = [r \in Request |->
                   IF r \in Queued
                   THEN [Collected[r] EXCEPT !.queued = FALSE, !.status = "Failed", !.charged = FALSE]
                   ELSE Collected[r]]
  /\ KeepWorker /\ Drained /\ Answered
  /\ UNCHANGED <<disk, lease, main, asked, effect, bounds>>

\* advance, with the next request to start.  Without an owner the request is
\* taken from its record and nothing else happens.
AdvanceStarts ==
  \E r \in First(Queued) :
     /\ main = "open" /\ StillAccepting /\ ~Working
     /\ owner' = FALSE
     /\ records' = [Collected EXCEPT ![r].queued = FALSE,
                                     ![r].active = OwnerBack,
                                     ![r].status = IF OwnerBack THEN "Preparing" ELSE @]
     /\ worker' = IF OwnerBack THEN r ELSE 0
     /\ thread' = IF OwnerBack THEN [NoThread EXCEPT !.pc = "begun", !.request = r] ELSE NoThread
     /\ Drained /\ Answered
     /\ UNCHANGED <<disk, lease, main, accepting, asked, effect, bounds>>

\* The thread cannot be spawned: its closure is dropped, and the owner with it.
AdvanceStartFails ==
  \E r \in First(Queued) :
     /\ main = "open" /\ StillAccepting /\ ~Working /\ OwnerBack
     /\ accepting' = FALSE /\ owner' = FALSE /\ lease' = FALSE
     /\ worker' = 0 /\ thread' = NoThread
     /\ records' = [Collected EXCEPT ![r].queued = FALSE, ![r].status = "Failed", ![r].charged = FALSE]
     /\ Fault /\ Drained /\ Answered
     /\ UNCHANGED <<disk, main, asked, effect>>

Advance == AdvanceCollects \/ AdvanceStops \/ AdvanceStarts

\* close_project_storage, called when a run ends or fails: first the worker...
CloseBegin ==
  /\ main = "open" /\ (accepting \/ owner \/ worker # 0 \/ Present # {})
  /\ main' = "closing" /\ accepting' = FALSE
  /\ UNCHANGED <<disk, lease, owner, worker, records, released, reserved, thread, asked, effect, answers, bounds>>

\* ... then what waited, what was not claimed, and the lease.
Closed(r, record) ==
  [record EXCEPT !.queued = FALSE, !.payload = NoBytes, !.charged = FALSE,
                 !.claimed = IsRead(r),
                 !.status = IF record.queued THEN "Cancelled" ELSE @]
\* Faulty variant: the lease is let go while the worker still runs.
CloseEndHasty ==
  /\ main = "closing"
  /\ main' = "open" /\ owner' = FALSE /\ lease' = FALSE
  /\ records' = [r \in Request |-> IF r \in Present THEN Closed(r, Collected[r]) ELSE NoRecord]
  /\ KeepWorker /\ Drained /\ Answered
  /\ UNCHANGED <<disk, accepting, asked, effect, bounds>>

CloseEnd ==
  /\ main = "closing" /\ ~Working
  /\ main' = "open" /\ owner' = FALSE /\ worker' = 0 /\ thread' = NoThread
  /\ lease' = (lease /\ ~OwnerBack)
  /\ records' = [r \in Request |-> IF r \in Present THEN Closed(r, Collected[r]) ELSE NoRecord]
  /\ Drained /\ Answered
  /\ UNCHANGED <<disk, accepting, asked, effect, bounds>>

\* The loader is dropped: StorageState::owner first, then Worker joins its thread.
DropBegin ==
  /\ main = "open"
  /\ main' = "dropping" /\ owner' = FALSE /\ lease' = (lease /\ ~owner)
  /\ UNCHANGED <<disk, accepting, worker, records, released, reserved, thread, asked, effect, answers, bounds>>

SessionGone ==
  /\ main' = "gone" /\ accepting' = FALSE /\ owner' = FALSE /\ worker' = 0
  /\ records' = [r \in Request |-> NoRecord] /\ released' = {}
  /\ reserved' = [operations |-> 0, bytes |-> 0]
  /\ LostUnanswered
  /\ UNCHANGED <<disk, asked, effect>>

DropEnd ==
  /\ main = "dropping" /\ ~Working
  /\ lease' = (lease /\ ~(Collecting /\ thread.pc = "returned"))
  /\ thread' = NoThread
  /\ SessionGone
  /\ UNCHANGED bounds

\* The process dies; the system closes its lease.
Die ==
  /\ main # "gone" /\ Fault
  /\ lease' = FALSE /\ thread' = NoThread
  /\ SessionGone

\* RuntimeInstanceLoader::new
NewLoader ==
  /\ main = "gone" /\ loaders < MaxLoader
  /\ main' = "open" /\ loaders' = loaders + 1
  /\ UNCHANGED <<disk, lease, session, thread, asked, effect, answers, faults, foreign>>

-----------------------------------------------------------------------------
(* The worker's thread: Owner::read, write and delete *)

ThreadFrame == UNCHANGED <<lease, main, session, asked, answers, loaders, foreign>>
Operating == asked[thread.request]
Target == disk[Operating.key]
Return(commit, error, bytes) ==
  thread' = [thread EXCEPT !.pc = "returned", !.commit = commit, !.error = error, !.bytes = bytes]
Performed(value) == effect' = [effect EXCEPT ![thread.request] = value]

Read ==
  /\ thread.pc = "begun" /\ Operating.kind = "Read"
  /\ IF Target = Missing
     THEN Return("NotCommitted", TRUE, NoBytes) /\ UNCHANGED effect
     ELSE Return("NotCommitted", FALSE, Target) /\ Performed(Target)
  /\ UNCHANGED <<disk, faults>> /\ ThreadFrame

\* write: the temporary file is complete and synced.
Prepare ==
  /\ thread.pc = "begun" /\ Operating.kind = "Write"
  /\ thread' = [thread EXCEPT !.pc = "prepared"]
  /\ UNCHANGED <<disk, effect, faults>> /\ ThreadFrame

DeleteMissing ==
  /\ thread.pc = "begun" /\ Operating.kind = "Delete" /\ Target = Missing
  /\ Return("NotCommitted", TRUE, NoBytes)
  /\ UNCHANGED <<disk, effect, faults>> /\ ThreadFrame

Committing ==
  \/ thread.pc = "prepared"
  \/ thread.pc = "begun" /\ Operating.kind = "Delete" /\ Target # Missing
Changed ==
  /\ disk' = [disk EXCEPT ![Operating.key] =
                IF Operating.kind = "Write" THEN thread.request ELSE Missing]
  /\ Performed(thread.request)

\* The one rename of a write, the disposition of a delete.
Commit ==
  /\ Committing
  /\ Changed /\ Return("Committed", FALSE, NoBytes)
  /\ UNCHANGED faults /\ ThreadFrame

\* rename_failure_state: an error that is not known to be a refusal may come
\* after the change.
CommitUnknown ==
  /\ Committing /\ faults < MaxFault /\ faults' = faults + 1
  /\ Changed \/ UNCHANGED <<disk, effect>>
  /\ Return("Unknown", TRUE, NoBytes)
  /\ ThreadFrame

\* Any call before the change fails, or the change is refused.
ThreadFails ==
  /\ Running /\ faults < MaxFault /\ faults' = faults + 1
  /\ Return("NotCommitted", TRUE, NoBytes)
  /\ UNCHANGED <<disk, effect>> /\ ThreadFrame

\* A panic drops the owner; nobody knows how far it came.
ThreadPanics ==
  /\ thread.pc \in {"begun", "prepared", "returned"}
  /\ faults < MaxFault /\ faults' = faults + 1
  /\ thread' = [NoThread EXCEPT !.pc = "panicked", !.request = thread.request]
  /\ lease' = FALSE
  /\ UNCHANGED <<disk, main, session, asked, effect, answers, loaders, foreign>>

ThreadStep == Read \/ Prepare \/ DeleteMissing \/ Commit

\* Another loader, or another process, opens the free namespace, writes, closes.
OtherOwner ==
  /\ ~lease /\ foreign < MaxForeign
  /\ foreign' = foreign + 1
  /\ \E k \in Key : disk' = [disk EXCEPT ![k] = Other]
  /\ UNCHANGED <<lease, main, session, thread, asked, effect, answers, loaders, faults>>

Next ==
  \/ Bind \/ AcceptRefused
  \/ \E r \in Request : Take(r) \/ Abandon(r) \/ \E operation \in Operation : Accept(r, operation)
  \/ Advance \/ AdvanceStartFails
  \/ CloseBegin \/ CloseEnd \/ DropBegin \/ DropEnd \/ Die \/ NewLoader
  \/ ThreadStep \/ CommitUnknown \/ ThreadFails \/ ThreadPanics
  \/ OtherOwner

Spec == Init /\ [][Next]_vars

\* The frame loop polls, the thread runs and its calls return.
FairSpec == Spec /\ WF_vars(Advance) /\ WF_vars(CloseEnd) /\ WF_vars(DropEnd) /\ WF_vars(ThreadStep)

-----------------------------------------------------------------------------
(* Properties *)

\* What a request was told: its record's commit state once that is terminal.
Answer(r) ==
  IF records[r].status \in Terminal THEN records[r].commit ELSE answers[r]

Store == INSTANCE OpaqueStore WITH store <- disk, answer <- [r \in Request |-> Answer(r)], held <- lease

\* Requests take effect in order and at most once, and no receipt says of a
\* change what is not so.
ImplementsOpaqueStore == Store!Spec

\* The loader's reservations are the charges that records hold and those that
\* wait to be drained: none leaks, none is returned twice.
ReservationExact ==
  main # "gone" =>
    LET holders == Charged(records) \cup released
    IN /\ Charged(records) \cap released = {}
       /\ reserved = [operations |-> Cardinality(holders), bytes |-> Charges(holders)]

\* I/O in flight and bytes not yet claimed are paid for, whatever was abandoned.
IoIsCharged ==
  /\ Running => worker = thread.request /\ records[thread.request].charged
  /\ \A r \in Request : records[r].payload # NoBytes => records[r].charged

\* The lease is held as long as a change may still come, and nobody else
\* can hold it: the owner is with the session or with the one thread.
LeaseCoversIo ==
  /\ Running => lease
  /\ lease <=> owner \/ thread.pc \in {"begun", "prepared", "returned"}
  /\ ~(owner /\ thread.pc \in {"begun", "prepared", "returned"})

\* A record is forgotten only when nothing of it is left to do or to claim.
ForgetsSettled ==
  main' = "open" =>
    \A r \in Request :
      records[r].status # "None" /\ records'[r].status = "None" =>
        /\ answers[r] # "none"
        /\ IsRead(r) /\ effect[r] # NoBytes /\ records[r].status = "Applied" => records[r].claimed
ForgottenWasSettled == [][ForgetsSettled]_vars

\* Every accepted request is answered, unless its session is lost.
RequestsSettle == \A r \in Request : asked[r] # NoOperation ~> answers[r] # "none"
=============================================================================

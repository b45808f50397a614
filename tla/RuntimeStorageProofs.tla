------------------------ MODULE RuntimeStorageProofs ------------------------
(***************************************************************************)
(* For every namespace, every limit and any number of requests, loaders    *)
(* and faults: the lease covers all I/O, I/O is paid for, and a forgotten  *)
(* record was settled.  The argument is StorageInv: the owner is with the  *)
(* session or with its one thread, the one active record is that thread's, *)
(* and a read that was applied keeps its bytes until they are claimed.  On *)
(* top of it ReservationInv counts the charges, and AnswerInv with         *)
(* EffectInv make every step one of OpaqueStore, the promised store.       *)
(***************************************************************************)
EXTENDS RuntimeStorage, TLAPS, FiniteSetTheorems

-----------------------------------------------------------------------------
(* The inductive invariant *)

SessionTyped ==
  /\ disk \in [Key -> Bytes \cup {Missing}]
  /\ main \in {"open", "closing", "dropping", "gone"}
  /\ lease \in BOOLEAN /\ accepting \in BOOLEAN /\ owner \in BOOLEAN
  /\ worker \in {0} \cup Request
  /\ records \in [Request -> Record]
  /\ thread \in Thread
  /\ asked \in [Request -> Operation \cup {NoOperation}]
  /\ answers \in [Request -> {"none", "NotCommitted", "Committed", "Unknown", "Lost"}]

HoldsOwner == thread.pc \in {"begun", "prepared", "returned"}

OneOwner ==
  /\ lease <=> owner \/ HoldsOwner
  /\ ~(owner /\ HoldsOwner)
  /\ main \in {"dropping", "gone"} => ~owner
  /\ main = "gone" => worker = 0 /\ ~accepting
  /\ main = "open" /\ accepting /\ worker = 0 => owner
  /\ main = "closing" => ~accepting

OneThread ==
  /\ worker = 0 <=> thread.pc = "none"
  /\ worker # 0 => thread.request = worker
  /\ thread.pc = "prepared" => Operating.kind = "Write"
  /\ thread.pc = "returned" /\ Operating.kind = "Read" =>
       thread.commit = "NotCommitted" /\ (thread.error \/ thread.bytes # NoBytes)

\* A record with worker w; only w's is active.
RecordOK(r, record, w) ==
  /\ record.queued <=> record.status = "Accepted"
  /\ record.queued \/ record.active \/ record.payload # NoBytes => record.charged
  /\ record.active <=> w = r
  /\ record.active => record.status = "Preparing"
  /\ record.payload # NoBytes => record.status \in Terminal
  /\ record.status # "None" => asked[r] # NoOperation
  /\ IsRead(r) /\ record.status = "Applied" /\ ~record.claimed => record.payload # NoBytes

RecordsOK == \A r \in Request : RecordOK(r, records[r], worker)

EndsAreTold == \A r \in Request : records[r].status \in Terminal => answers[r] # "none"

StorageInv == SessionTyped /\ OneOwner /\ OneThread /\ RecordsOK /\ EndsAreTold

-----------------------------------------------------------------------------
(* Records *)

\* What a file holds is not the absence of bytes.
LEMMA BytesAreNotMissing == NoBytes \notin Bytes
BY StorageAssumption DEF NoBytes, Bytes, Request, Other

\* The worker's record becomes that of a request that ended.
LEMMA FinishedOK ==
  ASSUME StorageInv, Collecting
  PROVE  /\ worker \in Request
         /\ Finished(records[worker]) \in Record
         /\ RecordOK(worker, Finished(records[worker]), 0)
         /\ ~Finished(records[worker]).queued
         /\ Finished(records[worker]).status # "None"
<1> DEFINE old == records[worker]
           new == Finished(old)
<1>1. worker \in Request /\ worker # 0 /\ thread.request = worker
  BY DEF StorageInv, SessionTyped, OneThread, Collecting, Request
<1>2. old \in Record /\ RecordOK(worker, old, worker)
  BY <1>1 DEF StorageInv, SessionTyped, RecordsOK
<1>3. old.active /\ old.charged /\ ~old.queued /\ old.status = "Preparing"
  BY <1>2 DEF RecordOK, Record
<1>4. thread \in Thread /\ thread.pc \in {"returned", "panicked"}
  BY DEF StorageInv, SessionTyped, Collecting, Ended
<1>5. new \in Record
  <2>1. /\ new.status \in {"Cancelled", "Failed", "Applied"}
        /\ new.commit \in {"NotCommitted", "Committed", "Unknown"}
        /\ new.payload \in Bytes \cup {NoBytes}
    BY <1>2, <1>4 DEF Finished, Record, Thread
  <2>2. new.claimed \in BOOLEAN /\ new.charged \in BOOLEAN /\ new.active \in BOOLEAN
    BY <1>2, <1>4 DEF Finished, Record
  <2>3. new = [old EXCEPT !.active = new.active, !.commit = new.commit, !.status = new.status,
                          !.claimed = new.claimed, !.payload = new.payload, !.charged = new.charged]
    BY <1>2 DEF Finished, Record
  <2> HIDE DEF new
  <2> QED BY <1>2, <2>1, <2>2, <2>3 DEF Record
<1>6. /\ ~new.active /\ ~new.queued
      /\ new.status \in {"Cancelled", "Failed", "Applied"}
      /\ new.payload # NoBytes => new.charged
  BY <1>2, <1>3, <1>4 DEF Finished, Record, Thread
<1>7. asked[worker] # NoOperation
  BY <1>2, <1>3 DEF RecordOK
<1>8. IsRead(worker) /\ new.status = "Applied" /\ ~new.claimed => new.payload # NoBytes
  <2> SUFFICES ASSUME IsRead(worker), new.status = "Applied" PROVE new.payload # NoBytes
    OBVIOUS
  <2>1. thread.pc = "returned" /\ ~old.abandoned
    BY <1>2, <1>4 DEF Finished, Record
  <2>2. thread.commit = "NotCommitted" /\ (thread.error \/ thread.bytes # NoBytes)
    BY <1>1, <2>1 DEF StorageInv, OneThread, Operating, IsRead
  <2>3. ~thread.error
    BY <1>2, <2>1, <2>2 DEF Finished, Record
  <2> QED BY <1>2, <2>1, <2>2, <2>3 DEF Finished, Record
<1> QED BY <1>1, <1>5, <1>6, <1>7, <1>8 DEF RecordOK, Request, Terminal

Left == IF Collecting THEN 0 ELSE worker

\* What finish leaves of the records is in order, with its worker gone.
LEMMA CollectedOK ==
  ASSUME StorageInv
  PROVE  /\ Collected \in [Request -> Record]
         /\ \A r \in Request : /\ RecordOK(r, Collected[r], Left)
                               /\ Collected[r].queued = records[r].queued
                               /\ r # worker => Collected[r] = records[r]
                               /\ records[r].status # "None" => Collected[r].status # "None"
<1>1. CASE ~Collecting
  BY <1>1 DEF Collected, Left, StorageInv, SessionTyped, RecordsOK
<1>2. CASE Collecting
  <2>1. worker \in Request /\ Finished(records[worker]) \in Record
    BY <1>2, FinishedOK
  <2>2. Collected = [records EXCEPT ![worker] = Finished(records[worker])]
    BY <1>2 DEF Collected
  <2>3. Collected \in [Request -> Record]
    BY <2>1, <2>2 DEF StorageInv, SessionTyped
  <2>4. ~records[worker].queued
    BY <1>2, <2>1 DEF StorageInv, RecordsOK, RecordOK
  <2>5. ASSUME NEW r \in Request
        PROVE  /\ RecordOK(r, Collected[r], 0)
               /\ Collected[r].queued = records[r].queued
               /\ r # worker => Collected[r] = records[r]
               /\ records[r].status # "None" => Collected[r].status # "None"
    <3>1. CASE r = worker
      BY <1>2, <2>1, <2>2, <2>4, <3>1, FinishedOK DEF StorageInv, SessionTyped, Record
    <3>2. CASE r # worker
      BY <2>1, <2>2, <3>2 DEF StorageInv, SessionTyped, RecordsOK, RecordOK, Request
    <3> QED BY <3>1, <3>2
  <2> QED BY <1>2, <2>3, <2>5 DEF Left
<1> QED BY <1>1, <1>2

\* A step that tells every end keeps it so.
LEMMA ToldStep ==
  ASSUME StorageInv, Answered, records' \in [Request -> Record]
  PROVE  /\ EndsAreTold'
         /\ answers' \in [Request -> {"none", "NotCommitted", "Committed", "Unknown", "Lost"}]
BY DEF StorageInv, SessionTyped, Answered, EndsAreTold, Record, Terminal

\* The oldest of the records that may be forgotten has ended and is not at work.
LEMMA EvictedSettled ==
  ASSUME NEW r \in Evicted
  PROVE  r \in Request /\ Settled(r)
BY DEF Evicted, First, Evictable, Present

-----------------------------------------------------------------------------
(* The invariant is inductive *)

\* Initially nothing is held and nothing was asked.
LEMMA StorageInit == Init => StorageInv
<1> SUFFICES ASSUME Init PROVE StorageInv
  OBVIOUS
<1>1. NoRecord \in Record /\ NoThread \in Thread
  BY DEF NoRecord, Record, NoThread, Thread
<1>2. SessionTyped
  BY <1>1 DEF Init, SessionTyped
<1>3. OneOwner /\ OneThread
  BY DEF Init, OneOwner, OneThread, HoldsOwner, NoThread
<1>4. RecordsOK /\ EndsAreTold
  BY DEF Init, RecordsOK, RecordOK, EndsAreTold, NoRecord, Terminal, Request
<1> QED BY <1>2, <1>3, <1>4 DEF StorageInv

\* The worker is collected, or goes on.
LEMMA KeepWorkerStep ==
  ASSUME StorageInv, KeepWorker
  PROVE  /\ worker' = Left
         /\ worker' \in {0} \cup Request /\ thread' \in Thread
         /\ UNCHANGED <<asked>> => OneThread'
         /\ HoldsOwner' <=> HoldsOwner /\ ~Collecting
<1>1. NoThread \in Thread /\ NoThread.pc = "none"
  BY DEF NoThread, Thread
<1>2. CASE Collecting
  BY <1>1, <1>2 DEF KeepWorker, Left, OneThread, HoldsOwner, StorageInv, SessionTyped, Operating
<1>3. CASE ~Collecting
  BY <1>3 DEF KeepWorker, Left, OneThread, HoldsOwner, StorageInv, SessionTyped, Operating, Collecting
<1> QED BY <1>2, <1>3

\* The owner comes back with the worker, and only then.
LEMMA OwnerBackHeld ==
  ASSUME StorageInv
  PROVE  /\ OwnerBack \in BOOLEAN
         /\ lease <=> OwnerBack \/ (HoldsOwner /\ ~Collecting)
         /\ ~(OwnerBack /\ HoldsOwner /\ ~Collecting)
         /\ main = "open" /\ StillAccepting /\ ~Working => OwnerBack
         /\ StillAccepting => accepting
BY DEF StorageInv, SessionTyped, OneOwner, OneThread, OwnerBack, HoldsOwner, Collecting, Ended,
       StillAccepting, Working, Thread

(* Every step of the loader's thread preserves it. *)

\* A session without worker and records takes the free namespace.
LEMMA BindStep == StorageInv /\ Bind => StorageInv'
<1> SUFFICES ASSUME StorageInv, Bind PROVE StorageInv'
  OBVIOUS
<1>1. SessionTyped' /\ OneOwner' /\ OneThread'
  BY DEF Bind, StorageInv, SessionTyped, OneOwner, OneThread, HoldsOwner, Operating
<1>2. RecordsOK' /\ EndsAreTold'
  BY DEF Bind, StorageInv, RecordsOK, RecordOK, IsRead, EndsAreTold
<1> QED BY <1>1, <1>2 DEF StorageInv

\* A new record; the oldest settled one may go for it.
LEMMA AcceptStep ==
  ASSUME StorageInv, NEW r \in Request, NEW operation \in Operation, Accept(r, operation)
  PROVE  StorageInv'
<1>1. asked[r] = NoOperation
  BY DEF Accept, First, Fresh, Request, StorageInv, SessionTyped
<1>2. records[r].status = "None" /\ worker # r
  BY <1>1 DEF StorageInv, RecordsOK, RecordOK
<1>3. AcceptRecord \in Record /\ NoRecord \in Record
  BY DEF AcceptRecord, NoRecord, Record
<1>4. records' \in [Request -> Record]
  BY <1>3 DEF Accept, StorageInv, SessionTyped
<1>5. asked' = [asked EXCEPT ![r] = operation] /\ asked' \in [Request -> Operation \cup {NoOperation}]
  BY DEF Accept, StorageInv, SessionTyped
<1>6. SessionTyped'
  BY <1>4, <1>5 DEF Accept, StorageInv, SessionTyped
<1>7. OneOwner'
  BY DEF Accept, StorageInv, OneOwner, HoldsOwner
<1>8. OneThread'
  <2>1. worker # 0 => worker \in Request /\ asked'[worker] = asked[worker]
    BY <1>2, <1>5 DEF StorageInv, SessionTyped
  <2>2. thread.pc \in {"prepared", "returned"} => Operating' = Operating
    BY <2>1 DEF Accept, StorageInv, OneThread, Operating
  <2> QED BY <2>2 DEF Accept, StorageInv, OneThread, Operating
<1>9. RecordsOK'
  <2> SUFFICES ASSUME NEW s \in Request PROVE RecordOK(s, records[s], worker)'
    BY DEF RecordsOK
  <2>1. CASE s = r
    <3>1. records'[s] = AcceptRecord /\ worker' = worker
      BY <2>1 DEF Accept
    <3>2. asked'[s] # NoOperation
      BY <1>5, <2>1 DEF StorageInv, SessionTyped, Operation, NoOperation
    <3> QED BY <1>2, <2>1, <3>1, <3>2 DEF RecordOK, AcceptRecord, NoRecord
  <2>2. CASE s # r /\ s \in Evicted
    BY <2>2, EvictedSettled DEF Accept, RecordOK, IsRead, NoRecord, StorageInv, RecordsOK, Settled, NoBytes
  <2>3. CASE s # r /\ s \notin Evicted
    BY <1>5, <2>3 DEF Accept, RecordOK, IsRead, StorageInv, SessionTyped, RecordsOK
  <2> QED BY <2>1, <2>2, <2>3
<1>10. EndsAreTold'
  BY DEF Accept, StorageInv, EndsAreTold, AcceptRecord, NoRecord, Terminal
<1> QED BY <1>6, <1>7, <1>8, <1>9, <1>10 DEF StorageInv

\* Only charges are drained.
LEMMA AcceptRefusedStep == StorageInv /\ AcceptRefused => StorageInv'
<1> SUFFICES ASSUME StorageInv, AcceptRefused PROVE StorageInv'
  OBVIOUS
<1>1. SessionTyped' /\ OneOwner' /\ OneThread'
  BY DEF AcceptRefused, StorageInv, SessionTyped, OneOwner, OneThread, HoldsOwner, Operating
<1>2. RecordsOK' /\ EndsAreTold'
  BY DEF AcceptRefused, StorageInv, RecordsOK, RecordOK, IsRead, EndsAreTold
<1> QED BY <1>1, <1>2 DEF StorageInv

\* A claimed payload takes its charge along; no thread is at such a record.
LEMMA TakeStep == ASSUME StorageInv, NEW r \in Request, Take(r) PROVE StorageInv'
<1>1. records[r] \in Record /\ RecordOK(r, records[r], worker) /\ records[r].payload # NoBytes
  BY DEF Take, StorageInv, SessionTyped, RecordsOK
<1>2. ~records[r].active /\ ~records[r].queued
  BY <1>1 DEF RecordOK, Terminal
<1>3. SessionTyped' /\ OneOwner' /\ OneThread'
  BY <1>1 DEF Take, StorageInv, SessionTyped, OneOwner, OneThread, HoldsOwner, Operating, Record
<1>4. RecordsOK'
  <2> SUFFICES ASSUME NEW s \in Request PROVE RecordOK(s, records[s], worker)'
    BY DEF RecordsOK
  <2>1. CASE s = r
    BY <1>1, <1>2, <2>1 DEF Take, StorageInv, SessionTyped, RecordOK, IsRead, Record
  <2>2. CASE s # r
    BY <2>2 DEF Take, StorageInv, SessionTyped, RecordsOK, RecordOK, IsRead
  <2> QED BY <2>1, <2>2
<1>5. EndsAreTold'
  BY <1>1 DEF Take, StorageInv, SessionTyped, EndsAreTold, Record
<1> QED BY <1>3, <1>4, <1>5 DEF StorageInv

\* An abandoned read keeps its charge while its thread runs.
LEMMA AbandonStep == ASSUME StorageInv, NEW r \in Request, Abandon(r) PROVE StorageInv'
<1> DEFINE old == records[r]
           new == records'[r]
<1>1. old \in Record /\ RecordOK(r, old, worker) /\ old.status # "None"
  BY DEF Abandon, Present, StorageInv, SessionTyped, RecordsOK
<1>2. records' = [records EXCEPT ![r] = new]
  BY DEF Abandon, StorageInv, SessionTyped
<1>3. /\ new \in Record /\ new.active = old.active /\ new.payload = NoBytes /\ new.claimed
      /\ \/ old.active /\ new.status = old.status /\ new.queued = old.queued /\ new.charged = old.charged
         \/ /\ ~old.active /\ ~new.queued
            /\ new.status = IF old.queued THEN "Cancelled" ELSE old.status
  <2>1. CASE old.active
    <3>1. new = Abandoned(old)
      BY <2>1 DEF Abandon, StorageInv, SessionTyped
    <3> QED BY <1>1, <2>1, <3>1 DEF Abandoned, Record
  <2>2. CASE ~old.active
    <3>1. new = Withdrawn(old)
      BY <2>2 DEF Abandon, StorageInv, SessionTyped
    <3> QED BY <1>1, <2>2, <3>1 DEF Withdrawn, Abandoned, Record
  <2> QED BY <2>1, <2>2
<1> HIDE DEF new
<1>4. records' \in [Request -> Record] /\ \A s \in Request \ {r} : records'[s] = records[s]
  BY <1>2, <1>3 DEF StorageInv, SessionTyped
<1>5. EndsAreTold' /\ SessionTyped'
  BY <1>4, ToldStep DEF Abandon, StorageInv, SessionTyped
<1>6. OneOwner' /\ OneThread'
  BY DEF Abandon, StorageInv, OneOwner, OneThread, HoldsOwner, Operating
<1>7. RecordsOK'
  <2> SUFFICES ASSUME NEW s \in Request PROVE RecordOK(s, records[s], worker)'
    BY DEF RecordsOK
  <2>1. CASE s = r
    BY <1>1, <1>3, <2>1 DEF Abandon, RecordOK, IsRead, new
  <2>2. CASE s # r
    BY <1>4, <2>2 DEF Abandon, StorageInv, RecordsOK, RecordOK, IsRead
  <2> QED BY <2>1, <2>2
<1> QED BY <1>5, <1>6, <1>7 DEF StorageInv

\* The worker that ended gives back the owner.
LEMMA AdvanceCollectsStep == StorageInv /\ AdvanceCollects => StorageInv'
<1> SUFFICES ASSUME StorageInv, AdvanceCollects PROVE StorageInv'
  OBVIOUS
<1> USE KeepWorkerStep, CollectedOK, OwnerBackHeld DEF AdvanceCollects
<1>1. SessionTyped' /\ EndsAreTold'
  BY ToldStep DEF StorageInv, SessionTyped
<1>2. OneThread'
  OBVIOUS
<1>3. OneOwner'
  BY DEF StorageInv, OneOwner, Left, Working, Collecting
<1>4. RecordsOK'
  BY DEF RecordsOK, RecordOK, IsRead
<1> QED BY <1>1, <1>2, <1>3, <1>4 DEF StorageInv

\* What waited fails and gives back its charge.
LEMMA AdvanceStopsStep == StorageInv /\ AdvanceStops => StorageInv'
<1> SUFFICES ASSUME StorageInv, AdvanceStops PROVE StorageInv'
  OBVIOUS
<1> USE KeepWorkerStep, CollectedOK, OwnerBackHeld DEF AdvanceStops
<1>1. ASSUME NEW r \in Request
      PROVE  records'[r] \in Record /\ RecordOK(r, records[r], worker)'
  <2>1. CASE r \in Queued
    <3>1. records'[r] = [Collected[r] EXCEPT !.queued = FALSE, !.status = "Failed", !.charged = FALSE]
      BY <2>1
    <3>2. Collected[r].queued /\ Collected[r] \in Record /\ RecordOK(r, Collected[r], Left)
      BY <2>1 DEF Queued
    <3> QED BY <3>1, <3>2 DEF RecordOK, IsRead, Record, Terminal
  <2>2. CASE r \notin Queued
    BY <2>2 DEF RecordOK, IsRead
  <2> QED BY <2>1, <2>2
<1>2. records' \in [Request -> Record]
  BY <1>1
<1>3. SessionTyped' /\ EndsAreTold'
  BY <1>2, ToldStep DEF StorageInv, SessionTyped
<1>4. OneThread' /\ RecordsOK'
  BY <1>1 DEF RecordsOK
<1>5. OneOwner'
  BY DEF StorageInv, OneOwner
<1> QED BY <1>3, <1>4, <1>5 DEF StorageInv

\* The owner moves to the thread of the oldest request.
LEMMA AdvanceStartsStep == StorageInv /\ AdvanceStarts => StorageInv'
<1> SUFFICES ASSUME StorageInv, AdvanceStarts PROVE StorageInv'
  OBVIOUS
<1>1. PICK r \in First(Queued) :
        /\ main = "open" /\ StillAccepting /\ ~Working
        /\ records' = [Collected EXCEPT ![r].queued = FALSE,
                                        ![r].active = OwnerBack,
                                        ![r].status = IF OwnerBack THEN "Preparing" ELSE @]
        /\ worker' = IF OwnerBack THEN r ELSE 0
        /\ thread' = IF OwnerBack THEN [NoThread EXCEPT !.pc = "begun", !.request = r] ELSE NoThread
        /\ owner' = FALSE /\ Answered
        /\ UNCHANGED <<disk, lease, main, accepting, asked>>
  BY DEF AdvanceStarts
<1>2. OwnerBack /\ lease /\ accepting
  BY <1>1, OwnerBackHeld
<1>3. r \in Request /\ r # 0 /\ Collected[r].queued /\ Left = 0
  BY <1>1 DEF First, Queued, Request, Left, Working, Collecting, StorageInv, OneThread
<1>4. /\ Collected \in [Request -> Record]
      /\ \A s \in Request : RecordOK(s, Collected[s], 0)
  BY <1>3, CollectedOK
<1>5. records'[r] = [Collected[r] EXCEPT !.queued = FALSE, !.active = TRUE, !.status = "Preparing"]
  BY <1>1, <1>2, <1>3, <1>4
<1>6. records'[r] \in Record /\ RecordOK(r, records[r], worker)'
  BY <1>1, <1>2, <1>3, <1>4, <1>5 DEF RecordOK, IsRead, Record, Terminal
<1>7. ASSUME NEW s \in Request, s # r PROVE records'[s] = Collected[s] /\ RecordOK(s, records[s], worker)'
  BY <1>1, <1>2, <1>3, <1>4, <1>7 DEF RecordOK, IsRead, Request
<1>8. records' \in [Request -> Record] /\ RecordsOK'
  <2>1. records' \in [Request -> Record]
    BY <1>1, <1>4, <1>5, <1>6
  <2> QED BY <1>6, <1>7, <2>1 DEF RecordsOK
<1>9. thread' \in Thread /\ thread'.pc = "begun" /\ thread'.request = r /\ worker' = r
  BY <1>1, <1>2, <1>3 DEF NoThread, Thread
<1>10. SessionTyped' /\ EndsAreTold'
  BY <1>1, <1>3, <1>8, <1>9, ToldStep DEF StorageInv, SessionTyped
<1>11. OneOwner' /\ OneThread'
  BY <1>1, <1>2, <1>3, <1>9 DEF OneOwner, OneThread, HoldsOwner
<1> QED BY <1>8, <1>10, <1>11 DEF StorageInv

\* A thread that is not made takes the owner and the lease with it.
LEMMA AdvanceStartFailsStep == StorageInv /\ AdvanceStartFails => StorageInv'
<1> SUFFICES ASSUME StorageInv, AdvanceStartFails PROVE StorageInv'
  OBVIOUS
<1>1. PICK r \in First(Queued) :
        /\ main = "open" /\ StillAccepting /\ ~Working
        /\ records' = [Collected EXCEPT ![r].queued = FALSE, ![r].status = "Failed", ![r].charged = FALSE]
        /\ accepting' = FALSE /\ owner' = FALSE /\ lease' = FALSE
        /\ worker' = 0 /\ thread' = NoThread /\ Answered
        /\ UNCHANGED <<disk, main, asked>>
  BY DEF AdvanceStartFails
<1>2. r \in Request /\ r # 0 /\ Collected[r].queued /\ Left = 0
  BY <1>1 DEF First, Queued, Request, Left, Working, Collecting, StorageInv, OneThread
<1>3. /\ Collected \in [Request -> Record]
      /\ \A s \in Request : RecordOK(s, Collected[s], 0)
  BY <1>2, CollectedOK
<1>4. records'[r] = [Collected[r] EXCEPT !.queued = FALSE, !.status = "Failed", !.charged = FALSE]
  BY <1>1, <1>2, <1>3
<1>5. records'[r] \in Record /\ RecordOK(r, records[r], worker)'
  BY <1>1, <1>2, <1>3, <1>4 DEF RecordOK, IsRead, Record, Terminal
<1>6. ASSUME NEW s \in Request, s # r PROVE records'[s] = Collected[s] /\ RecordOK(s, records[s], worker)'
  BY <1>1, <1>3, <1>6 DEF RecordOK, IsRead
<1>7. records' \in [Request -> Record] /\ RecordsOK'
  <2>1. records' \in [Request -> Record]
    BY <1>1, <1>3, <1>4, <1>5
  <2> QED BY <1>5, <1>6, <2>1 DEF RecordsOK
<1>8. thread' \in Thread /\ thread'.pc = "none"
  BY <1>1 DEF NoThread, Thread
<1>9. SessionTyped' /\ EndsAreTold'
  BY <1>1, <1>7, <1>8, ToldStep DEF StorageInv, SessionTyped
<1>10. OneOwner' /\ OneThread'
  BY <1>1, <1>8 DEF OneOwner, OneThread, HoldsOwner
<1> QED BY <1>7, <1>9, <1>10 DEF StorageInv

\* Nothing is let go before the worker is joined.
LEMMA CloseBeginStep == StorageInv /\ CloseBegin => StorageInv'
<1> SUFFICES ASSUME StorageInv, CloseBegin PROVE StorageInv'
  OBVIOUS
<1>1. SessionTyped' /\ OneOwner' /\ OneThread'
  BY DEF CloseBegin, StorageInv, SessionTyped, OneOwner, OneThread, HoldsOwner, Operating
<1>2. RecordsOK' /\ EndsAreTold'
  BY DEF CloseBegin, StorageInv, RecordsOK, RecordOK, IsRead, EndsAreTold
<1> QED BY <1>1, <1>2 DEF StorageInv

\* After the join nothing is active, queued or unclaimed.
LEMMA CloseEndStep == StorageInv /\ CloseEnd => StorageInv'
<1> SUFFICES ASSUME StorageInv, CloseEnd PROVE StorageInv'
  OBVIOUS
<1>1. Left = 0
  BY DEF CloseEnd, Left, Working, Collecting
<1>2. /\ Collected \in [Request -> Record]
      /\ \A s \in Request : RecordOK(s, Collected[s], 0)
  BY <1>1, CollectedOK
<1>3. NoRecord \in Record
  BY DEF NoRecord, Record
<1>4. ASSUME NEW r \in Request
      PROVE  records'[r] \in Record /\ RecordOK(r, records[r], worker)'
  <2>1. CASE r \in Present
    <3>1. records'[r] = Closed(r, Collected[r])
      BY <2>1 DEF CloseEnd
    <3>2. /\ Collected[r] \in Record /\ ~Collected[r].active
          /\ Collected[r].status # "None" => asked[r] # NoOperation
      BY <1>2 DEF RecordOK, Request
    <3>3. records'[r] \in Record
      BY <1>2, <3>1 DEF Closed, Record, IsRead
    <3>4. /\ ~records'[r].queued /\ ~records'[r].active /\ records'[r].payload = NoBytes
          /\ records'[r].status # "Accepted" /\ (IsRead(r) => records'[r].claimed)
          /\ records'[r].status # "None" => asked[r] # NoOperation
      <4>1. Collected[r].queued <=> Collected[r].status = "Accepted"
        BY <1>2 DEF RecordOK
      <4>2. Collected[r].queued => Collected[r].status # "None"
        BY <4>1
      <4>3. /\ records'[r].queued = FALSE /\ records'[r].active = Collected[r].active
            /\ records'[r].payload = NoBytes /\ records'[r].claimed = IsRead(r)
        BY <3>1, <3>2 DEF Closed, Record
      <4>4. records'[r].status = IF Collected[r].queued THEN "Cancelled" ELSE Collected[r].status
        BY <3>1, <3>2 DEF Closed, Record
      <4> QED BY <3>2, <4>1, <4>2, <4>3, <4>4
    <3>5. asked' = asked /\ worker' = 0 /\ (IsRead(r))' = IsRead(r)
      BY DEF CloseEnd, IsRead
    <3> QED BY <3>3, <3>4, <3>5 DEF RecordOK, Request
  <2>2. CASE r \notin Present
    BY <1>3, <2>2 DEF CloseEnd, RecordOK, NoRecord, Request
  <2> QED BY <2>1, <2>2
<1>5. records' \in [Request -> Record] /\ RecordsOK'
  BY <1>4 DEF CloseEnd, RecordsOK
<1>6. thread' \in Thread /\ thread'.pc = "none"
  BY DEF CloseEnd, NoThread, Thread
<1>7. SessionTyped' /\ EndsAreTold'
  BY <1>5, <1>6, ToldStep DEF CloseEnd, StorageInv, SessionTyped
<1>8. OneThread'
  BY <1>6 DEF CloseEnd, OneThread
<1>9. OneOwner'
  BY <1>6, OwnerBackHeld DEF CloseEnd, OneOwner, HoldsOwner, StorageInv, Working, Collecting,
     OneThread, Ended
<1> QED BY <1>5, <1>7, <1>8, <1>9 DEF StorageInv

\* A dropped session has no owner; its thread may.
LEMMA DropBeginStep == StorageInv /\ DropBegin => StorageInv'
<1> SUFFICES ASSUME StorageInv, DropBegin PROVE StorageInv'
  OBVIOUS
<1>1. SessionTyped' /\ OneOwner' /\ OneThread'
  BY DEF DropBegin, StorageInv, SessionTyped, OneOwner, OneThread, HoldsOwner, Operating
<1>2. RecordsOK' /\ EndsAreTold'
  BY DEF DropBegin, StorageInv, RecordsOK, RecordOK, IsRead, EndsAreTold
<1> QED BY <1>1, <1>2 DEF StorageInv

\* Without a session there is nothing to keep.
LEMMA GoneStep ==
  ASSUME StorageInv, SessionGone, thread' = NoThread, lease' = FALSE
  PROVE  StorageInv'
<1>1. NoRecord \in Record /\ NoThread \in Thread
  BY DEF NoRecord, Record, NoThread, Thread
<1>2. SessionTyped'
  BY <1>1 DEF SessionGone, LostUnanswered, StorageInv, SessionTyped
<1>3. OneOwner' /\ OneThread'
  BY <1>2 DEF SessionGone, SessionTyped, OneOwner, OneThread, HoldsOwner, NoThread
<1>4. RecordsOK' /\ EndsAreTold'
  BY DEF SessionGone, RecordsOK, RecordOK, EndsAreTold, NoRecord, Terminal, Request
<1> QED BY <1>2, <1>3, <1>4 DEF StorageInv

\* The thread is joined, and the owner it held is dropped.
LEMMA DropEndStep == StorageInv /\ DropEnd => StorageInv'
<1> SUFFICES ASSUME StorageInv, DropEnd PROVE lease' = FALSE /\ SessionGone /\ thread' = NoThread
  BY GoneStep
<1> QED BY DEF DropEnd, StorageInv, SessionTyped, OneOwner, OneThread, HoldsOwner, Working, Collecting, Ended

\* A dead process holds nothing.
LEMMA DieStep == StorageInv /\ Die => StorageInv'
BY GoneStep DEF Die

\* A new session starts with nothing.
LEMMA NewLoaderStep == StorageInv /\ NewLoader => StorageInv'
<1> SUFFICES ASSUME StorageInv, NewLoader, accepting \in BOOLEAN PROVE StorageInv'
  BY DEF StorageInv, SessionTyped
<1>1. SessionTyped' /\ OneOwner' /\ OneThread'
  BY DEF NewLoader, session, StorageInv, SessionTyped, OneOwner, OneThread, HoldsOwner, Operating
<1>2. RecordsOK' /\ EndsAreTold'
  BY DEF NewLoader, session, StorageInv, RecordsOK, RecordOK, IsRead, EndsAreTold
<1> QED BY <1>1, <1>2 DEF StorageInv

\* Every step of the worker's thread preserves it.
LEMMA ThreadRecords ==
  ASSUME StorageInv, UNCHANGED <<asked, records, worker, answers>>
  PROVE  RecordsOK' /\ EndsAreTold'
BY DEF StorageInv, RecordsOK, RecordOK, IsRead, EndsAreTold

\* What a running thread works at.
LEMMA RunningThread ==
  ASSUME StorageInv, Running
  PROVE  /\ thread.request \in Request /\ asked[thread.request] \in Operation
         /\ Target \in Bytes \cup {Missing}
<1>1. worker \in Request /\ worker # 0 /\ thread.request = worker
  BY DEF StorageInv, SessionTyped, OneThread, Running
<1>2. asked[worker] # NoOperation /\ asked[worker] \in Operation
  BY <1>1 DEF StorageInv, SessionTyped, RecordsOK, RecordOK
<1> QED BY <1>1, <1>2 DEF StorageInv, SessionTyped, Target, Operating, Operation

\* A call that returns gives the owner to the one who joins the thread.
LEMMA ReturnStep ==
  ASSUME StorageInv, Running, ThreadFrame, disk' \in [Key -> Bytes \cup {Missing}],
         NEW commit \in {"NotCommitted", "Committed", "Unknown"}, NEW error \in BOOLEAN,
         NEW bytes \in Bytes \cup {NoBytes}, Return(commit, error, bytes),
         Operating.kind = "Read" => commit = "NotCommitted" /\ (error \/ bytes # NoBytes)
  PROVE  StorageInv'
<1>1. thread \in Thread /\ thread' = [thread EXCEPT !.pc = "returned", !.commit = commit, !.error = error, !.bytes = bytes]
  BY DEF StorageInv, SessionTyped, Return
<1>2. /\ thread' \in Thread /\ thread'.pc = "returned" /\ thread'.request = thread.request
      /\ thread'.commit = commit /\ thread'.error = error /\ thread'.bytes = bytes
  BY <1>1 DEF Thread
<1>3. SessionTyped'
  BY <1>2 DEF ThreadFrame, session, StorageInv, SessionTyped
<1>4. OneOwner'
  BY <1>2 DEF ThreadFrame, session, StorageInv, OneOwner, HoldsOwner, Running
<1>5. OneThread'
  BY <1>2 DEF ThreadFrame, session, StorageInv, OneThread, Operating, Running
<1> QED BY <1>3, <1>4, <1>5, ThreadRecords DEF ThreadFrame, session, StorageInv

\* A read returns what it found.
LEMMA ReadStep == StorageInv /\ Read => StorageInv'
<1> SUFFICES ASSUME StorageInv, Read PROVE StorageInv'
  OBVIOUS
<1>1. Running /\ disk' \in [Key -> Bytes \cup {Missing}] /\ ThreadFrame
  BY DEF Read, Running, StorageInv, SessionTyped
<1>2. CASE Target = Missing
  BY <1>1, <1>2, ReturnStep DEF Read, NoBytes
<1>3. CASE Target # Missing
  BY <1>1, <1>3, ReturnStep, RunningThread DEF Read, NoBytes, Missing
<1> QED BY <1>2, <1>3

\* Only a write is prepared.
LEMMA PrepareStep == StorageInv /\ Prepare => StorageInv'
<1> SUFFICES ASSUME StorageInv, Prepare PROVE StorageInv'
  OBVIOUS
<1>1. /\ thread' \in Thread /\ thread'.pc = "prepared" /\ thread'.request = thread.request
  BY DEF Prepare, StorageInv, SessionTyped, Thread
<1>2. SessionTyped' /\ OneOwner'
  BY <1>1 DEF Prepare, ThreadFrame, session, StorageInv, SessionTyped, OneOwner, HoldsOwner
<1>3. OneThread'
  BY <1>1 DEF Prepare, ThreadFrame, session, StorageInv, OneThread, Operating
<1> QED BY <1>2, <1>3, ThreadRecords DEF Prepare, ThreadFrame, session, StorageInv

\* A delete of nothing fails.
LEMMA DeleteMissingStep == StorageInv /\ DeleteMissing => StorageInv'
<1> SUFFICES ASSUME StorageInv, DeleteMissing PROVE StorageInv'
  OBVIOUS
<1>1. Running /\ disk' \in [Key -> Bytes \cup {Missing}] /\ ThreadFrame
  BY DEF DeleteMissing, Running, StorageInv, SessionTyped
<1> QED BY <1>1, ReturnStep DEF DeleteMissing, NoBytes

\* What commits is no read, and leaves bytes or nothing.
LEMMA CommittingThread ==
  ASSUME StorageInv, Committing
  PROVE  /\ Running /\ Operating.kind # "Read"
         /\ Changed => disk' \in [Key -> Bytes \cup {Missing}]
<1>1. Running /\ Operating.kind # "Read"
  BY DEF StorageInv, OneThread, Committing, Running
<1>2. thread.request \in Bytes
  BY <1>1, RunningThread DEF Bytes
<1> QED BY <1>1, <1>2 DEF Changed, StorageInv, SessionTyped

\* A change is committed.
LEMMA CommitStep == StorageInv /\ Commit => StorageInv'
<1> SUFFICES ASSUME StorageInv, Commit PROVE StorageInv'
  OBVIOUS
<1> QED BY CommittingThread, ReturnStep DEF Commit, NoBytes

\* A change whose answer is unknown.
LEMMA CommitUnknownStep == StorageInv /\ CommitUnknown => StorageInv'
<1> SUFFICES ASSUME StorageInv, CommitUnknown PROVE StorageInv'
  OBVIOUS
<1>1. disk' \in [Key -> Bytes \cup {Missing}]
  BY CommittingThread DEF CommitUnknown, StorageInv, SessionTyped
<1> QED BY <1>1, CommittingThread, ReturnStep DEF CommitUnknown, NoBytes

\* A call that fails before the change.
LEMMA ThreadFailsStep == StorageInv /\ ThreadFails => StorageInv'
<1> SUFFICES ASSUME StorageInv, ThreadFails PROVE StorageInv'
  OBVIOUS
<1>1. disk' \in [Key -> Bytes \cup {Missing}]
  BY DEF ThreadFails, StorageInv, SessionTyped
<1> QED BY <1>1, ReturnStep DEF ThreadFails, NoBytes

\* A panic drops the owner and keeps the request.
LEMMA ThreadPanicsStep == StorageInv /\ ThreadPanics => StorageInv'
<1> SUFFICES ASSUME StorageInv, ThreadPanics PROVE StorageInv'
  OBVIOUS
<1>1. /\ thread' \in Thread /\ thread'.pc = "panicked" /\ thread'.request = thread.request
  BY DEF ThreadPanics, StorageInv, SessionTyped, Thread, NoThread
<1>2. SessionTyped' /\ OneOwner'
  BY <1>1 DEF ThreadPanics, session, StorageInv, SessionTyped, OneOwner, HoldsOwner
<1>3. OneThread'
  BY <1>1 DEF ThreadPanics, session, StorageInv, OneThread
<1> QED BY <1>2, <1>3, ThreadRecords DEF ThreadPanics, session, StorageInv

\* Other owners write only what no session holds.
LEMMA OtherOwnerStep == StorageInv /\ OtherOwner => StorageInv'
<1> SUFFICES ASSUME StorageInv, OtherOwner PROVE StorageInv'
  OBVIOUS
<1>1. disk' \in [Key -> Bytes \cup {Missing}]
  BY DEF OtherOwner, StorageInv, SessionTyped, Bytes
<1>2. SessionTyped' /\ OneOwner' /\ OneThread'
  BY <1>1 DEF OtherOwner, session, StorageInv, SessionTyped, OneOwner, OneThread, HoldsOwner, Operating
<1> QED BY <1>2, ThreadRecords DEF OtherOwner, session, StorageInv

\* Every step preserves the invariant.
LEMMA StorageNext == StorageInv /\ [Next]_vars => StorageInv'
<1> SUFFICES ASSUME StorageInv, [Next]_vars PROVE StorageInv'
  OBVIOUS
<1>1. CASE Bind \/ AcceptRefused \/ Advance \/ AdvanceStartFails
  BY <1>1, BindStep, AcceptRefusedStep, AdvanceCollectsStep, AdvanceStopsStep, AdvanceStartsStep,
     AdvanceStartFailsStep DEF Advance
<1>2. CASE \E r \in Request : Take(r) \/ Abandon(r) \/ \E operation \in Operation : Accept(r, operation)
  BY <1>2, TakeStep, AbandonStep, AcceptStep
<1>3. CASE CloseBegin \/ CloseEnd \/ DropBegin \/ DropEnd \/ Die \/ NewLoader
  BY <1>3, CloseBeginStep, CloseEndStep, DropBeginStep, DropEndStep, DieStep, NewLoaderStep
<1>4. CASE ThreadStep \/ CommitUnknown \/ ThreadFails \/ ThreadPanics
  BY <1>4, ReadStep, PrepareStep, DeleteMissingStep, CommitStep, CommitUnknownStep, ThreadFailsStep,
     ThreadPanicsStep DEF ThreadStep
<1>5. CASE OtherOwner
  BY <1>5, OtherOwnerStep
<1>6. CASE UNCHANGED vars
  <2>1. SessionTyped' /\ OneOwner' /\ OneThread'
    BY <1>6 DEF vars, session, StorageInv, SessionTyped, OneOwner, OneThread, HoldsOwner, Operating
  <2> QED BY <1>6, <2>1, ThreadRecords DEF vars, session, StorageInv
<1> QED BY <1>1, <1>2, <1>3, <1>4, <1>5, <1>6 DEF Next

-----------------------------------------------------------------------------
(* What follows from it *)

\* The inductive invariant of the storage session.
THEOREM StorageInvAlways == Spec => []StorageInv
  BY StorageInit, StorageNext, PTL DEF Spec

\* The lease is held while a change may come, by the session or its one thread.
THEOREM LeaseCoversIoAlways == Spec => []LeaseCoversIo
<1>1. StorageInv => LeaseCoversIo
  BY DEF StorageInv, OneOwner, HoldsOwner, LeaseCoversIo, Running
<1> QED BY <1>1, StorageInvAlways, PTL

\* I/O in flight and bytes not yet claimed are paid for.
THEOREM IoIsChargedAlways == Spec => []IoIsCharged
<1>1. StorageInv => IoIsCharged
  BY DEF StorageInv, SessionTyped, OneThread, RecordsOK, RecordOK, IoIsCharged, Running, Request
<1> QED BY <1>1, StorageInvAlways, PTL

\* No result is forgotten before it was told and, if it was found, claimed.
THEOREM ForgottenWasSettledAlways == Spec => ForgottenWasSettled
<1>1. StorageInv /\ StorageInv' /\ [Next]_vars => ForgetsSettled
  <2> SUFFICES ASSUME StorageInv, StorageInv', [Next]_vars, main' = "open", NEW r \in Request,
                      records[r].status # "None", records'[r].status = "None"
               PROVE  /\ answers[r] # "none"
                      /\ IsRead(r) /\ records[r].status = "Applied" => records[r].claimed
    BY DEF ForgetsSettled
  <2>1. ASSUME NEW s \in Request, NEW operation \in Operation, Accept(s, operation)
        PROVE  answers[r] # "none" /\ (IsRead(r) /\ records[r].status = "Applied" => records[r].claimed)
    <3>1. r \in Evicted
      BY <2>1 DEF Accept, AcceptRecord, NoRecord
    <3>2. Settled(r)
      BY <3>1, EvictedSettled
    <3> QED BY <3>2 DEF Settled, StorageInv, RecordsOK, RecordOK, EndsAreTold
  <2>2. ASSUME NEW s \in Request, Take(s) \/ Abandon(s) PROVE FALSE
    <3>2. records[s] \in Record /\ records \in [Request -> Record]
      BY DEF StorageInv, SessionTyped
    <3>3. CASE Take(s)
      BY <3>2, <3>3 DEF Take, Record
    <3>4. CASE Abandon(s)
      <4>1. records' = [records EXCEPT ![s] = Abandoned(@)] \/ records' = [records EXCEPT ![s] = Withdrawn(@)]
        BY <3>4 DEF Abandon
      <4>2. Abandoned(records[s]).status = records[s].status
        BY <3>2 DEF Abandoned, Record
      <4>3. Withdrawn(records[s]).status \in {"Cancelled", records[s].status}
        BY <3>2 DEF Withdrawn, Abandoned, Record
      <4> QED BY <3>2, <4>1, <4>2, <4>3
    <3> QED BY <2>2, <3>3, <3>4
  <2>3. CASE Advance \/ AdvanceStartFails
    <3>1. Collected \in [Request -> Record] /\ Collected[r] \in Record /\ Collected[r].status # "None"
      BY CollectedOK
    <3> HIDE DEF Collected
    <3>2. CASE AdvanceCollects
      BY <3>1, <3>2 DEF AdvanceCollects
    <3>3. CASE AdvanceStops
      BY <3>1, <3>3 DEF AdvanceStops, Record
    <3>4. CASE AdvanceStarts
      BY <3>1, <3>4 DEF AdvanceStarts, First, Record
    <3>5. CASE AdvanceStartFails
      BY <3>1, <3>5 DEF AdvanceStartFails, First, Record
    <3> QED BY <2>3, <3>2, <3>3, <3>4, <3>5 DEF Advance
  <2>4. CASE CloseEnd
    <3>1. records'[r] = Closed(r, Collected[r]) /\ Collected[r] \in Record /\ Collected[r].status # "None"
      BY <2>4, CollectedOK DEF CloseEnd, Present
    <3> QED BY <3>1 DEF Closed, Record
  <2>5. CASE DropEnd \/ Die
    BY <2>5 DEF DropEnd, Die, SessionGone
  <2>6. CASE Bind \/ AcceptRefused \/ CloseBegin \/ DropBegin \/ NewLoader \/ OtherOwner \/ UNCHANGED vars
    BY <2>6 DEF Bind, AcceptRefused, CloseBegin, DropBegin, NewLoader, OtherOwner, vars, session
  <2>7. CASE ThreadStep \/ CommitUnknown \/ ThreadFails \/ ThreadPanics
    BY <2>7 DEF ThreadStep, Read, Prepare, DeleteMissing, Commit, CommitUnknown, ThreadFails, ThreadPanics,
       ThreadFrame, session
  <2> QED BY <2>1, <2>2, <2>3, <2>4, <2>5, <2>6, <2>7 DEF Next
<1> QED BY <1>1, StorageInvAlways, PTL DEF Spec, ForgottenWasSettled

-----------------------------------------------------------------------------
(* The reservations *)

Holders == Charged(records) \cup released

\* The charges are held by requests, each in one place.
ReservationInv ==
  /\ released \subseteq Request \ Charged(records)
  /\ \A r \in Holders : asked[r] # NoOperation
  /\ reserved = [operations |-> Cardinality(Holders), bytes |-> Charges(Holders)]

\* There are finitely many requests, so that sets of them can be counted.
LEMMA RequestsCounted ==
  ASSUME NEW S \in SUBSET Request
  PROVE  /\ IsFiniteSet(S) /\ Cardinality(S) \in Nat
         /\ \A T \in SUBSET S :
              /\ Cardinality(T) \in Nat /\ Cardinality(S \ T) \in Nat
              /\ Cardinality(S \ T) = Cardinality(S) - Cardinality(T)
<1>1. IsFiniteSet(Request)
  BY FS_Interval, StorageAssumption DEF Request
<1>2. IsFiniteSet(S) /\ \A T \in SUBSET S : IsFiniteSet(T) /\ S \cap T = T
  BY <1>1, FS_Subset
<1>3. \A T \in SUBSET S : Cardinality(S \ T) = Cardinality(S) - Cardinality(S \cap T)
  BY <1>2, FS_Difference
<1>4. \A T \in SUBSET S : IsFiniteSet(S \ T)
  BY <1>2, FS_Difference
<1> QED BY <1>2, <1>3, <1>4, FS_CardinalityType

\* What the requests of S reserve, those in R as reads.
Cost(S, R) == Cardinality(S) + (ReadCharge - 1) * Cardinality(S \cap R)

Reads == {r \in Request : IsRead(r)}

\* The charges of requests are their cost, before and after a step.
LEMMA ChargesCost ==
  ASSUME NEW S \in SUBSET Request
  PROVE  Charges(S) = Cost(S, Reads)
<1>1. {r \in S : IsRead(r)} = S \cap Reads
  BY DEF Reads
<1> QED BY <1>1 DEF Charges, Cost

\* The cost of a part of a set, taken from that of the set, leaves the cost of the rest.
LEMMA CostWithout ==
  ASSUME NEW R, NEW S \in SUBSET Request, NEW T \in SUBSET S
  PROVE  Cost(S \ T, R) = Cost(S, R) - Cost(T, R)
<1> DEFINE reads(U) == U \cap R
<1>1. reads(S \ T) = reads(S) \ reads(T) /\ reads(T) \subseteq reads(S) /\ reads(S) \subseteq Request
  OBVIOUS
<1>2. /\ Cardinality(S \ T) = Cardinality(S) - Cardinality(T)
      /\ Cardinality(S) \in Nat /\ Cardinality(T) \in Nat
  BY RequestsCounted
<1>3. /\ Cardinality(reads(S \ T)) = Cardinality(reads(S)) - Cardinality(reads(T))
      /\ Cardinality(reads(S)) \in Nat /\ Cardinality(reads(T)) \in Nat
  BY <1>1, RequestsCounted
<1>4. \A U : Cost(U, R) = Cardinality(U) + (ReadCharge - 1) * Cardinality(reads(U))
  BY DEF Cost
<1> HIDE DEF reads
<1>5. ReadCharge - 1 \in Int
  BY StorageAssumption
<1>6. \A a, b, c \in Int : a * (b - c) = a * b - a * c
  OBVIOUS
<1>7. (ReadCharge - 1) * Cardinality(reads(S \ T))
        = (ReadCharge - 1) * Cardinality(reads(S)) - (ReadCharge - 1) * Cardinality(reads(T))
  BY <1>3, <1>5, <1>6
<1> DEFINE p == (ReadCharge - 1) * Cardinality(reads(S))
           q == (ReadCharge - 1) * Cardinality(reads(T))
<1>8. p \in Int /\ q \in Int
  BY <1>3, <1>5
<1> HIDE DEF p, q
<1>9. (ReadCharge - 1) * Cardinality(reads(S \ T)) = p - q
  BY <1>7 DEF p, q
<1>10. Cost(S, R) = Cardinality(S) + p /\ Cost(T, R) = Cardinality(T) + q
  BY <1>4 DEF p, q
<1>11. Cost(S \ T, R) = (Cardinality(S) - Cardinality(T)) + (p - q)
  BY <1>2, <1>4, <1>9
<1> QED BY <1>2, <1>8, <1>10, <1>11

\* One more request adds its own cost.
LEMMA CostWith ==
  ASSUME NEW R, NEW S \in SUBSET Request, NEW r \in Request \ S
  PROVE  /\ Cardinality(S \cup {r}) = Cardinality(S) + 1
         /\ Cost(S \cup {r}, R) = Cost(S, R) + IF r \in R THEN ReadCharge ELSE 1
<1> DEFINE reads(U) == U \cap R
<1>1. IsFiniteSet(S) /\ IsFiniteSet(reads(S)) /\ Cardinality(S) \in Nat
      /\ Cardinality(reads(S)) \in Nat
  BY RequestsCounted
<1>2. Cardinality(S \cup {r}) = Cardinality(S) + 1
  BY <1>1, FS_AddElement
<1>3. \A U : Cost(U, R) = Cardinality(U) + (ReadCharge - 1) * Cardinality(reads(U))
  BY DEF Cost
<1>4. ReadCharge - 1 \in Int /\ ReadCharge \in Int
  BY StorageAssumption
<1>5. CASE r \in R
  <2>1. reads(S \cup {r}) = reads(S) \cup {r} /\ r \notin reads(S)
    BY <1>5
  <2>2. Cardinality(reads(S \cup {r})) = Cardinality(reads(S)) + 1
    BY <1>1, <2>1, FS_AddElement
  <2> HIDE DEF reads
  <2>3. \A a, b \in Int : a * (b + 1) = a * b + a /\ a * b \in Int
    OBVIOUS
  <2> DEFINE more == ReadCharge - 1
             n == Cardinality(reads(S))
  <2>4. more \in Int /\ n \in Int /\ Cardinality(reads(S \cup {r})) = n + 1
    BY <1>1, <1>4, <2>2
  <2>5. more * (n + 1) = more * n + more /\ more * n \in Int
    <3> HIDE DEF more, n
    <3> QED BY <2>3, <2>4
  <2>6. /\ (ReadCharge - 1) * Cardinality(reads(S \cup {r}))
             = (ReadCharge - 1) * Cardinality(reads(S)) + (ReadCharge - 1)
        /\ (ReadCharge - 1) * Cardinality(reads(S)) \in Int
    BY <2>4, <2>5
  <2> DEFINE p == (ReadCharge - 1) * Cardinality(reads(S))
  <2>7. p \in Int /\ Cost(S, R) = Cardinality(S) + p
    BY <1>3, <2>6
  <2>8. Cost(S \cup {r}, R) = (Cardinality(S) + 1) + (p + (ReadCharge - 1))
    BY <1>2, <1>3, <2>6
  <2> HIDE DEF p
  <2> QED BY <1>1, <1>2, <1>4, <1>5, <2>7, <2>8
<1>6. CASE r \notin R
  <2>1. reads(S \cup {r}) = reads(S)
    BY <1>6
  <2> HIDE DEF reads
  <2>2. \A a, b \in Int : a * b \in Int
    OBVIOUS
  <2> DEFINE p == (ReadCharge - 1) * Cardinality(reads(S))
  <2>3. p \in Int /\ Cost(S, R) = Cardinality(S) + p
    BY <1>1, <1>3, <1>4, <2>2
  <2>4. Cost(S \cup {r}, R) = (Cardinality(S) + 1) + p
    BY <1>2, <1>3, <2>1
  <2> HIDE DEF p
  <2> QED BY <1>1, <1>2, <1>6, <2>3, <2>4
<1> QED BY <1>5, <1>6

\* The charges of a part of a set, taken from those of the set, leave the charges of the rest.
LEMMA ChargesWithout ==
  ASSUME NEW S \in SUBSET Request, NEW T \in SUBSET S
  PROVE  Charges(S \ T) = Charges(S) - Charges(T)
<1>1. Cost(S \ T, Reads) = Cost(S, Reads) - Cost(T, Reads)
  BY CostWithout
<1>2. T \in SUBSET Request /\ S \ T \in SUBSET Request
  OBVIOUS
<1> QED BY <1>1, <1>2, ChargesCost

\* Whatever a step takes from its records, it drains with the charges released before.
LEMMA DrainedKeeps ==
  ASSUME StorageInv, ReservationInv, asked' = asked, Drained,
         Charged(records)' \subseteq Charged(records)
  PROVE  ReservationInv'
<1> DEFINE gone == released \cup (Charged(records) \ Charged(records'))
<1>1. Charged(records)' = Charged(records')
  BY DEF Charged
<1>2. Holders \subseteq Request /\ gone \subseteq Holders /\ released' = {}
  BY DEF Holders, Charged, ReservationInv, Drained
<1>3. Holders' = Holders \ gone
  BY <1>1, <1>2 DEF Holders, ReservationInv
<1>4. reserved' = [operations |-> Cardinality(Holders) - Cardinality(gone),
                   bytes |-> Charges(Holders) - Charges(gone)]
  BY DEF Drained, Without, ReservationInv
<1>5. reserved' = [operations |-> Cardinality(Holders \ gone), bytes |-> Charges(Holders \ gone)]
  BY <1>2, <1>4, RequestsCounted, ChargesWithout
<1> HIDE DEF gone
<1>6. Charges(Holders)' = Charges(Holders \ gone)
  BY <1>3 DEF Charges, IsRead
<1> QED BY <1>1, <1>2, <1>3, <1>5, <1>6 DEF ReservationInv, Holders

\* A step that touches no charge and no reservation.
LEMMA ChargesStay ==
  ASSUME ReservationInv, UNCHANGED <<asked, released, reserved>>,
         Charged(records)' = Charged(records)
  PROVE  ReservationInv'
<1>1. Holders' = Holders
  BY DEF Holders
<1>2. Charges(Holders)' = Charges(Holders)
  BY <1>1 DEF Charges, IsRead
<1> QED BY <1>1, <1>2 DEF ReservationInv

\* finish takes charges, and adds none.
LEMMA CollectedCharges ==
  ASSUME StorageInv, NEW r \in Request, Collected[r].charged
  PROVE  records[r].charged
<1>1. CASE Collecting /\ r = worker
  <2>1. records \in [Request -> Record] /\ records[r] \in Record
    BY DEF StorageInv, SessionTyped
  <2>2. Collected[r] = Finished(records[r])
    BY <1>1, <2>1 DEF Collected
  <2> QED BY <2>1, <2>2 DEF Finished, Record
<1>2. CASE ~(Collecting /\ r = worker)
  <2>1. Collected[r] = records[r]
    BY <1>2 DEF Collected, StorageInv, SessionTyped
  <2> QED BY <2>1
<1> QED BY <1>1, <1>2

\* A request that is accepted takes its charge when what was released is drained.
LEMMA AcceptReserves ==
  ASSUME StorageInv, ReservationInv, NEW r \in Request, NEW operation \in Operation,
         Accept(r, operation)
  PROVE  ReservationInv'
<1> DEFINE kept == Holders \ released
<1>1. asked[r] = NoOperation /\ asked' = [asked EXCEPT ![r] = operation]
  BY DEF Accept, First, Fresh, Request, StorageInv, SessionTyped
<1>2. Holders \subseteq Request /\ released \subseteq Holders /\ kept = Charged(records)
  BY DEF Holders, Charged, ReservationInv
<1>3. r \notin Holders /\ r \in Request \ kept /\ kept \subseteq Request
  BY <1>1, <1>2 DEF ReservationInv
<1>4. records \in [Request -> Record] /\ asked \in [Request -> Operation \cup {NoOperation}]
  BY DEF StorageInv, SessionTyped
<1>5. Charged(records)' = kept \cup {r}
  <2>1. ASSUME NEW s \in Request PROVE records'[s].charged <=> s \in kept \cup {r}
    <3>1. CASE s = r
      BY <3>1 DEF Accept, AcceptRecord, NoRecord
    <3>2. CASE s # r /\ s \in Evicted
      BY <1>2, <3>2, EvictedSettled DEF Accept, NoRecord, Settled, Charged
    <3>3. CASE s # r /\ s \notin Evicted
      BY <1>2, <3>3 DEF Accept, Charged
    <3> QED BY <3>1, <3>2, <3>3
  <2> QED BY <1>3, <2>1 DEF Charged
<1>6. Holders' = kept \cup {r} /\ released' = {}
  BY <1>5 DEF Holders, Accept
<1>7. reserved' = [operations |-> Cardinality(kept) + 1,
                   bytes |-> Charges(kept) + IF operation.kind = "Read" THEN ReadCharge ELSE 1]
  <2>1. /\ Cardinality(kept) = Cardinality(Holders) - Cardinality(released)
        /\ Charges(kept) = Charges(Holders) - Charges(released)
    BY <1>2, RequestsCounted, ChargesWithout
  <2> HIDE DEF kept
  <2> QED BY <2>1 DEF Accept, Without, ReservationInv
<1>8. kept \cap Reads' = kept \cap Reads /\ (r \in Reads' <=> operation.kind = "Read")
  BY <1>1, <1>3, <1>4 DEF IsRead, Reads
<1>9. /\ Cardinality(kept \cup {r}) = Cardinality(kept) + 1
      /\ Cost(kept \cup {r}, Reads') = Cost(kept, Reads')
           + IF operation.kind = "Read" THEN ReadCharge ELSE 1
  BY <1>3, <1>8, CostWith
<1>10. Cost(kept, Reads') = Charges(kept)
  BY <1>3, <1>8, ChargesCost DEF Cost
<1>11. Charges(Holders)' = Cost(kept \cup {r}, Reads')
  <2>1. {s \in kept \cup {r} : IsRead(s)'} = (kept \cup {r}) \cap Reads'
    BY <1>3 DEF Reads
  <2> QED BY <1>6, <2>1 DEF Charges, Cost
<1>12. \A s \in Holders' : asked'[s] # NoOperation
  <2>1. operation # NoOperation
    BY DEF Operation, NoOperation
  <2> QED BY <1>1, <1>3, <1>4, <1>6, <2>1 DEF ReservationInv
<1> QED BY <1>3, <1>5, <1>6, <1>7, <1>9, <1>10, <1>11, <1>12 DEF ReservationInv, Accept

\* A claimed payload moves its charge to those that wait to be drained.
LEMMA TakeReserves ==
  ASSUME StorageInv, ReservationInv, NEW r \in Request, Take(r)
  PROVE  ReservationInv'
<1>1. records \in [Request -> Record] /\ records[r] \in Record /\ records[r].charged
  BY DEF Take, StorageInv, SessionTyped, RecordsOK, RecordOK
<1>2. \A s \in Request : records'[s].charged <=> s # r /\ records[s].charged
  BY <1>1 DEF Take, Record
<1>3. Charged(records)' = Charged(records) \ {r} /\ r \in Charged(records)
  BY <1>1, <1>2 DEF Charged
<1>4. Holders' = Holders
  BY <1>3 DEF Take, Holders
<1>5. asked' = asked /\ reserved' = reserved
  BY DEF Take
<1>6. Charges(Holders)' = Charges(Holders)
  BY <1>4, <1>5 DEF Charges, IsRead
<1> QED BY <1>3, <1>4, <1>5, <1>6 DEF Take, ReservationInv

\* An abandoned request gives its charge back, unless its thread still works.
LEMMA AbandonReserves ==
  ASSUME StorageInv, ReservationInv, NEW r \in Request, Abandon(r)
  PROVE  ReservationInv'
<1>1. records \in [Request -> Record] /\ records[r] \in Record
  BY DEF StorageInv, SessionTyped
<1>2. CASE records[r].active
  <2>1. records' = [records EXCEPT ![r] = Abandoned(@)]
    BY <1>2 DEF Abandon
  <2>2. Abandoned(records[r]).charged = records[r].charged
    BY <1>1 DEF Abandoned, Record
  <2>3. Charged(records)' = Charged(records)
    BY <1>1, <2>1, <2>2 DEF Charged
  <2> QED BY <1>2, <2>3, ChargesStay DEF Abandon
<1>3. CASE ~records[r].active
  <2>1. records' = [records EXCEPT ![r] = Withdrawn(@)] /\ Drained
    BY <1>3 DEF Abandon
  <2>2. Withdrawn(records[r]).charged = FALSE
    BY <1>1 DEF Withdrawn, Abandoned, Record
  <2>3. Charged(records)' \subseteq Charged(records)
    BY <1>1, <2>1, <2>2 DEF Charged
  <2> QED BY <2>1, <2>3, DrainedKeeps DEF Abandon
<1> QED BY <1>2, <1>3

\* Nothing that advance or close does adds a charge.
LEMMA CollectingReserves ==
  ASSUME StorageInv, ReservationInv, Advance \/ AdvanceStartFails \/ CloseEnd
  PROVE  ReservationInv'
<1>1. Drained /\ asked' = asked
  BY DEF Advance, AdvanceCollects, AdvanceStops, AdvanceStarts, AdvanceStartFails, CloseEnd
<1>2. Collected \in [Request -> Record]
  BY CollectedOK
<1> HIDE DEF Collected
<1>3. ASSUME NEW s \in Request, records'[s].charged PROVE Collected[s].charged
  <2>1. Collected[s] \in Record
    BY <1>2
  <2>2. CASE AdvanceCollects
    BY <1>3, <2>2 DEF AdvanceCollects
  <2>3. CASE AdvanceStops
    BY <1>3, <2>1, <2>3 DEF AdvanceStops, Record
  <2>4. CASE AdvanceStarts
    BY <1>2, <1>3, <2>1, <2>4 DEF AdvanceStarts, First, Record
  <2>5. CASE AdvanceStartFails
    <3>1. PICK r \in Request : records' = [Collected EXCEPT ![r].queued = FALSE, ![r].status = "Failed",
                                                            ![r].charged = FALSE]
      BY <2>5 DEF AdvanceStartFails, First, Queued
    <3>2. Collected[r] \in Record
      BY <1>2
    <3> QED BY <1>2, <1>3, <2>1, <3>1, <3>2 DEF Record
  <2>6. CASE CloseEnd
    BY <1>3, <2>1, <2>6 DEF CloseEnd, Closed, NoRecord, Record
  <2> QED BY <2>2, <2>3, <2>4, <2>5, <2>6 DEF Advance
<1>4. Charged(records)' \subseteq Charged(records)
  BY <1>3, CollectedCharges DEF Charged
<1> QED BY <1>1, <1>4, DrainedKeeps

\* Nothing is reserved for a session that is gone.
LEMMA GoneReserves ==
  ASSUME SessionGone
  PROVE  ReservationInv'
<1>1. released' = {} /\ Charged(records)' = {}
  BY DEF SessionGone, Charged, NoRecord
<1>2. Holders' = {} /\ {r \in {} : IsRead(r)'} = {}
  BY <1>1 DEF Holders
<1>3. Cardinality({}) = 0 /\ \A a \in Int : a * 0 = 0
  BY FS_EmptySet
<1>4. Charges(Holders)' = 0
  <2>1. ReadCharge - 1 \in Int
    BY StorageAssumption
  <2>2. (ReadCharge - 1) * Cardinality({}) = 0
    BY <1>3, <2>1
  <2> QED BY <1>2, <1>3, <2>2 DEF Charges
<1> QED BY <1>1, <1>2, <1>3, <1>4 DEF ReservationInv, SessionGone

\* Every step keeps the reservations exact.
LEMMA ReservationNext == StorageInv /\ ReservationInv /\ [Next]_vars => ReservationInv'
<1> SUFFICES ASSUME StorageInv, ReservationInv, [Next]_vars PROVE ReservationInv'
  OBVIOUS
<1>1. CASE \E r \in Request : Take(r) \/ Abandon(r) \/ \E operation \in Operation : Accept(r, operation)
  BY <1>1, TakeReserves, AbandonReserves, AcceptReserves
<1>2. CASE AcceptRefused
  <2>1. Drained /\ Charged(records)' = Charged(records)
    BY <1>2 DEF AcceptRefused, Drained, Charged
  <2> QED BY <1>2, <2>1, DrainedKeeps DEF AcceptRefused
<1>3. CASE Advance \/ AdvanceStartFails \/ CloseEnd
  BY <1>3, CollectingReserves
<1>4. CASE DropEnd \/ Die
  BY <1>4, GoneReserves DEF DropEnd, Die
<1>5. CASE Bind \/ CloseBegin \/ DropBegin \/ NewLoader \/ ThreadStep \/ CommitUnknown \/ ThreadFails
             \/ ThreadPanics \/ OtherOwner \/ UNCHANGED vars
  <2>1. UNCHANGED <<asked, records, released, reserved>>
    BY <1>5 DEF Bind, CloseBegin, DropBegin, NewLoader, ThreadStep, Read, Prepare, DeleteMissing,
       Commit, CommitUnknown, ThreadFails, ThreadPanics, OtherOwner, ThreadFrame, session, vars
  <2>2. Charged(records)' = Charged(records)
    BY <2>1 DEF Charged
  <2> QED BY <2>1, <2>2, ChargesStay
<1> QED BY <1>1, <1>2, <1>3, <1>4, <1>5 DEF Next

\* The loader's budget is what its records and the undrained charges hold, whatever was
\* abandoned, claimed, evicted, failed or lost (reserve_external_io, release_external_io).
THEOREM ReservationAlwaysExact == Spec => []ReservationExact
<1>1. Init => ReservationInv
  <2> SUFFICES ASSUME Init PROVE ReservationInv
    OBVIOUS
  <2>1. Holders = {} /\ {r \in {} : IsRead(r)} = {}
    BY DEF Init, Holders, Charged, NoRecord
  <2>2. Charges({}) = 0
    <3>1. Cardinality({}) = 0 /\ ReadCharge - 1 \in Int /\ \A a \in Int : a * 0 = 0
      BY FS_EmptySet, StorageAssumption
    <3> QED BY <2>1, <3>1 DEF Charges
  <2> QED BY <2>1, <2>2, FS_EmptySet DEF Init, ReservationInv
<1>2. ReservationInv => ReservationExact
  BY DEF ReservationInv, ReservationExact, Holders
<1> QED BY <1>1, <1>2, StorageInvAlways, ReservationNext, PTL DEF Spec

-----------------------------------------------------------------------------
(* The promised store *)

\* What a request was told is true, and what has not ended was told nothing; the
\* request at work comes before all that wait.
AnswerInv ==
  \A r \in Request :
    /\ records[r].status \in {"Accepted", "Preparing"} => answers[r] = "none"
    /\ records[r].status \in Terminal => answers[r] = records[r].commit
    /\ records[r].status = "None" => (answers[r] = "none" <=> asked[r] = NoOperation)
    /\ records[r].status = "Preparing" => records[r].active
    /\ records[r].queued => records[r].commit = "NotCommitted" /\ effect[r] = NoBytes
    /\ asked[r] = NoOperation => effect[r] = NoBytes
    /\ records[r].abandoned => IsRead(r)
    /\ worker # 0 /\ records[r].queued => worker < r

\* Nothing took effect before the call that does it, and its return says so.
EffectInv ==
  /\ effect \in [Request -> Bytes \cup {NoBytes}]
  /\ Running => effect[thread.request] = NoBytes
  /\ thread.pc = "returned" /\ Operating.kind # "Read" =>
       /\ thread.commit = "Committed" => effect[thread.request] # NoBytes
       /\ thread.commit = "NotCommitted" => effect[thread.request] = NoBytes

StoreInv == StorageInv /\ AnswerInv /\ EffectInv

\* What may be said of a request.
Truths(r) ==
  IF IsRead(r) THEN {"NotCommitted"}
  ELSE IF effect[r] = NoBytes THEN {"NotCommitted", "Unknown"} ELSE {"Committed", "Unknown"}

\* A record that goes on: it stays what it is, ends with the truth, or starts to work.
Proceeds(r, old, new) ==
  /\ \/ new.status = old.status /\ (new.status \in Terminal => new.commit = old.commit)
     \/ old.status \in {"Accepted", "Preparing"} /\ new.status \in Terminal /\ new.commit \in Truths(r)
     \/ old.status = "Accepted" /\ new.status = "Preparing"
  /\ new.status = "Preparing" => new.active
  /\ new.queued => old.queued /\ new.commit = old.commit
  /\ new.abandoned => old.abandoned \/ IsRead(r)

\* Answers are given to those who have none, and are true.
Settles ==
  \A r \in Request : \/ answers'[r] = answers[r]
                     \/ /\ asked[r] # NoOperation /\ answers[r] = "none"
                        /\ answers'[r] \in Truths(r) \cup {"Lost"}

\* Records that go on, each told its end, keep the answers true.
LEMMA ProceedingKeeps ==
  ASSUME StoreInv, StorageInv', UNCHANGED <<asked, effect>>, Answered,
         \A r \in Request : Proceeds(r, records[r], records'[r]),
         \A r \in Request : worker' # 0 /\ records'[r].queued => worker' < r
  PROVE  AnswerInv' /\ Settles
<1>1. /\ records' \in [Request -> Record]
      /\ answers \in [Request -> {"none", "NotCommitted", "Committed", "Unknown", "Lost"}]
  BY DEF StoreInv, StorageInv, SessionTyped
<1>2. ASSUME NEW r \in Request
      PROVE  /\ records[r].status \in Terminal => answers'[r] = records[r].commit
             /\ records'[r].status \in Terminal => answers'[r] = records'[r].commit
             /\ records'[r].status \notin Terminal => answers'[r] = answers[r]
             /\ \/ answers'[r] = answers[r]
                \/ /\ asked[r] # NoOperation /\ answers[r] = "none"
                   /\ answers'[r] \in Truths(r)
  <2>1. /\ Proceeds(r, records[r], records'[r]) /\ RecordOK(r, records[r], worker)
        /\ records[r] \in Record /\ records'[r] \in Record
    BY <1>1 DEF StoreInv, StorageInv, SessionTyped, RecordsOK
  <2>2. answers'[r] = IF answers[r] = "none" /\ records'[r].status \in Terminal
                      THEN records'[r].commit ELSE answers[r]
    BY DEF Answered
  <2>3. /\ records[r].status \in {"Accepted", "Preparing"} => answers[r] = "none"
        /\ records[r].status \in Terminal => answers[r] = records[r].commit
        /\ records[r].status \in {"Accepted", "Preparing"} => asked[r] # NoOperation
    BY <2>1 DEF StoreInv, AnswerInv, RecordOK
  <2>4. records[r].commit # "none" /\ records'[r].commit # "none"
    BY <2>1 DEF Record
  <2> QED BY <2>1, <2>2, <2>3, <2>4 DEF Proceeds, Terminal
<1>3. ASSUME NEW r \in Request
      PROVE  /\ records'[r].status \in {"Accepted", "Preparing"} => answers'[r] = "none"
             /\ records'[r].status = "None" => (answers'[r] = "none" <=> asked[r] = NoOperation)
             /\ records'[r].status = "Preparing" => records'[r].active
             /\ records'[r].queued => records'[r].commit = "NotCommitted" /\ effect[r] = NoBytes
             /\ records'[r].abandoned => IsRead(r)
  BY <1>2 DEF Proceeds, StoreInv, AnswerInv, Terminal
<1>4. \A r \in Request : asked[r] = NoOperation => effect[r] = NoBytes
  BY DEF StoreInv, AnswerInv
<1>5. \A r \in Request : IsRead(r)' <=> IsRead(r)
  BY DEF IsRead
<1> QED BY <1>2, <1>3, <1>4, <1>5 DEF AnswerInv, Settles

\* finish tells the truth about its request, and touches no other record.
LEMMA CollectedProceeds ==
  ASSUME StoreInv, NEW r \in Request
  PROVE  /\ Proceeds(r, records[r], Collected[r])
         /\ records[r].queued => Collected[r] = records[r]
<1>1. /\ records \in [Request -> Record] /\ records[r] \in Record
      /\ RecordOK(r, records[r], worker) /\ thread \in Thread
  BY DEF StoreInv, StorageInv, SessionTyped, RecordsOK
<1>2. CASE ~(Collecting /\ r = worker)
  <2>1. Collected[r] = records[r]
    BY <1>1, <1>2 DEF Collected
  <2> QED BY <2>1 DEF Proceeds, StoreInv, AnswerInv
<1>3. CASE Collecting /\ r = worker
  <2>1. Collected[r] = Finished(records[r])
    BY <1>1, <1>3 DEF Collected
  <2>2. ~records[r].queued /\ records[r].status = "Preparing" /\ thread.request = r
    BY <1>1, <1>3 DEF RecordOK, Collecting, StoreInv, StorageInv, OneThread
  <2>3. records[r].abandoned => IsRead(r)
    BY DEF StoreInv, AnswerInv
  <2>4. Operating.kind = "Read" <=> IsRead(r)
    BY <2>2 DEF Operating, IsRead
  <2>5. thread.pc \in {"returned", "panicked"}
    BY <1>3 DEF Collecting, Ended
  <2>6. thread.pc = "returned" => thread.commit \in Truths(r)
    <3>1. /\ thread.pc = "returned" /\ IsRead(r) => thread.commit = "NotCommitted"
          /\ thread.pc = "returned" /\ ~IsRead(r) =>
               /\ thread.commit = "Committed" => effect[r] # NoBytes
               /\ thread.commit = "NotCommitted" => effect[r] = NoBytes
      BY <2>2, <2>4 DEF StoreInv, EffectInv, StorageInv, OneThread
    <3> QED BY <1>1, <3>1 DEF Truths, Thread
  <2> DEFINE new == Finished(records[r])
  <2>7. /\ new.status \in Terminal /\ ~new.queued
        /\ new.abandoned = records[r].abandoned
        /\ new.commit = IF thread.pc # "panicked" THEN thread.commit
                        ELSE IF IsRead(r) THEN "NotCommitted" ELSE "Unknown"
    BY <1>1, <1>3, <2>2 DEF Finished, Record, Terminal
  <2> HIDE DEF new
  <2>8. new.commit \in Truths(r)
    BY <2>5, <2>6, <2>7 DEF Truths
  <2>9. Proceeds(r, records[r], new)
    BY <2>2, <2>3, <2>7, <2>8 DEF Proceeds, Terminal
  <2> QED BY <2>1, <2>2, <2>9 DEF new
<1> QED BY <1>2, <1>3

\* What waits and is not started ends without an effect.
LEMMA QueuedEnds ==
  ASSUME StoreInv, NEW r \in Request, records[r].queued, NEW new \in Record,
         new.status \in Terminal, new.commit = records[r].commit, ~new.queued,
         new.abandoned => records[r].abandoned \/ IsRead(r)
  PROVE  Proceeds(r, records[r], new)
<1>1. records[r].status = "Accepted" /\ records[r].commit = "NotCommitted" /\ effect[r] = NoBytes
  BY DEF StoreInv, StorageInv, RecordsOK, RecordOK, AnswerInv
<1> QED BY <1>1 DEF Proceeds, Truths, Terminal

\* An abandoned read goes on, or is cancelled when nothing was done for it.
LEMMA AbandonProceeds ==
  ASSUME StoreInv, NEW r \in Request, Abandon(r)
  PROVE  AnswerInv' /\ Settles
<1>1. /\ records \in [Request -> Record] /\ records[r] \in Record /\ IsRead(r)
      /\ RecordOK(r, records[r], worker)
  BY DEF Abandon, StoreInv, StorageInv, SessionTyped, RecordsOK
<1>2. /\ \A s \in Request \ {r} : records'[s] = records[s]
      /\ \/ records'[r] = Abandoned(records[r]) /\ records[r].active
         \/ records'[r] = Withdrawn(records[r])
  BY <1>1 DEF Abandon
<1>3. StorageInv' /\ UNCHANGED <<asked, effect, worker>> /\ Answered
  BY AbandonStep DEF Abandon, StoreInv
<1>4. Proceeds(r, records[r], records'[r]) /\ (records'[r].queued => records[r].queued)
  <2> DEFINE new == records'[r]
  <2>1. new \in Record /\ (records[r].status = "Preparing" => records[r].active)
    BY <1>3 DEF StoreInv, StorageInv, SessionTyped, AnswerInv
  <2>2. CASE new = Abandoned(records[r]) /\ records[r].active
    <3>1. /\ new.status = records[r].status /\ new.commit = records[r].commit /\ new.active
          /\ ~records[r].queued /\ ~new.queued
      BY <1>1, <2>2 DEF Abandoned, Record, RecordOK
    <3> HIDE DEF new
    <3> QED BY <1>1, <3>1 DEF Proceeds, new
  <2>3. CASE new = Withdrawn(records[r])
    <3>1. /\ new.status = IF records[r].queued THEN "Cancelled" ELSE records[r].status
          /\ new.commit = records[r].commit /\ ~new.queued /\ new.active = records[r].active
      BY <1>1, <2>3 DEF Withdrawn, Abandoned, Record
    <3> HIDE DEF new
    <3>2. CASE records[r].queued
      BY <1>1, <2>1, <3>1, <3>2, QueuedEnds DEF Terminal, new
    <3>3. CASE ~records[r].queued
      BY <1>1, <2>1, <3>1, <3>3 DEF Proceeds, new
    <3> QED BY <3>1, <3>2, <3>3 DEF new
  <2> QED BY <1>2, <2>2, <2>3
<1>5. ASSUME NEW s \in Request PROVE Proceeds(s, records[s], records'[s])
  <2>1. CASE s = r
    BY <1>4, <2>1
  <2>2. CASE s # r
    BY <1>2, <2>2 DEF Proceeds, StoreInv, AnswerInv
  <2> QED BY <2>1, <2>2
<1>6. ASSUME NEW s \in Request, worker' # 0, records'[s].queued PROVE worker' < s
  BY <1>2, <1>3, <1>4, <1>6 DEF StoreInv, AnswerInv
<1> QED BY <1>3, <1>5, <1>6, ProceedingKeeps

\* What advance and close make of the records, with nobody new at work.
LEMMA CollectingProceeds ==
  ASSUME StoreInv, AdvanceCollects \/ AdvanceStops \/ AdvanceStartFails \/ CloseEnd
  PROVE  AnswerInv' /\ Settles
<1>1. StorageInv' /\ UNCHANGED <<asked, effect>> /\ Answered
  BY AdvanceCollectsStep, AdvanceStopsStep, AdvanceStartFailsStep, CloseEndStep
     DEF AdvanceCollects, AdvanceStops, AdvanceStartFails, CloseEnd, StoreInv
<1>2. /\ Collected \in [Request -> Record] /\ records' \in [Request -> Record]
      /\ \A r \in Request : Collected[r].queued = records[r].queued
  BY <1>1, CollectedOK DEF StoreInv, StorageInv, SessionTyped
<1>3. \A r \in Request : /\ Proceeds(r, records[r], Collected[r])
                         /\ records[r].queued => Collected[r] = records[r]
  BY CollectedProceeds
<1>4. worker' # 0 => worker' = worker
  BY KeepWorkerStep DEF AdvanceCollects, AdvanceStops, AdvanceStartFails, CloseEnd, StoreInv, Left
<1> HIDE DEF Collected
<1>5. ASSUME NEW r \in Request
      PROVE  /\ Proceeds(r, records[r], records'[r])
             /\ records'[r].queued => records[r].queued
  <2>1. /\ Collected[r] \in Record /\ records'[r] \in Record
        /\ Proceeds(r, records[r], Collected[r])
        /\ records[r].queued => Collected[r] = records[r]
        /\ Collected[r].queued = records[r].queued
    BY <1>2, <1>3
  <2>2. CASE records'[r] = Collected[r]
    BY <2>1, <2>2
  <2>3. CASE /\ records[r].queued
             /\ records'[r] = [Collected[r] EXCEPT !.queued = FALSE, !.status = "Failed",
                                                   !.charged = FALSE]
    <3>1. /\ records'[r].status = "Failed" /\ records'[r].commit = records[r].commit
          /\ ~records'[r].queued /\ records'[r].abandoned = records[r].abandoned
      BY <2>1, <2>3 DEF Record
    <3> QED BY <2>1, <2>3, <3>1, QueuedEnds DEF Terminal
  <2>4. CASE CloseEnd
    <3>1. CASE r \in Present
      <4> DEFINE new == records'[r]
      <4>1. new = Closed(r, Collected[r])
        BY <2>4, <3>1 DEF CloseEnd
      <4>2. /\ new.status = IF records[r].queued THEN "Cancelled" ELSE Collected[r].status
            /\ new.commit = Collected[r].commit /\ ~new.queued
            /\ new.active = Collected[r].active
            /\ new.abandoned = Collected[r].abandoned
        BY <2>1, <4>1 DEF Closed, Record
      <4> HIDE DEF new
      <4>3. CASE records[r].queued
        BY <2>1, <4>2, <4>3, QueuedEnds DEF Terminal, new
      <4>4. CASE ~records[r].queued
        BY <2>1, <4>2, <4>4 DEF Proceeds, new
      <4> QED BY <4>2, <4>3, <4>4 DEF new
    <3>2. CASE r \notin Present
      <4>1. records'[r] = NoRecord /\ records[r].status = "None"
        BY <2>4, <3>2 DEF CloseEnd, Present
      <4> QED BY <4>1 DEF NoRecord, Proceeds, Terminal
    <3> QED BY <3>1, <3>2
  <2>5. CASE AdvanceStartFails
    <3>1. PICK s \in Queued : records' = [Collected EXCEPT ![s].queued = FALSE, ![s].status = "Failed",
                                                           ![s].charged = FALSE]
      BY <2>5 DEF AdvanceStartFails, First
    <3>2. s \in Request /\ records[s].queued
      BY <1>2 DEF Queued
    <3> QED BY <1>2, <2>2, <2>3, <3>1, <3>2
  <2>6. CASE AdvanceStops
    BY <1>2, <2>2, <2>3, <2>6 DEF AdvanceStops, Queued
  <2> QED BY <2>2, <2>4, <2>5, <2>6 DEF AdvanceCollects
<1>6. ASSUME NEW r \in Request, worker' # 0, records'[r].queued PROVE worker' < r
  BY <1>4, <1>5, <1>6 DEF StoreInv, AnswerInv
<1> QED BY <1>1, <1>5, <1>6, ProceedingKeeps

\* The oldest request that waits starts to work; the others wait behind it.
LEMMA StartProceeds ==
  ASSUME StoreInv, AdvanceStarts
  PROVE  AnswerInv' /\ Settles
<1>1. StorageInv' /\ UNCHANGED <<asked, effect>> /\ Answered
  BY AdvanceStartsStep DEF AdvanceStarts, StoreInv
<1>2. Collected \in [Request -> Record] /\ \A r \in Request : Collected[r].queued = records[r].queued
  BY CollectedOK DEF StoreInv
<1>3. \A r \in Request : /\ Proceeds(r, records[r], Collected[r])
                         /\ records[r].queued => Collected[r] = records[r]
  BY CollectedProceeds
<1>4. PICK r \in First(Queued) :
        /\ OwnerBack
        /\ records' = [Collected EXCEPT ![r].queued = FALSE, ![r].active = TRUE,
                                        ![r].status = "Preparing"]
        /\ worker' = r
  BY OwnerBackHeld DEF AdvanceStarts, StoreInv
<1>5. /\ r \in Request /\ records[r].queued /\ Collected[r] = records[r]
      /\ \A s \in Request : records[s].queued => r <= s
  BY <1>2, <1>3, <1>4 DEF First, Queued
<1> HIDE DEF Collected
<1>6. ASSUME NEW s \in Request
      PROVE  /\ Proceeds(s, records[s], records'[s])
             /\ records'[s].queued => s # r /\ records[s].queued
  <2>1. CASE s = r
    <3>1. /\ records'[s].status = "Preparing" /\ records'[s].active /\ ~records'[s].queued
          /\ records'[s].abandoned = records[s].abandoned
      BY <1>2, <1>4, <1>5, <2>1 DEF Record
    <3>2. records[s].status = "Accepted"
      BY <1>5, <2>1 DEF StoreInv, StorageInv, RecordsOK, RecordOK
    <3> QED BY <3>1, <3>2 DEF Proceeds
  <2>2. CASE s # r
    BY <1>2, <1>3, <1>4, <2>2
  <2> QED BY <2>1, <2>2
<1>7. ASSUME NEW s \in Request, records'[s].queued PROVE worker' < s
  BY <1>4, <1>5, <1>6, <1>7 DEF Request
<1> QED BY <1>1, <1>6, <1>7, ProceedingKeeps

\* A result that is claimed was told before.
LEMMA TakeAnswers ==
  ASSUME StoreInv, NEW r \in Request, Take(r)
  PROVE  AnswerInv'
<1>1. records \in [Request -> Record] /\ UNCHANGED <<asked, effect, answers, worker>>
  BY DEF Take, StoreInv, StorageInv, SessionTyped
<1>2. ASSUME NEW s \in Request
      PROVE  /\ records'[s].status = records[s].status /\ records'[s].commit = records[s].commit
             /\ records'[s].active = records[s].active /\ records'[s].queued = records[s].queued
             /\ records'[s].abandoned = records[s].abandoned
  BY <1>1 DEF Take, Record
<1>3. \A s \in Request : IsRead(s)' <=> IsRead(s)
  BY <1>1 DEF IsRead
<1> QED BY <1>1, <1>2, <1>3 DEF StoreInv, AnswerInv

\* A new request waits behind all others; the record it replaces was told its end.
LEMMA AcceptAnswers ==
  ASSUME StoreInv, NEW r \in Request, NEW operation \in Operation, Accept(r, operation)
  PROVE  /\ AnswerInv' /\ UNCHANGED <<disk, effect, answers, lease, thread>>
         /\ asked[r] = NoOperation /\ asked' = [asked EXCEPT ![r] = operation]
         /\ \A s \in Request : asked[s] # NoOperation => s < r
<1>1. /\ asked \in [Request -> Operation \cup {NoOperation}] /\ records \in [Request -> Record]
      /\ asked' = [asked EXCEPT ![r] = operation]
      /\ UNCHANGED <<disk, effect, answers, lease, thread, worker>>
      /\ \A s \in Request : asked[s] # NoOperation => s < r
      /\ operation # NoOperation
  BY DEF Accept, First, Fresh, StoreInv, StorageInv, SessionTyped, Operation, NoOperation
<1>2. asked[r] = NoOperation
  BY <1>1 DEF Request
<1>3. /\ records[r].status = "None" /\ answers[r] = "none" /\ effect[r] = NoBytes
      /\ worker # 0 => worker \in Request /\ worker < r
  <2>1. RecordOK(r, records[r], worker)
    BY DEF StoreInv, StorageInv, RecordsOK
  <2>2. records[r].status = "None"
    BY <1>2, <2>1 DEF RecordOK
  <2>3. worker # 0 => worker \in Request /\ RecordOK(worker, records[worker], worker)
    BY DEF StoreInv, StorageInv, SessionTyped, RecordsOK
  <2>4. worker # 0 => asked[worker] # NoOperation
    BY <2>3 DEF RecordOK
  <2> QED BY <1>1, <1>2, <2>2, <2>3, <2>4 DEF StoreInv, AnswerInv
<1>4. ASSUME NEW s \in Request
      PROVE  /\ records'[s].status \in {"Accepted", "Preparing"} => answers[s] = "none"
             /\ records'[s].status \in Terminal => answers[s] = records'[s].commit
             /\ records'[s].status = "None" => (answers[s] = "none" <=> asked'[s] = NoOperation)
             /\ records'[s].status = "Preparing" => records'[s].active
             /\ records'[s].queued => records'[s].commit = "NotCommitted" /\ effect[s] = NoBytes
             /\ asked'[s] = NoOperation => effect[s] = NoBytes
             /\ records'[s].abandoned => asked'[s].kind = "Read"
             /\ worker # 0 /\ records'[s].queued => worker < s
  <2>1. CASE s = r
    <3>1. records'[s] = AcceptRecord
      BY <2>1 DEF Accept
    <3>2. /\ records'[s].status = "Accepted" /\ records'[s].commit = "NotCommitted"
          /\ ~records'[s].abandoned /\ asked'[s] = operation
      BY <1>1, <2>1, <3>1 DEF AcceptRecord, NoRecord
    <3> QED BY <1>1, <1>3, <2>1, <3>2 DEF Terminal
  <2>2. CASE s # r /\ s \in Evicted
    <3>1. records'[s] = NoRecord /\ asked'[s] = asked[s]
      BY <1>1, <2>2 DEF Accept
    <3>2. records[s].status \in Terminal /\ records[s] \in Record /\ RecordOK(s, records[s], worker)
      BY <1>1, <2>2, EvictedSettled DEF Settled, StoreInv, StorageInv, RecordsOK
    <3>3. answers[s] # "none" /\ asked[s] # NoOperation
      BY <3>2 DEF StoreInv, AnswerInv, RecordOK, Record, Terminal
    <3> QED BY <3>1, <3>3 DEF NoRecord, Terminal
  <2>3. CASE s # r /\ s \notin Evicted
    <3>1. records'[s] = records[s] /\ asked'[s] = asked[s]
      BY <1>1, <2>3 DEF Accept
    <3> QED BY <3>1 DEF StoreInv, AnswerInv, IsRead
  <2> QED BY <2>1, <2>2, <2>3
<1> QED BY <1>1, <1>2, <1>4 DEF AnswerInv, IsRead

\* Nothing is asked of a session that is gone; who was not told never will be.
LEMMA GoneAnswers ==
  ASSUME StoreInv, SessionGone, thread' = NoThread
  PROVE  AnswerInv' /\ EffectInv' /\ Settles
<1>1. /\ answers \in [Request -> {"none", "NotCommitted", "Committed", "Unknown", "Lost"}]
      /\ UNCHANGED <<asked, effect>> /\ records' = [r \in Request |-> NoRecord] /\ worker' = 0
  BY DEF SessionGone, StoreInv, StorageInv, SessionTyped
<1>2. ASSUME NEW r \in Request
      PROVE  /\ asked[r] = NoOperation => answers[r] = "none" /\ effect[r] = NoBytes
             /\ answers'[r] = IF answers[r] = "none" /\ asked[r] # NoOperation THEN "Lost"
                              ELSE answers[r]
  <2>1. RecordOK(r, records[r], worker)
    BY DEF StoreInv, StorageInv, RecordsOK
  <2> QED BY <2>1 DEF StoreInv, AnswerInv, RecordOK, SessionGone, LostUnanswered
<1>3. AnswerInv'
  BY <1>1, <1>2 DEF AnswerInv, NoRecord, Terminal
<1>4. EffectInv'
  BY <1>1 DEF EffectInv, StoreInv, NoThread, Running
<1> QED BY <1>2, <1>3, <1>4 DEF Settles

\* What a thread does at its own request leaves the answers as they are.
LEMMA ThreadAnswers ==
  ASSUME StoreInv, UNCHANGED <<records, answers, asked, worker>>,
         \/ effect' = effect
         \/ Running /\ \E value : effect' = [effect EXCEPT ![thread.request] = value]
  PROVE  AnswerInv'
<1>1. CASE effect' = effect
  BY <1>1 DEF StoreInv, AnswerInv, IsRead
<1>2. CASE Running /\ \E value : effect' = [effect EXCEPT ![thread.request] = value]
  <2>1. worker \in Request /\ worker # 0 /\ thread.request = worker /\ RecordOK(worker, records[worker], worker)
    BY <1>2 DEF StoreInv, StorageInv, SessionTyped, OneThread, RecordsOK, Running, Request
  <2>2. ~records[worker].queued /\ asked[worker] # NoOperation
    BY <2>1 DEF RecordOK
  <2>3. \A r \in Request : r # worker => effect'[r] = effect[r]
    BY <1>2, <2>1 DEF StoreInv, EffectInv
  <2>4. \A r \in Request : IsRead(r)' <=> IsRead(r)
    BY DEF IsRead
  <2> QED BY <2>2, <2>3, <2>4 DEF StoreInv, AnswerInv
<1> QED BY <1>1, <1>2

\* A return says of its effect what is so.
LEMMA ReturnTells ==
  ASSUME StoreInv, Running, asked' = asked,
         NEW commit, NEW error, NEW bytes, Return(commit, error, bytes),
         NEW value \in Bytes \cup {NoBytes},
         effect' = [effect EXCEPT ![thread.request] = value],
         Operating.kind # "Read" => /\ commit = "Committed" => value # NoBytes
                                    /\ commit = "NotCommitted" => value = NoBytes
  PROVE  EffectInv'
<1>1. thread \in Thread /\ thread.request \in Request
  BY RunningThread DEF StoreInv, StorageInv, SessionTyped
<1>2. thread'.pc = "returned" /\ thread'.request = thread.request /\ thread'.commit = commit
  BY <1>1 DEF Return, Thread
<1>3. effect' \in [Request -> Bytes \cup {NoBytes}] /\ effect'[thread.request] = value
  BY <1>1 DEF StoreInv, EffectInv
<1> QED BY <1>2, <1>3 DEF EffectInv, Running, Operating

\* A request that is worked at is open, has had no effect, and none before it is open.
LEMMA WorkedAtFirst ==
  ASSUME StoreInv, Running
  PROVE  /\ thread.request \in Request /\ lease
         /\ asked[thread.request] \in Operation /\ asked[thread.request] # NoOperation
         /\ answers[thread.request] = "none" /\ effect[thread.request] = NoBytes
         /\ \A r \in Request : r < thread.request /\ asked[r] # NoOperation => answers[r] # "none"
<1>1. /\ worker \in Request /\ worker # 0 /\ thread.request = worker
      /\ RecordOK(worker, records[worker], worker) /\ lease
      /\ asked[worker] \in Operation
  BY RunningThread DEF StoreInv, StorageInv, SessionTyped, OneThread, RecordsOK, Running, Request,
     OneOwner, HoldsOwner
<1>2. records[worker].status = "Preparing" /\ asked[worker] # NoOperation
  BY <1>1 DEF RecordOK
<1>3. ASSUME NEW r \in Request, r < worker, asked[r] # NoOperation, answers[r] = "none" PROVE FALSE
  <2>1. RecordOK(r, records[r], worker) /\ records[r] \in Record
    BY DEF StoreInv, StorageInv, SessionTyped, RecordsOK
  <2>2. ~records[r].active /\ ~records[r].queued
    <3>1. worker # r
      BY <1>3 DEF Request
    <3>2. ~records[r].queued
      BY <1>1, <1>3 DEF StoreInv, AnswerInv, Request
    <3> QED BY <2>1, <3>1, <3>2 DEF RecordOK
  <2>3. records[r].status \in Terminal
    BY <1>3, <2>1, <2>2 DEF StoreInv, AnswerInv, RecordOK, Record, Terminal
  <2> QED BY <1>3, <2>1, <2>3 DEF StoreInv, AnswerInv, Record
<1> QED BY <1>1, <1>2, <1>3 DEF StoreInv, AnswerInv, EffectInv

\* The moves of the promised store, in the variables of the session.
SettlesMove ==
  /\ Settles
  /\ UNCHANGED <<disk, asked, effect>>
  /\ lease' => lease
AcceptMove ==
  \E r \in Request, operation \in Operation :
    /\ \A s \in Request : asked[s] # NoOperation => s < r
    /\ asked' = [asked EXCEPT ![r] = operation]
    /\ UNCHANGED <<disk, effect, answers, lease>>
PerformMove ==
  /\ Running
  /\ \/ Operating.kind = "Read" /\ Target # Missing /\ disk' = disk
        /\ effect' = [effect EXCEPT ![thread.request] = Target]
     \/ Committing /\ Changed
  /\ UNCHANGED <<asked, answers, lease>>
BindMove ==
  /\ ~lease /\ lease'
  /\ UNCHANGED <<disk, asked, effect, answers>>

\* Steps that leave thread and effects alone, or end the thread.
LEMMA EffectStays ==
  ASSUME StoreInv, UNCHANGED <<asked, effect>>,
         thread' = thread \/ thread'.pc \in {"none", "panicked"}
  PROVE  EffectInv'
BY DEF StoreInv, EffectInv, Running, Operating

\* Who told nothing new settles nothing.
LEMMA QuietSettles ==
  ASSUME answers' = answers
  PROVE  Settles
BY DEF Settles

\* The steps of the loader but for accept and bind settle requests, or do nothing.
LEMMA LoaderSettles ==
  ASSUME StoreInv,
         \/ Advance \/ AdvanceStartFails \/ CloseEnd \/ CloseBegin \/ DropBegin \/ DropEnd \/ Die
         \/ NewLoader \/ AcceptRefused \/ \E r \in Request : Take(r) \/ Abandon(r)
  PROVE  AnswerInv' /\ EffectInv' /\ SettlesMove
<1>1. NoThread.pc = "none"
  BY DEF NoThread
<1>2. CASE AdvanceCollects \/ AdvanceStops \/ AdvanceStartFails \/ CloseEnd
  <2>1. AnswerInv' /\ Settles
    BY <1>2, CollectingProceeds
  <2>2. UNCHANGED <<disk, asked, effect>> /\ (lease' => lease)
        /\ (thread' = thread \/ thread'.pc \in {"none", "panicked"})
    <3>1. lease \in BOOLEAN
      BY DEF StoreInv, StorageInv, SessionTyped
    <3>2. KeepWorker => thread' = thread \/ thread' = NoThread
      BY DEF KeepWorker
    <3>3. CASE AdvanceCollects \/ AdvanceStops
      <4>1. KeepWorker /\ UNCHANGED <<disk, asked, effect, lease>>
        BY <3>3 DEF AdvanceCollects, AdvanceStops
      <4> QED BY <1>1, <3>1, <3>2, <4>1
    <3>4. CASE AdvanceStartFails
      BY <1>1, <3>4 DEF AdvanceStartFails
    <3>5. CASE CloseEnd
      BY <1>1, <3>1, <3>5 DEF CloseEnd
    <3> QED BY <1>2, <3>3, <3>4, <3>5
  <2> QED BY <2>1, <2>2, EffectStays DEF SettlesMove
<1>3. CASE AdvanceStarts
  <2>1. AnswerInv' /\ Settles
    BY <1>3, StartProceeds
  <2>2. PICK r \in First(Queued) :
          /\ UNCHANGED <<disk, lease, asked, effect>>
          /\ thread' = [NoThread EXCEPT !.pc = "begun", !.request = r]
    BY <1>3, OwnerBackHeld DEF AdvanceStarts, StoreInv
  <2>3. r \in Request /\ records[r].queued
    BY <2>2, CollectedOK DEF First, Queued, StoreInv
  <2>4. thread'.pc = "begun" /\ thread'.request = r
    BY <2>2 DEF NoThread
  <2>5. EffectInv'
    BY <2>2, <2>3, <2>4 DEF StoreInv, EffectInv, AnswerInv, Running
  <2> QED BY <2>1, <2>2, <2>5 DEF SettlesMove
<1>4. CASE DropEnd \/ Die
  <2>1. SessionGone /\ thread' = NoThread /\ (lease' => lease)
    BY <1>4 DEF DropEnd, Die
  <2> QED BY <2>1, GoneAnswers DEF SettlesMove, SessionGone
<1>5. ASSUME NEW r \in Request, Take(r) PROVE AnswerInv' /\ EffectInv' /\ SettlesMove
  <2>1. UNCHANGED <<disk, asked, effect, thread, lease, answers>>
    BY <1>5 DEF Take
  <2> QED BY <1>5, <2>1, TakeAnswers, EffectStays, QuietSettles DEF SettlesMove
<1>6. ASSUME NEW r \in Request, Abandon(r) PROVE AnswerInv' /\ EffectInv' /\ SettlesMove
  <2>1. UNCHANGED <<disk, asked, effect, thread, lease>>
    BY <1>6 DEF Abandon
  <2> QED BY <1>6, <2>1, AbandonProceeds, EffectStays DEF SettlesMove
<1>7. CASE CloseBegin \/ DropBegin \/ NewLoader \/ AcceptRefused
  <2>1. UNCHANGED <<disk, asked, effect, thread, answers, records, worker>> /\ (lease' => lease)
    <3>1. lease \in BOOLEAN
      BY DEF StoreInv, StorageInv, SessionTyped
    <3> QED BY <1>7, <3>1 DEF CloseBegin, DropBegin, NewLoader, AcceptRefused, session
  <2> QED BY <2>1, ThreadAnswers, EffectStays, QuietSettles DEF SettlesMove
<1> QED BY <1>2, <1>3, <1>4, <1>5, <1>6, <1>7 DEF Advance

\* A call of the thread performs its request, or changes nothing that was promised.
LEMMA ThreadPerforms ==
  ASSUME StoreInv, ThreadStep \/ CommitUnknown \/ ThreadFails \/ ThreadPanics
  PROVE  AnswerInv' /\ EffectInv' /\ (SettlesMove \/ PerformMove)
<1> DEFINE r == thread.request
<1>1. UNCHANGED <<asked, answers, records, worker>> /\ (lease' => lease)
  <2>1. CASE ThreadPanics
    BY <2>1 DEF ThreadPanics, session
  <2>2. CASE ThreadStep \/ CommitUnknown \/ ThreadFails
    <3>1. ThreadFrame
      BY <2>2 DEF ThreadStep, Read, Prepare, DeleteMissing, Commit, CommitUnknown, ThreadFails
    <3> QED BY <3>1 DEF ThreadFrame, session
  <2> QED BY <2>1, <2>2
<1>2. ASSUME Running
      PROVE  /\ r \in Request /\ r \in Bytes /\ r # NoBytes /\ effect[r] = NoBytes
             /\ effect = [effect EXCEPT ![r] = NoBytes]
             /\ Target \in Bytes \cup {Missing}
  BY <1>2, RunningThread, WorkedAtFirst, BytesAreNotMissing DEF StoreInv, EffectInv, Bytes
<1>3. CASE Read
  <2>1. Running /\ UNCHANGED <<disk, lease>> /\ Operating.kind = "Read"
    BY <1>3 DEF Read, Running, ThreadFrame
  <2>2. CASE Target = Missing
    <3>1. effect' = effect /\ Return("NotCommitted", TRUE, NoBytes)
      BY <1>3, <2>2 DEF Read
    <3>2. effect' = [effect EXCEPT ![r] = NoBytes]
      BY <1>2, <2>1, <3>1
    <3>3. EffectInv'
      BY <1>1, <2>1, <3>1, <3>2, ReturnTells
    <3> QED BY <1>1, <2>1, <3>1, <3>3, ThreadAnswers, QuietSettles DEF SettlesMove
  <2>3. CASE Target # Missing
    <3>1. effect' = [effect EXCEPT ![r] = Target] /\ Return("NotCommitted", FALSE, Target)
      BY <1>3, <2>3 DEF Read, Performed
    <3>2. EffectInv'
      BY <1>1, <1>2, <2>1, <2>3, <3>1, ReturnTells
    <3> QED BY <1>1, <2>1, <2>3, <3>1, <3>2, ThreadAnswers DEF PerformMove
  <2> QED BY <2>2, <2>3
<1>4. CASE Prepare
  <2>1. effect' = effect /\ disk' = disk /\ thread' = [thread EXCEPT !.pc = "prepared"] /\ Running
    BY <1>4 DEF Prepare, Running
  <2>2. thread'.pc = "prepared" /\ thread'.request = r
    BY <2>1 DEF StoreInv, StorageInv, SessionTyped, Thread
  <2>3. EffectInv'
    BY <2>1, <2>2 DEF StoreInv, EffectInv, Running
  <2> QED BY <1>1, <2>1, <2>3, ThreadAnswers, QuietSettles DEF SettlesMove
<1>5. CASE DeleteMissing \/ ThreadFails \/ (CommitUnknown /\ UNCHANGED <<disk, effect>>)
  <2>1. PICK commit \in {"NotCommitted", "Unknown"} : Return(commit, TRUE, NoBytes)
    BY <1>5 DEF DeleteMissing, ThreadFails, CommitUnknown
  <2>2. Running /\ UNCHANGED <<disk, effect>>
    BY <1>5, CommittingThread DEF DeleteMissing, ThreadFails, CommitUnknown, Running, StoreInv
  <2>3. effect' = [effect EXCEPT ![r] = NoBytes]
    BY <1>2, <2>2
  <2>4. EffectInv'
    BY <1>1, <2>1, <2>2, <2>3, ReturnTells
  <2> QED BY <1>1, <2>2, <2>4, ThreadAnswers, QuietSettles DEF SettlesMove
<1>6. CASE Commit \/ (CommitUnknown /\ Changed)
  <2>1. PICK commit \in {"Committed", "Unknown"}, error \in BOOLEAN : Return(commit, error, NoBytes)
    BY <1>6 DEF Commit, CommitUnknown
  <2>2. Committing /\ Changed /\ Running /\ effect' = [effect EXCEPT ![r] = r] /\ lease' = lease
    BY <1>6, CommittingThread DEF Commit, CommitUnknown, Changed, Performed, ThreadFrame, StoreInv
  <2>3. EffectInv'
    BY <1>1, <1>2, <2>1, <2>2, ReturnTells
  <2> QED BY <1>1, <2>2, <2>3, ThreadAnswers DEF PerformMove
<1>7. CASE ThreadPanics
  <2>1. UNCHANGED <<disk, effect>> /\ thread'.pc = "panicked"
    BY <1>7 DEF ThreadPanics, NoThread
  <2> QED BY <1>1, <2>1, ThreadAnswers, EffectStays, QuietSettles DEF SettlesMove
<1> QED BY <1>3, <1>4, <1>5, <1>6, <1>7 DEF ThreadStep, CommitUnknown

\* Every step keeps the answers true and is a move of the promised store.
LEMMA StoreMoves ==
  ASSUME StoreInv, [Next]_vars
  PROVE  /\ StoreInv'
         /\ SettlesMove \/ AcceptMove \/ PerformMove \/ BindMove \/ OtherOwner
<1>1. StorageInv'
  BY StorageNext DEF StoreInv
<1>2. CASE \/ Advance \/ AdvanceStartFails \/ CloseEnd \/ CloseBegin \/ DropBegin \/ DropEnd \/ Die
           \/ NewLoader \/ AcceptRefused \/ \E r \in Request : Take(r) \/ Abandon(r)
  BY <1>1, <1>2, LoaderSettles DEF StoreInv
<1>3. CASE ThreadStep \/ CommitUnknown \/ ThreadFails \/ ThreadPanics
  BY <1>1, <1>3, ThreadPerforms DEF StoreInv
<1>4. ASSUME NEW r \in Request, NEW operation \in Operation, Accept(r, operation)
      PROVE  StoreInv' /\ AcceptMove
  <2>1. /\ AnswerInv' /\ UNCHANGED <<disk, effect, answers, lease, thread>>
        /\ asked[r] = NoOperation /\ asked' = [asked EXCEPT ![r] = operation]
        /\ \A s \in Request : asked[s] # NoOperation => s < r
    BY <1>4, AcceptAnswers
  <2>2. EffectInv'
    <3>1. thread.pc = "returned" => /\ thread.request \in Request
                                    /\ asked[thread.request] # NoOperation
      BY DEF StoreInv, StorageInv, SessionTyped, OneThread, RecordsOK, RecordOK
    <3>2. thread.pc = "returned" => asked'[thread.request] = asked[thread.request]
      BY <2>1, <3>1 DEF StoreInv, StorageInv, SessionTyped
    <3> QED BY <2>1, <3>2 DEF StoreInv, EffectInv, Running, Operating
  <2> QED BY <1>1, <2>1, <2>2 DEF StoreInv, AcceptMove
<1>5. CASE Bind \/ OtherOwner \/ UNCHANGED vars
  <2>1. UNCHANGED <<asked, effect, answers, records, worker, thread>>
    BY <1>5 DEF Bind, OtherOwner, vars, session
  <2>2. AnswerInv' /\ EffectInv'
    BY <2>1, ThreadAnswers, EffectStays
  <2>3. Bind => BindMove
    BY DEF Bind, BindMove
  <2>4. UNCHANGED vars => SettlesMove
    BY <2>1, QuietSettles DEF SettlesMove, vars
  <2> QED BY <1>1, <1>5, <2>2, <2>3, <2>4 DEF StoreInv
<1> QED BY <1>2, <1>3, <1>4, <1>5 DEF Next

\* What the record or the history says a request was told is the same.
LEMMA AnswersAgree ==
  ASSUME StoreInv
  PROVE  [r \in Request |-> Answer(r)] = answers
<1>1. \A r \in Request : Answer(r) = answers[r]
  BY DEF Answer, StoreInv, AnswerInv
<1> QED BY <1>1 DEF StoreInv, StorageInv, SessionTyped

\* Each of the moves is the store's.
LEMMA MovesAreTheStores ==
  ASSUME StoreInv, StoreInv',
         SettlesMove \/ AcceptMove \/ PerformMove \/ BindMove \/ OtherOwner
  PROVE  [Store!Next]_<<disk, asked, effect, [r \in Request |-> Answer(r)], lease>>
<1> DEFINE told == [r \in Request |-> Answer(r)]
<1>1. told = answers /\ told' = answers'
  <2>1. told = answers
    BY AnswersAgree
  <2>2. StoreInv => told = answers
    BY AnswersAgree
  <2>3. (StoreInv => told = answers)'
    BY AnswersAgree, PTL
  <2> QED BY <2>1, <2>3
<1> HIDE DEF told
<1>2. CASE SettlesMove
  <2>1. Store!Settle
    BY <1>1, <1>2 DEF SettlesMove, Settles, Truths, Store!Settle, Store!Truth, Store!Open, Store!IsRead,
       Store!NoOperation, NoOperation, Store!NoEffect, NoBytes, IsRead, told
  <2> QED BY <2>1 DEF Store!Next
<1>3. CASE AcceptMove
  <2>1. PICK r \in Request, operation \in Operation :
          /\ \A s \in Request : asked[s] # NoOperation => s < r
          /\ asked' = [asked EXCEPT ![r] = operation]
          /\ UNCHANGED <<disk, effect, answers, lease>>
    BY <1>3 DEF AcceptMove
  <2>2. Store!Accept(r)
    BY <1>1, <2>1 DEF Store!Accept, Store!NoOperation, NoOperation, Store!Operation, Operation, told
  <2> QED BY <2>2 DEF Store!Next
<1>4. CASE PerformMove
  <2> DEFINE r == thread.request
  <2>1. /\ r \in Request /\ lease /\ asked[r] \in Operation /\ asked[r] # NoOperation
        /\ answers[r] = "none" /\ effect[r] = NoBytes
        /\ \A s \in Request : s < r /\ asked[s] # NoOperation => answers[s] # "none"
    BY <1>4, WorkedAtFirst DEF PerformMove
  <2>2. UNCHANGED <<asked, lease>> /\ told' = told
    BY <1>1, <1>4 DEF PerformMove
  <2>3. /\ \A s \in Request : Store!Open(s) <=> asked[s] # NoOperation /\ answers[s] = "none"
        /\ Store!IsRead(r) <=> asked[r].kind = "Read"
        /\ Store!NoEffect = NoBytes
    BY <1>1 DEF Store!Open, Store!NoOperation, NoOperation, Store!IsRead, Store!NoEffect, NoBytes, told
  <2>4. \/ /\ asked[r].kind = "Read" /\ disk[asked[r].key] # Missing
           /\ effect' = [effect EXCEPT ![r] = disk[asked[r].key]] /\ disk' = disk
        \/ /\ effect' = [effect EXCEPT ![r] = r]
           /\ \/ asked[r].kind = "Write" /\ disk' = [disk EXCEPT ![asked[r].key] = r]
              \/ /\ asked[r].kind = "Delete" /\ disk[asked[r].key] # Missing
                 /\ disk' = [disk EXCEPT ![asked[r].key] = Missing]
    <3>1. CASE Committing /\ Changed
      <4>1. thread.pc = "prepared" => asked[r].kind = "Write"
        BY DEF StoreInv, StorageInv, OneThread, Operating
      <4> QED BY <3>1, <4>1 DEF Committing, Changed, Performed, Operating, Target
    <3>2. CASE ~(Committing /\ Changed)
      BY <1>4, <3>2 DEF PerformMove, Operating, Target
    <3> QED BY <3>1, <3>2
  <2>5. Store!Perform(r)
    BY <2>1, <2>2, <2>3, <2>4 DEF Store!Perform, told
  <2> QED BY <2>1, <2>5 DEF Store!Next
<1>5. CASE BindMove
  <2>1. Store!TakeNamespace
    BY <1>1, <1>5 DEF BindMove, Store!TakeNamespace, told
  <2> QED BY <2>1 DEF Store!Next
<1>6. CASE OtherOwner
  <2>1. Store!OtherOwner
    BY <1>1, <1>6 DEF OtherOwner, session, Store!OtherOwner, told
  <2> QED BY <2>1 DEF Store!Next
<1> QED BY <1>2, <1>3, <1>4, <1>5, <1>6

\* The storage of a running project is the store it is promised: requests take effect in
\* their order, each at most once and under the lease, and what a receipt says of one is
\* so, across failed calls, panics, closes, drops and dead processes.
THEOREM OpaqueStoreImplemented == Spec => ImplementsOpaqueStore
<1>1. Init => StoreInv /\ Store!Init
  <2> SUFFICES ASSUME Init PROVE StoreInv /\ Store!Init
    OBVIOUS
  <2>1. AnswerInv
    BY DEF Init, AnswerInv, NoRecord, Terminal
  <2>2. EffectInv
    BY DEF Init, EffectInv, NoThread, Running
  <2>3. StoreInv
    BY <2>1, <2>2, StorageInit DEF StoreInv
  <2>4. Store!Init
    BY <2>3, AnswersAgree DEF Init, Store!Init, Store!NoOperation, NoOperation, Store!NoEffect, NoBytes
  <2> QED BY <2>3, <2>4
<1>2. StoreInv /\ [Next]_vars
        => StoreInv' /\ [Store!Next]_<<disk, asked, effect, [r \in Request |-> Answer(r)], lease>>
  BY StoreMoves, MovesAreTheStores
<1> QED BY <1>1, <1>2, PTL DEF Spec, ImplementsOpaqueStore, Store!Spec

=============================================================================

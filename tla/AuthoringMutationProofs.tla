---------------------- MODULE AuthoringMutationProofs ----------------------
(***************************************************************************)
(* For every set of processes, paths and mutations, every plan and any     *)
(* number of faults, outside writes and saves: at most one mutation is     *)
(* unfinished, what was decided of one is final, mutations happen whole or *)
(* not at all (AtomicProject), a project that opens shows its content, and *)
(* bytes that the operation at work does not know are not replaced.        *)
(***************************************************************************)
EXTENDS AuthoringMutation, FiniteSetTheorems, TLAPS

Unfinished(m) == Incomplete(m) \/ Blocked(m)

\* The fields of the records that EXCEPT changes.
Shape ==
  /\ op = [kind |-> op.kind, by |-> op.by, m |-> op.m, pc |-> op.pc,
           todo |-> op.todo, then |-> op.then, onfail |-> op.onfail,
           done |-> op.done, all |-> op.all, kept |-> op.kept,
           journal |-> op.journal, prior |-> op.prior]
  /\ journals = [m \in Mutation |-> journals[m]]

Kinds ==
  /\ op.kind \in {"none", "commit", "rollback", "recover", "save"}
  /\ op.kind = "none" => op.pc = "idle"
  /\ op.pc = "scan" => op.kind = "recover"
  /\ op.then # "scan" /\ op.onfail # "scan"

\* A save has no journal to write.
SaveSteps ==
  op.kind = "save" =>
    /\ op.pc \in {"write", "swap", "saved", "end"}
    /\ op.then = "saved"
    /\ op.onfail = "end"

OthersFinished == \A n \in Mutation \ {op.m} : ~Unfinished(n)

\* Who may write the journal of one mutation knows that no other is unfinished.
WriterAlone ==
  \/ op.kind \in {"commit", "rollback"}
  \/ op.kind = "recover" /\ op.pc \notin {"scan", "receipt"}
  => OthersFinished

AloneInv == Shape /\ Kinds /\ SaveSteps /\ WriterAlone /\ AtMostOneUnfinished

-----------------------------------------------------------------------------
USE DEF Shape, Kinds, SaveSteps, WriterAlone, OthersFinished, Unfinished,
        AtMostOneUnfinished, Incomplete, Blocked

\* The initial states satisfy the inductive invariant.
LEMMA AloneInit == Init => AloneInv
  BY DEF Init, AloneInv, NoOp, NoJournal

\* A step that leaves the journals alone and ends the operation.
LEMMA AloneEnd == AloneInv /\ UNCHANGED journals /\ op' = NoOp => AloneInv'
  BY DEF AloneInv, NoOp

\* Every step of the operation at work preserves it.
LEMMA AloneStep == AloneInv /\ OperationStep => AloneInv'
  <1> SUFFICES ASSUME AloneInv, OperationStep PROVE AloneInv'
    OBVIOUS
  <1> USE DEF AloneInv, At, disk
  <1>1. CASE JournalAway
    BY <1>1 DEF JournalAway
  <1>2. CASE JournalIn
    BY <1>2 DEF JournalIn, AfterJournal, Record, Goto
  <1>3. CASE JournalFails
    BY <1>3 DEF JournalFails, Fail, End, NoOp
  <1>4. CASE WritesDone
    BY <1>4 DEF WritesDone, Goto
  <1>5. CASE FileAway
    BY <1>5 DEF FileAway
  <1>6. CASE FileIn
    BY <1>6 DEF FileIn, NextWrite
  <1>7. CASE FileFails
    <2>1. At("write") \/ At("swap")
      BY <1>7 DEF FileFails, WriteCutOff
    <2>2. UNCHANGED journals
      BY <1>7 DEF FileFails, WriteCutOff
    <2>3. CASE op.onfail = "end"
      <3>1. op' = NoOp
        BY <1>7, <2>3 DEF FileFails, OnFailure, Fail, End
      <3> QED
        BY <3>1, <2>2, AloneEnd
    <2>4. CASE op.onfail = "mark"
      <3>1. op' = [op EXCEPT !.journal = [op.journal EXCEPT !.state = "RecoveryRequired"],
                             !.prior = NoJournal, !.pc = "journal"]
        BY <1>7, <2>4 DEF FileFails, OnFailure, RequireRecovery, Record
      <3> QED
        BY <2>1, <2>2, <2>4, <3>1
    <2>5. CASE op.onfail \notin {"end", "mark"}
      <3>1. op' = [op EXCEPT !.pc = op.onfail]
        BY <1>7, <2>5 DEF FileFails, OnFailure, Goto
      <3> QED
        BY <2>1, <2>2, <2>5, <3>1
    <2> QED
      BY <2>3, <2>4, <2>5
  <1>8. CASE Apply
    BY <1>8 DEF Apply, Goto, WriteAll
  <1>9. CASE OperationApplied
    BY <1>9 DEF OperationApplied
  <1>10. CASE Verify
    BY <1>10 DEF Verify, Goto, RequireRecovery, Record
  <1>11. CASE Inventory
    BY <1>11 DEF Inventory, Goto, Record, Journal
  <1>12. CASE Compensate
    BY <1>12 DEF Compensate, Restore, WriteAll, RequireRecovery, Record
  <1>13. CASE RollBack
    BY <1>13 DEF RollBack, Record
  <1>14. CASE CommitReceipt
    BY <1>14 DEF CommitReceipt, End, NoOp
  <1>15. CASE Scan
    <2>1. PICK m \in Unresolved :
            op' = [op EXCEPT !.m = m, !.journal = journals[m],
                             !.pc = IF Incomplete(m) THEN "classify" ELSE "receipt"]
      BY <1>15 DEF Scan
    <2>2. UNCHANGED journals /\ m \in Mutation /\ op.pc = "scan"
      BY <1>15, <2>1 DEF Scan, Unresolved
    <2>3. op'.kind = op.kind /\ op'.m = m /\ Shape'
      BY <2>1, <2>2
    <2>4. CASE Incomplete(m)
      <3>1. op'.pc = "classify"
        BY <2>1, <2>4
      <3>2. OthersFinished'
        BY <2>2, <2>3, <2>4
      <3> QED
        BY <2>1, <2>2, <2>3, <3>1, <3>2
    <2>5. CASE ~Incomplete(m)
      <3>1. op'.pc = "receipt"
        BY <2>1, <2>5
      <3> QED
        BY <2>1, <2>2, <2>3, <3>1
    <2> QED
      BY <2>4, <2>5
  <1>16. CASE Recovered
    BY <1>16 DEF Recovered, End, NoOp
  <1>17. CASE Classify
    <2>1. UNCHANGED journals /\ op.pc = "classify"
      BY <1>17 DEF Classify
    <2>2. CASE \E journal : Record(journal)
      BY <2>1, <2>2 DEF Record
    <2>3. CASE \E todo \in Restoring(ExactAfter, Before) :
                op' = [op EXCEPT !.todo = todo, !.all = (ExactAfter = WriteSet(op.m)),
                                 !.then = "recheck", !.onfail = "mark", !.pc = "write"]
      <3>1. PICK todo :
              op' = [op EXCEPT !.todo = todo, !.all = (ExactAfter = WriteSet(op.m)),
                               !.then = "recheck", !.onfail = "mark", !.pc = "write"]
        BY <2>3
      <3> QED
        BY <2>1, <3>1
    <2> QED
      BY <1>17, <2>2, <2>3 DEF Classify, RequireRecovery
  <1>18. CASE Recheck
    BY <1>18 DEF Recheck, RequireRecovery, Record, Restore, WriteAll, Goto
  <1>19. CASE Finalize
    BY <1>19 DEF Finalize, RequireRecovery, Record, Restore, WriteAll, Journal
  <1>20. CASE RecoverReceipt
    BY <1>20 DEF RecoverReceipt, End, NoOp, Goto
  <1>21. CASE Revise
    <2>1. UNCHANGED journals /\ op.pc = "revise"
      BY <1>21 DEF Revise
    <2>2. CASE \E journal : Record(journal)
      BY <2>1, <2>2 DEF Record
    <2>3. CASE \E todo : WriteAll(todo, "end", "end")
      BY <2>1, <2>3 DEF WriteAll
    <2>4. CASE op' = NoOp
      BY <2>1, <2>4, AloneEnd
    <2> QED
      BY <1>21, <2>2, <2>3, <2>4 DEF Revise, Restore, End
  <1>22. CASE RolledBack
    BY <1>22 DEF RolledBack, End, NoOp
  <1>23. CASE DocumentSaved
    BY <1>23 DEF DocumentSaved, End, NoOp
  <1>24. CASE Return
    BY <1>24 DEF Return, Fail, End, NoOp
  <1>25. CASE ReadFails
    BY <1>25 DEF ReadFails, Fail, End, NoOp
  <1>26. CASE Die
    BY <1>26 DEF Die, End, NoOp
  <1> QED
    BY <1>1, <1>2, <1>3, <1>4, <1>5, <1>6, <1>7, <1>8, <1>9, <1>10, <1>11, <1>12, <1>13, <1>14, <1>15, <1>16, <1>17, <1>18, <1>19, <1>20, <1>21, <1>22, <1>23, <1>24, <1>25, <1>26 DEF OperationStep

\* So does every other step.
LEMMA AloneNext == AloneInv /\ [Next]_vars => AloneInv'
  <1> SUFFICES ASSUME AloneInv, [Next]_vars PROVE AloneInv'
    OBVIOUS
  <1> USE DEF AloneInv, disk
  <1>1. CASE OperationStep
    BY <1>1, AloneStep
  <1>2. ASSUME NEW c \in Process, NEW m \in Mutation, BeginCommit(c, m) PROVE AloneInv'
    BY <1>2 DEF BeginCommit, NonterminalJournal, NoOp, Journal
  <1>3. ASSUME NEW c \in Process, NEW m \in Mutation, BeginRollback(c, m) PROVE AloneInv'
    <2>1. PICK todo :
            op' = [NoOp EXCEPT !.kind = "rollback", !.by = c, !.m = m, !.journal = journals[m],
                               !.todo = todo, !.then = "revise", !.onfail = "mark",
                               !.pc = "write"]
      BY <1>3 DEF BeginRollback
    <2>2. /\ UNCHANGED journals /\ m \in Mutation /\ ~NonterminalJournal
          /\ op'.kind = "rollback" /\ op'.m = m /\ op'.pc = "write"
          /\ op'.then = "revise" /\ op'.onfail = "mark"
      BY <1>3, <2>1 DEF BeginRollback, NoOp
    <2>3. Shape'
      BY <2>1, <2>2 DEF NoOp
    <2> QED
      BY <2>2, <2>3 DEF NonterminalJournal
  <1>4. ASSUME NEW c \in Process, NEW p \in Document, BeginSave(c, p) PROVE AloneInv'
    BY <1>4 DEF BeginSave, NoOp
  <1>5. ASSUME NEW c \in Process, BeginOpen(c) PROVE AloneInv'
    BY <1>5 DEF BeginOpen, NoOp
  <1>6. ASSUME NEW c \in Process, Refresh(c) \/ FinishRefresh(c) PROVE AloneInv'
    BY <1>6 DEF Refresh, FinishRefresh
  <1>7. ASSUME NEW c \in Process, Close(c) PROVE AloneInv'
    BY <1>7 DEF Close
  <1>8. ASSUME NEW p \in Path, ExternalWrite(p) PROVE AloneInv'
    BY <1>8 DEF ExternalWrite
  <1>9. CASE UNCHANGED vars
    BY <1>9 DEF vars
  <1> QED
    BY <1>1, <1>2, <1>3, <1>4, <1>5, <1>6, <1>7, <1>8, <1>9 DEF Next

\* The inductive invariant holds in every behaviour.
THEOREM AloneInvAlways == Spec => []AloneInv
  BY AloneInit, AloneNext, PTL DEF Spec

\* At most one mutation is unfinished: a commit and a rollback begin only when
\* none is (reject_nonterminal_journal), a recovery works on one at a time,
\* and the lock keeps every other writer out.
THEOREM OneUnfinishedAlways == Spec => []AtMostOneUnfinished
  <1>1. AloneInv => AtMostOneUnfinished
    BY DEF AloneInv
  <1> QED
    BY <1>1, AloneInvAlways, PTL

-----------------------------------------------------------------------------
(* Which journal an operation may find, at each of its steps *)

IsJournal(journal) ==
  journal = [state |-> journal.state, seen |-> journal.seen, after |-> journal.after]

JournalShape ==
  /\ IsJournal(op.journal) /\ IsJournal(op.prior)
  /\ \A m \in Mutation : IsJournal(journals[m])

\* The journal a commit replaces is its own, prepared or applying.
CommitSteps ==
  op.kind = "commit" =>
    /\ op.m \in Mutation
    /\ op.pc \in {"journal", "journalSwap", "apply", "applied", "write", "swap", "verify",
                  "inventory", "compensate", "rollBack", "receipt", "end"}
    /\ op.then \in {"applied", "rollBack", "end"} /\ op.onfail \in {"compensate", "end"}
    /\ op.journal.state # "None"
    /\ op.pc \in {"apply", "applied", "write", "swap", "verify", "inventory", "compensate",
                  "rollBack"} => journals[op.m].state = "Applying"
    /\ op.pc = "journal" => \/ journals[op.m] = NoJournal /\ op.journal.state = "Prepared"
                           \/ journals[op.m].state \in {"Prepared", "Applying"}
    /\ op.pc = "journalSwap" => /\ journals[op.m] = NoJournal
                               /\ op.prior.state \in {"Prepared", "Applying"}
    /\ op.pc \in {"receipt", "end"} => journals[op.m].state # "None"

\* So is the one that a recovery replaces.
RecoverSteps ==
  op.kind = "recover" =>
    /\ op.pc \in {"scan", "classify", "write", "swap", "recheck", "finalize", "rollBack",
                  "receipt", "journal", "journalSwap", "end"}
    /\ op.then \in {"recheck", "finalize", "rollBack", "end"} /\ op.onfail \in {"mark", "end"}
    /\ op.pc \notin {"scan", "receipt", "end"} => op.m \in Mutation
    /\ op.pc \in {"classify", "write", "swap", "recheck", "finalize", "rollBack", "journal"} =>
         journals[op.m].state \in {"Prepared", "Applying"}
    /\ op.pc = "journalSwap" => /\ journals[op.m] = NoJournal
                               /\ op.prior.state \in {"Prepared", "Applying"}
    /\ op.pc \in {"journal", "journalSwap"} =>
         op.journal.state \in {"RecoveryRequired", "Aborted", "RolledBack", "Committed"}

\* A rollback replaces a committed one.
RollbackSteps ==
  op.kind = "rollback" =>
    /\ op.m \in Mutation
    /\ op.pc \in {"write", "swap", "revise", "journal", "journalSwap", "rolledBack", "end"}
    /\ op.then \in {"revise", "end"} /\ op.onfail \in {"mark", "end"}
    /\ op.pc \in {"write", "swap", "revise", "journal"} => journals[op.m].state = "Committed"
    /\ op.pc = "journalSwap" => /\ journals[op.m] = NoJournal
                               /\ op.prior.state = "Committed"
    /\ op.pc \in {"journal", "journalSwap"} =>
         op.journal.state \in {"RecoveryRequired", "RolledBack"}

StepsInv == AloneInv /\ JournalShape /\ CommitSteps /\ RecoverSteps /\ RollbackSteps

USE DEF JournalShape, IsJournal, CommitSteps, RecoverSteps, RollbackSteps

\* The initial states satisfy it.
LEMMA StepsInit == Init => StepsInv
  <1> SUFFICES ASSUME Init PROVE StepsInv
    OBVIOUS
  <1>1. AloneInv
    BY AloneInit
  <1> QED
    BY <1>1 DEF Init, StepsInv, NoOp, NoJournal

\* Where the journal of the mutation at work still stands.
AtWork == {"apply", "write", "swap", "verify", "inventory", "compensate", "rollBack",
           "classify", "recheck", "finalize", "revise"}

\* A journal to be written next keeps the invariant, if it is one that the kind
\* of the operation writes.
LEMMA RecordSteps ==
  ASSUME StepsInv, AloneInv', UNCHANGED journals, op.pc \in AtWork, op.kind # "save",
         NEW journal, IsJournal(journal), Record(journal),
         \/ journal.state \in {"RecoveryRequired", "RolledBack"}
         \/ journal.state = "Committed" /\ op.kind # "rollback"
         \/ journal.state = "Aborted" /\ op.kind = "recover"
  PROVE  StepsInv'
  <1> USE DEF StepsInv, AloneInv, AtWork, Record, NoJournal
  <1>1. op'.kind = op.kind /\ op'.m = op.m /\ op'.pc = "journal" /\ op'.journal = journal
        /\ op'.prior = NoJournal /\ op'.then = op.then /\ op'.onfail = op.onfail
    OBVIOUS
  <1> HIDE DEF Record
  <1>2. JournalShape'
    BY <1>1
  <1>3. CommitSteps'
    BY <1>1
  <1>4. RecoverSteps'
    BY <1>1
  <1>5. RollbackSteps'
    BY <1>1
  <1> QED
    BY <1>2, <1>3, <1>4, <1>5

\* The new state of a journal is written in its old place.
LEMMA StateChanged ==
  ASSUME NEW journal, IsJournal(journal), NEW state
  PROVE  LET new == [journal EXCEPT !.state = state]
         IN IsJournal(new) /\ new.state = state
  OBVIOUS

\* The same for a step that only says where to go on.
LEMMA GotoSteps ==
  ASSUME StepsInv, AloneInv', UNCHANGED journals, op.pc \in AtWork \cup {"applied"},
         op'.kind = op.kind, op'.m = op.m, op'.journal = op.journal, op'.prior = op.prior,
         op.kind = "commit" =>
           /\ op'.pc \in {"apply", "applied", "write", "verify", "inventory", "compensate",
                          "rollBack", "end"}
           /\ op'.then \in {"applied", "rollBack", "end"}
           /\ op'.onfail \in {"compensate", "end"},
         op.kind = "recover" =>
           /\ op'.pc \in {"write", "recheck", "finalize", "rollBack", "end"}
           /\ op'.then \in {"recheck", "finalize", "rollBack", "end"}
           /\ op'.onfail \in {"mark", "end"},
         op.kind = "rollback" =>
           /\ op'.pc \in {"write", "revise", "end"}
           /\ op'.then \in {"revise", "end"}
           /\ op'.onfail \in {"mark", "end"}
  PROVE  StepsInv'
  <1> USE DEF StepsInv, AtWork
  <1>1. JournalShape'
    OBVIOUS
  <1>2. CommitSteps'
    OBVIOUS
  <1>3. RecoverSteps'
    OBVIOUS
  <1>4. RollbackSteps'
    OBVIOUS
  <1> QED
    BY <1>1, <1>2, <1>3, <1>4

\* Every step of the operation at work preserves it.
LEMMA StepsStep == StepsInv /\ OperationStep => StepsInv'
  <1> SUFFICES ASSUME StepsInv, OperationStep PROVE StepsInv'
    OBVIOUS
  <1>a. AloneInv'
    BY AloneStep DEF StepsInv
  <1>b. op.pc \in AtWork /\ op.kind # "save" /\ UNCHANGED journals /\ RequireRecovery
        => StepsInv'
    BY <1>a, StateChanged, RecordSteps DEF RequireRecovery, StepsInv
  <1>d. LET journal == Journal("Committed", op.journal.seen, Revision)
        IN IsJournal(journal) /\ journal.state = "Committed"
    BY DEF Journal
  <1> USE DEF StepsInv, AloneInv, At, disk
  <1>1. CASE JournalAway
    BY <1>a, <1>1 DEF JournalAway, NoJournal
  <1>2. CASE JournalIn
    <2> DEFINE state == op.journal.state
    <2>1. /\ op.pc \in {"journal", "journalSwap"}
          /\ journals' = [journals EXCEPT ![op.m] = op.journal]
          /\ AfterJournal
      BY <1>2 DEF JournalIn
    <2>2. op.kind \in {"commit", "recover", "rollback"} /\ op.m \in Mutation
      BY <2>1
    <2>3. journals'[op.m] = op.journal /\ \A m \in Mutation : IsJournal(journals'[m])
      BY <2>1, <2>2
    <2>4. CASE state = "Prepared"
      <3>1. op' = [op EXCEPT !.journal = [op.journal EXCEPT !.state = "Applying"],
                             !.prior = NoJournal, !.pc = "journal"]
        BY <2>1, <2>4 DEF AfterJournal, Record
      <3>2. op.kind = "commit" /\ op'.kind = op.kind /\ op'.m = op.m
        BY <2>1, <2>2, <2>4, <3>1
      <3> QED
        BY <1>a, <2>2, <2>3, <2>4, <3>1, <3>2 DEF NoJournal
    <2>5. CASE state # "Prepared"
      <3>1. PICK pc : /\ op' = [op EXCEPT !.pc = pc]
                      /\ \/ state = "Applying" /\ pc = "apply"
                         \/ state = "Committed" /\ pc = "receipt"
                         \/ state = "RolledBack" /\ op.kind = "rollback" /\ pc = "rolledBack"
                         \/ op.kind = "recover" /\ pc = "scan"
                         \/ state \notin {"Applying", "Committed"} /\ pc = "end"
        BY <2>1, <2>5 DEF AfterJournal, Goto
      <3>2. op'.kind = op.kind /\ op'.m = op.m /\ op'.pc = pc /\ op'.journal = op.journal
            /\ op'.prior = op.prior /\ op'.then = op.then /\ op'.onfail = op.onfail
        BY <3>1
      <3>3. JournalShape'
        BY <2>3, <3>2
      <3>4. CommitSteps'
        BY <2>1, <2>3, <2>5, <3>1, <3>2
      <3>5. RecoverSteps'
        BY <2>1, <2>2, <2>3, <3>1, <3>2
      <3>6. RollbackSteps'
        BY <2>1, <2>3, <3>1, <3>2
      <3> QED
        BY <1>a, <3>3, <3>4, <3>5, <3>6
    <2> QED
      BY <2>4, <2>5
  <1>3. CASE JournalFails
    BY <1>a, <1>3 DEF JournalFails, NoJournal, Fail, End, NoOp
  <1>4. CASE WritesDone
    BY <1>a, <1>4 DEF WritesDone, NoJournal, Goto
  <1>5. CASE FileAway
    BY <1>a, <1>5 DEF FileAway, NoJournal
  <1>6. CASE FileIn
    BY <1>a, <1>6 DEF FileIn, NoJournal, NextWrite
  <1>7. CASE FileFails
    <2>1. op.pc \in {"write", "swap"} /\ UNCHANGED journals
      BY <1>7 DEF FileFails, WriteCutOff
    <2>2. CASE op.onfail = "end"
      <3>1. op' = NoOp
        BY <1>7, <2>2 DEF FileFails, OnFailure, Fail, End
      <3> QED
        BY <1>a, <2>1, <3>1 DEF NoOp, NoJournal
    <2>3. CASE op.onfail = "mark"
      <3>1. RequireRecovery
        BY <1>7, <2>3 DEF FileFails, OnFailure
      <3> QED
        BY <1>a, <1>b, <2>1, <2>3, <3>1 DEF AtWork
    <2>4. CASE op.onfail \notin {"end", "mark"}
      <3>1. op' = [op EXCEPT !.pc = op.onfail]
        BY <1>7, <2>4 DEF FileFails, OnFailure, Goto
      <3> QED
        BY <1>a, <2>1, <2>4, <3>1, GotoSteps DEF AtWork
    <2> QED
      BY <2>2, <2>3, <2>4
  <1>8. CASE Apply
    <2>1. op.pc = "apply" /\ UNCHANGED journals
      BY <1>8 DEF Apply
    <2>2. CASE Goto("verify")
      BY <1>a, <2>1, <2>2, GotoSteps DEF AtWork, Goto
    <2>3. CASE \E todo : WriteAll(todo, "applied", "compensate")
      BY <1>a, <2>1, <2>3, GotoSteps DEF AtWork, WriteAll
    <2> QED
      BY <1>8, <2>2, <2>3 DEF Apply
  <1>9. CASE OperationApplied
    BY <1>a, <1>9 DEF OperationApplied, NoJournal
  <1>10. CASE Verify
    <2>1. op.pc = "verify" /\ UNCHANGED journals
      BY <1>10 DEF Verify
    <2>2. CASE Goto("inventory")
      BY <1>a, <2>1, <2>2, GotoSteps DEF AtWork, Goto
    <2>3. CASE RequireRecovery
      BY <1>a, <1>b, <2>1, <2>3 DEF AtWork
    <2> QED
      BY <1>10, <2>2, <2>3 DEF Verify
  <1>11. CASE Inventory
    <2>1. op.pc = "inventory" /\ UNCHANGED journals
      BY <1>11 DEF Inventory
    <2>2. CASE Goto("compensate")
      BY <1>a, <2>1, <2>2, GotoSteps DEF AtWork, Goto
    <2>3. CASE Record(Journal("Committed", op.journal.seen, Revision))
      BY <1>a, <1>d, <2>1, <2>3, RecordSteps DEF AtWork
    <2> QED
      BY <1>11, <2>2, <2>3 DEF Inventory
  <1>12. CASE Compensate
    <2>1. op.pc = "compensate" /\ UNCHANGED journals
      BY <1>12 DEF Compensate
    <2>2. CASE \E todo : WriteAll(todo, "rollBack", "end")
      BY <1>a, <2>1, <2>2, GotoSteps DEF AtWork, WriteAll
    <2>3. CASE RequireRecovery
      BY <1>a, <1>b, <2>1, <2>3 DEF AtWork
    <2> QED
      BY <1>12, <2>2, <2>3 DEF Compensate, Restore
  <1>13. CASE RollBack
    BY <1>a, <1>13 DEF RollBack, NoJournal, Record
  <1>14. CASE CommitReceipt
    BY <1>a, <1>14 DEF CommitReceipt, NoJournal, End, NoOp
  <1>15. CASE Scan
    BY <1>a, <1>15 DEF Scan, NoJournal, Unresolved, Receiptless
  <1>16. CASE Recovered
    BY <1>a, <1>16 DEF Recovered, NoJournal, End, NoOp
  <1>17. CASE Classify
    <2>1. op.pc = "classify" /\ UNCHANGED journals /\ op.kind = "recover"
      BY <1>17 DEF Classify
    <2>2. CASE RequireRecovery
      BY <1>a, <1>b, <2>1, <2>2 DEF AtWork
    <2>3. CASE Record([op.journal EXCEPT !.state = "Aborted"])
      BY <1>a, <2>1, <2>3, StateChanged, RecordSteps DEF AtWork
    <2>4. CASE \E todo \in Restoring(ExactAfter, Before) :
                op' = [op EXCEPT !.todo = todo, !.all = (ExactAfter = WriteSet(op.m)),
                                 !.then = "recheck", !.onfail = "mark", !.pc = "write"]
      <3>1. PICK todo :
              op' = [op EXCEPT !.todo = todo, !.all = (ExactAfter = WriteSet(op.m)),
                               !.then = "recheck", !.onfail = "mark", !.pc = "write"]
        BY <2>4
      <3> QED
        BY <1>a, <2>1, <3>1, GotoSteps DEF AtWork
    <2> QED
      BY <1>17, <2>2, <2>3, <2>4 DEF Classify
  <1>18. CASE Recheck
    <2>1. op.pc = "recheck" /\ UNCHANGED journals
      BY <1>18 DEF Recheck
    <2>2. CASE RequireRecovery
      BY <1>a, <1>b, <2>1, <2>2 DEF AtWork
    <2>3. CASE \E todo : WriteAll(todo, "finalize", "mark")
      BY <1>a, <2>1, <2>3, GotoSteps DEF AtWork, WriteAll
    <2>4. CASE Goto("rollBack")
      BY <1>a, <2>1, <2>4, GotoSteps DEF AtWork, Goto
    <2> QED
      BY <1>18, <2>2, <2>3, <2>4 DEF Recheck, Restore
  <1>19. CASE Finalize
    <2>1. op.pc = "finalize" /\ UNCHANGED journals /\ op.kind = "recover"
      BY <1>19 DEF Finalize
    <2>2. CASE RequireRecovery
      BY <1>a, <1>b, <2>1, <2>2 DEF AtWork
    <2>3. CASE \E todo : WriteAll(todo, "rollBack", "end")
      BY <1>a, <2>1, <2>3, GotoSteps DEF AtWork, WriteAll
    <2>4. CASE Record(Journal("Committed", op.journal.seen, Revision))
      BY <1>a, <1>d, <2>1, <2>4, RecordSteps DEF AtWork
    <2> QED
      BY <1>19, <2>2, <2>3, <2>4 DEF Finalize, Restore
  <1>20. CASE RecoverReceipt
    BY <1>a, <1>20 DEF RecoverReceipt, NoJournal, End, NoOp, Goto
  <1>21. CASE Revise
    <2>1. op.pc = "revise" /\ UNCHANGED journals
      BY <1>21 DEF Revise
    <2>2. CASE Record([op.journal EXCEPT !.state = "RolledBack"])
      BY <1>a, <2>1, <2>2, StateChanged, RecordSteps DEF AtWork
    <2>3. CASE \E todo : WriteAll(todo, "end", "end")
      BY <1>a, <2>1, <2>3, GotoSteps DEF AtWork, WriteAll
    <2>4. CASE op' = NoOp
      BY <1>a, <2>1, <2>4 DEF NoOp, NoJournal
    <2> QED
      BY <1>21, <2>2, <2>3, <2>4 DEF Revise, Restore, End
  <1>22. CASE RolledBack
    BY <1>a, <1>22 DEF RolledBack, NoJournal, End, NoOp
  <1>23. CASE DocumentSaved
    BY <1>a, <1>23 DEF DocumentSaved, NoJournal, End, NoOp
  <1>24. CASE Return
    BY <1>a, <1>24 DEF Return, NoJournal, Fail, End, NoOp
  <1>25. CASE ReadFails
    BY <1>a, <1>25 DEF ReadFails, NoJournal, Fail, End, NoOp
  <1>26. CASE Die
    BY <1>a, <1>26 DEF Die, NoJournal, End, NoOp
  <1> QED
    BY <1>1, <1>2, <1>3, <1>4, <1>5, <1>6, <1>7, <1>8, <1>9, <1>10, <1>11, <1>12, <1>13, <1>14, <1>15, <1>16, <1>17, <1>18, <1>19, <1>20, <1>21, <1>22, <1>23, <1>24, <1>25, <1>26 DEF OperationStep

-----------------------------------------------------------------------------
(* A journal lies in a transaction directory *)

JournalsUsed ==
  /\ \A m \in Mutation : m \notin used => journals[m] = NoJournal
  /\ \/ op.kind \in {"commit", "rollback"}
     \/ op.kind = "recover" /\ op.pc # "scan"
     => op.m \in used

\* A step of the operation at work that is none of a scan leaves its mutation.
LEMMA SameMutation ==
  ASSUME StepsInv, JournalsUsed, op.pc # "scan", op.pc # "idle",
         op'.kind = op.kind, op'.m = op.m, UNCHANGED used,
         \/ UNCHANGED journals
         \/ op.m \in used /\ \E journal : journals' = [journals EXCEPT ![op.m] = journal]
  PROVE  JournalsUsed'
  BY DEF StepsInv, AloneInv, JournalsUsed

\* Every step preserves it.
LEMMA UsedStep == StepsInv /\ JournalsUsed /\ OperationStep => JournalsUsed'
  <1> SUFFICES ASSUME StepsInv, JournalsUsed, OperationStep PROVE JournalsUsed'
    OBVIOUS
  <1> USE DEF At, disk
  <1>a. ASSUME op' = NoOp, UNCHANGED <<journals, used>> PROVE JournalsUsed'
    BY <1>a DEF JournalsUsed, NoOp
  <1>b. op.pc \in {"journal", "journalSwap"} => op.m \in used
    BY DEF StepsInv, AloneInv, JournalsUsed
  <1>c. Shape
    BY DEF StepsInv, AloneInv
  <1>1. CASE JournalAway
    BY <1>b, <1>c, <1>1, SameMutation DEF JournalAway
  <1>2. CASE JournalIn
    BY <1>b, <1>c, <1>2, SameMutation DEF JournalIn, AfterJournal, Record, Goto
  <1>3. CASE JournalFails
    BY <1>b, <1>c, <1>3 DEF JournalFails, Fail, End, NoOp, JournalsUsed
  <1>4. CASE WritesDone
    BY <1>c, <1>4, SameMutation DEF WritesDone, Goto
  <1>5. CASE FileAway
    BY <1>c, <1>5, SameMutation DEF FileAway
  <1>6. CASE FileIn
    BY <1>c, <1>6, SameMutation DEF FileIn, NextWrite
  <1>7. CASE FileFails
    <2>1. UNCHANGED <<journals, used>> /\ op.pc \in {"write", "swap"}
      BY <1>7 DEF FileFails, WriteCutOff
    <2>2. CASE Fail
      BY <1>a, <2>1, <2>2 DEF Fail, End
    <2>3. CASE RequireRecovery \/ Goto(op.onfail)
      BY <1>c, <2>1, <2>3, SameMutation DEF RequireRecovery, Record, Goto
    <2> QED
      BY <1>7, <2>2, <2>3 DEF FileFails, OnFailure
  <1>8. CASE Apply
    BY <1>c, <1>8, SameMutation DEF Apply, Goto, WriteAll
  <1>9. CASE OperationApplied
    BY <1>c, <1>9, SameMutation DEF OperationApplied
  <1>10. CASE Verify
    BY <1>c, <1>10, SameMutation DEF Verify, Goto, RequireRecovery, Record
  <1>11. CASE Inventory
    BY <1>c, <1>11, SameMutation DEF Inventory, Goto, Record, Journal
  <1>12. CASE Compensate
    BY <1>c, <1>12, SameMutation DEF Compensate, Restore, WriteAll, RequireRecovery, Record
  <1>13. CASE RollBack
    BY <1>c, <1>13, SameMutation DEF RollBack, Record
  <1>14. CASE CommitReceipt
    BY <1>a, <1>14 DEF CommitReceipt, Fail, End
  <1>15. CASE Scan
    <2>1. PICK m \in Unresolved : op'.kind = op.kind /\ op'.m = m
      BY <1>c, <1>15 DEF Scan
    <2>2. m \in Mutation /\ journals[m] # NoJournal
      BY <2>1 DEF Unresolved, Receiptless, NoJournal
    <2>3. UNCHANGED <<journals, used>>
      BY <1>15 DEF Scan
    <2> QED
      BY <2>1, <2>2, <2>3 DEF JournalsUsed
  <1>16. CASE Recovered
    BY <1>a, <1>16 DEF Recovered, Fail, End
  <1>17. CASE Classify
    BY <1>c, <1>17, SameMutation DEF Classify, RequireRecovery, Record
  <1>18. CASE Recheck
    BY <1>c, <1>18, SameMutation DEF Recheck, RequireRecovery, Record, Restore, WriteAll, Goto
  <1>19. CASE Finalize
    BY <1>c, <1>19, SameMutation DEF Finalize, RequireRecovery, Record, Restore, WriteAll, Journal
  <1>20. CASE RecoverReceipt
    BY <1>a, <1>c, <1>20, SameMutation DEF RecoverReceipt, End, Goto
  <1>21. CASE Revise
    BY <1>a, <1>c, <1>21, SameMutation DEF Revise, Record, Restore, WriteAll, End
  <1>22. CASE RolledBack
    BY <1>a, <1>22 DEF RolledBack, Fail, End
  <1>23. CASE DocumentSaved
    BY <1>a, <1>23 DEF DocumentSaved, Fail, End
  <1>24. CASE Return
    BY <1>a, <1>24 DEF Return, Fail, End
  <1>25. CASE ReadFails
    BY <1>a, <1>25 DEF ReadFails, Fail, End
  <1>26. CASE Die
    BY <1>a, <1>26 DEF Die, Fail, End
  <1> QED
    BY <1>1, <1>2, <1>3, <1>4, <1>5, <1>6, <1>7, <1>8, <1>9, <1>10, <1>11, <1>12, <1>13, <1>14, <1>15, <1>16, <1>17, <1>18, <1>19, <1>20, <1>21, <1>22, <1>23, <1>24, <1>25, <1>26 DEF OperationStep

\* So does every other step, and the two together preserve the first.
LEMMA UsedNext == StepsInv /\ JournalsUsed /\ [Next]_vars => JournalsUsed'
  <1> SUFFICES ASSUME StepsInv, JournalsUsed, [Next]_vars PROVE JournalsUsed'
    OBVIOUS
  <1>1. CASE OperationStep
    BY <1>1, UsedStep
  <1>2. ASSUME NEW c \in Process, NEW m \in Mutation, BeginCommit(c, m) PROVE JournalsUsed'
    BY <1>2 DEF BeginCommit, NoOp, JournalsUsed
  <1>3. ASSUME NEW c \in Process, NEW m \in Mutation, BeginRollback(c, m) PROVE JournalsUsed'
    BY <1>3 DEF BeginRollback, NoOp, NoJournal, JournalsUsed, disk
  <1>4. ASSUME NEW c \in Process, NEW p \in Document, BeginSave(c, p) PROVE JournalsUsed'
    BY <1>4 DEF BeginSave, NoOp, JournalsUsed, disk
  <1>5. ASSUME NEW c \in Process, BeginOpen(c) PROVE JournalsUsed'
    BY <1>5 DEF BeginOpen, NoOp, JournalsUsed, disk
  <1>6. CASE UNCHANGED <<journals, used, op>>
    BY <1>6 DEF JournalsUsed
  <1> QED
    BY <1>1, <1>2, <1>3, <1>4, <1>5, <1>6
       DEF Next, Refresh, FinishRefresh, Close, ExternalWrite, vars, disk

\* Every step preserves it.
LEMMA StepsNext == StepsInv /\ JournalsUsed /\ [Next]_vars => StepsInv'
  <1> SUFFICES ASSUME StepsInv, JournalsUsed, [Next]_vars PROVE StepsInv'
    OBVIOUS
  <1>a. AloneInv'
    BY AloneNext DEF StepsInv
  <1> USE DEF StepsInv, AloneInv, disk
  <1>1. CASE OperationStep
    BY <1>1, StepsStep
  <1>2. ASSUME NEW c \in Process, NEW m \in Mutation, BeginCommit(c, m) PROVE StepsInv'
    BY <1>a, <1>2 DEF BeginCommit, JournalsUsed, NoOp, NoJournal, Journal
  <1>3. ASSUME NEW c \in Process, NEW m \in Mutation, BeginRollback(c, m) PROVE StepsInv'
    BY <1>a, <1>3 DEF BeginRollback, NoOp, NoJournal
  <1>4. ASSUME NEW c \in Process, NEW p \in Document, BeginSave(c, p) PROVE StepsInv'
    BY <1>a, <1>4 DEF BeginSave, NoOp, NoJournal
  <1>5. ASSUME NEW c \in Process, BeginOpen(c) PROVE StepsInv'
    BY <1>a, <1>5 DEF BeginOpen, NoOp, NoJournal
  <1>6. ASSUME NEW c \in Process, Refresh(c) \/ FinishRefresh(c) PROVE StepsInv'
    BY <1>a, <1>6 DEF Refresh, FinishRefresh
  <1>7. ASSUME NEW c \in Process, Close(c) PROVE StepsInv'
    BY <1>a, <1>7 DEF Close
  <1>8. ASSUME NEW p \in Path, ExternalWrite(p) PROVE StepsInv'
    BY <1>a, <1>8 DEF ExternalWrite
  <1>9. CASE UNCHANGED vars
    BY <1>a, <1>9 DEF vars
  <1> QED
    BY <1>1, <1>2, <1>3, <1>4, <1>5, <1>6, <1>7, <1>8, <1>9 DEF Next

-----------------------------------------------------------------------------
(* Outcomes *)

FinalKept ==
  \A m \in Mutation : journals[m].state \in {"Aborted", "RolledBack"} => journals'[m] = journals[m]

EffectKept ==
  \A m \in Mutation :
    InEffect(m) => InEffect(m)' \/ journals'[m] = NoJournal \/ op.kind = "rollback"

\* A journal that is aborted or rolled back is replaced by no step.
LEMMA FinalStep == StepsInv /\ [Next]_vars => FinalKept
  <1> SUFFICES ASSUME StepsInv, [Next]_vars PROVE FinalKept
    OBVIOUS
  <1> USE DEF StepsInv, AloneInv, FinalKept
  <1>1. CASE JournalAway
    BY <1>1 DEF JournalAway, At, NoJournal
  <1>2. CASE JournalIn
    BY <1>2 DEF JournalIn, At, NoJournal
  <1>3. CASE JournalFails
    BY <1>3 DEF JournalFails, At, NoJournal
  <1>4. CASE UNCHANGED journals
    BY <1>4
  <1> QED
    BY <1>1, <1>2, <1>3, <1>4 DEF vars, disk, Next, OperationStep, WritesDone, FileAway,
       FileIn, FileFails, Apply, OperationApplied, Verify, Inventory, Compensate, RollBack,
       CommitReceipt, Scan, Recovered, Classify, Recheck, Finalize, RecoverReceipt, Revise,
       RolledBack, DocumentSaved, Return, ReadFails, Die, BeginCommit, BeginRollback,
       BeginSave, BeginOpen, Refresh, FinishRefresh, Close, ExternalWrite

\* A mutation in effect is so by the journal that lies in its directory, unless
\* a rollback is at work on it.
LEMMA StandingInPlace ==
  ASSUME StepsInv, NEW m \in Mutation, InEffect(m), op.kind # "rollback"
  PROVE  Standing(m) = journals[m]
  <1> USE DEF StepsInv, AloneInv, At, NoJournal
  <1>1. Standing(m).state \in {"Committed", "RecoveryRequired"}
    BY DEF InEffect
  <1>2. CASE op.m = m /\ op.pc = "journalSwap"
    BY <1>1, <1>2 DEF Standing
  <1>3. CASE op.m = m /\ op.pc # "journalSwap" /\ op.kind = "commit" /\ journals[m] = NoJournal
    BY <1>1, <1>3 DEF Standing
  <1> QED
    BY <1>2, <1>3 DEF Standing

\* Nothing but a rollback ends the effect of a mutation whose journal is kept.
LEMMA EffectStep == StepsInv /\ StepsInv' /\ [Next]_vars => EffectKept
  <1> SUFFICES ASSUME StepsInv, StepsInv', [Next]_vars, NEW m \in Mutation, InEffect(m),
                      journals'[m] # NoJournal, op.kind # "rollback"
               PROVE  InEffect(m)'
    BY DEF EffectKept
  <1>1. Standing(m) = journals[m]
    BY StandingInPlace
  <1>2. journals[m].state \in {"Committed", "RecoveryRequired"}
    BY <1>1 DEF InEffect
  <1>3. journals'[m] = journals[m]
    <2> USE DEF StepsInv, AloneInv, At, NoJournal
    <2>1. CASE JournalAway
      BY <1>2, <2>1 DEF JournalAway
    <2>2. CASE JournalIn
      BY <1>2, <2>2 DEF JournalIn
    <2>3. CASE JournalFails
      BY <1>2, <2>3 DEF JournalFails
    <2>4. CASE UNCHANGED journals
      BY <2>4
    <2> QED
      BY <2>1, <2>2, <2>3, <2>4 DEF vars, disk, Next, OperationStep, WritesDone, FileAway,
         FileIn, FileFails, Apply, OperationApplied, Verify, Inventory, Compensate, RollBack,
         CommitReceipt, Scan, Recovered, Classify, Recheck, Finalize, RecoverReceipt, Revise,
         RolledBack, DocumentSaved, Return, ReadFails, Die, BeginCommit, BeginRollback,
         BeginSave, BeginOpen, Refresh, FinishRefresh, Close, ExternalWrite
  <1>4. ~(op'.m = m /\ op'.pc = "journalSwap")
    BY DEF StepsInv, AloneInv
  <1>5. Standing(m)' = journals'[m]
    BY <1>4 DEF Standing, At
  <1> QED
    BY <1>1, <1>3, <1>5 DEF InEffect

\* What has been decided of a mutation stays so while its journal is kept: an
\* aborted or rolled back journal is never replaced, and recovery, a commit or
\* a save never undoes a mutation in effect.
THEOREM OutcomesAreFinal == Spec => OutcomeIsFinal
  <1>1. Init => StepsInv /\ JournalsUsed
    BY StepsInit DEF Init, JournalsUsed, NoOp
  <1>2. StepsInv /\ JournalsUsed /\ [Next]_vars => (StepsInv /\ JournalsUsed)'
    BY StepsNext, UsedNext
  <1>3. StepsInv /\ StepsInv' /\ [Next]_vars
        => [\A m \in Mutation :
              /\ journals[m].state \in {"Aborted", "RolledBack"} => journals'[m] = journals[m]
              /\ InEffect(m) => InEffect(m)' \/ journals'[m] = NoJournal \/ op.kind = "rollback"]_vars
    BY FinalStep, EffectStep DEF FinalKept, EffectKept
  <1> QED
    BY <1>1, <1>2, <1>3, PTL DEF Spec, OutcomeIsFinal

-----------------------------------------------------------------------------
(* What a project and a mutation are made of *)

HIDE DEF Shape, Kinds, SaveSteps, WriterAlone, OthersFinished, Unfinished,
         AtMostOneUnfinished, Incomplete, Blocked, JournalShape, IsJournal, CommitSteps,
         RecoverSteps, RollbackSteps

\* What a path may hold.
Bytes == {Missing, External, Saved} \cup {Old(p) : p \in Path} \cup {New(m) : m \in Mutation}

\* What a project may hold.
Contents == [Path -> Bytes]

\* The operation a path belongs to is one of the plan.
LEMMA ChosenOperation ==
  ASSUME NEW m \in Mutation, NEW p \in WriteSet(m)
  PROVE  LET i == CHOOSE i \in 1 .. Len(Plan[m]) : p \in OperationPaths(Plan[m][i])
         IN /\ i \in 1 .. Len(Plan[m])
            /\ p \in OperationPaths(Plan[m][i])
            /\ Plan[m][i] \in Operation
<1>1. Plan[m] \in Seq(Operation)
  BY PlanAssumption
<1>2. \E i \in 1 .. Len(Plan[m]) : p \in OperationPaths(Plan[m][i])
  BY <1>1 DEF WriteSet, WriteSetOf
<1> QED
  BY <1>1, <1>2

\* The paths of a mutation are finitely many paths of the project.
LEMMA PathsOfOperation ==
  ASSUME NEW o \in Operation
  PROVE  /\ OperationPaths(o) \subseteq Path
         /\ IsFiniteSet(OperationPaths(o))
         /\ o.path \in OperationPaths(o)
         /\ o.kind = "Move" => o.from \in OperationPaths(o)
<1>1. o.path \in Path /\ (o.kind = "Move" => o.from \in Path)
  BY DEF Operation
<1>2. IsFiniteSet({o.path}) /\ IsFiniteSet({o.from}) /\ IsFiniteSet({})
  BY FS_Singleton, FS_EmptySet
<1>3. IsFiniteSet({o.path} \cup {}) /\ IsFiniteSet({o.path} \cup {o.from})
  BY <1>2, FS_Union
<1> QED
  BY <1>1, <1>3 DEF OperationPaths

\* So are those of a mutation as a whole.
LEMMA PathsOfMutation ==
  ASSUME NEW m \in Mutation
  PROVE  /\ WriteSet(m) \subseteq Path
         /\ IsFiniteSet(WriteSet(m))
         /\ WriteSet(m) # {}
         /\ Len(Plan[m]) \in Nat
         /\ \A i \in 1 .. Len(Plan[m]) : /\ Plan[m][i] \in Operation
                                        /\ OperationPaths(Plan[m][i]) \subseteq WriteSet(m)
<1>1. Plan[m] \in Seq(Operation) /\ Len(Plan[m]) \in Nat /\ Plan[m] # << >>
  BY PlanAssumption
<1>2. \A i \in 1 .. Len(Plan[m]) : Plan[m][i] \in Operation
  BY <1>1
<1>3. \A i \in 1 .. Len(Plan[m]) : /\ OperationPaths(Plan[m][i]) \subseteq Path
                                  /\ IsFiniteSet(OperationPaths(Plan[m][i]))
                                  /\ Plan[m][i].path \in OperationPaths(Plan[m][i])
  BY <1>2, PathsOfOperation
<1>4. IsFiniteSet(1 .. Len(Plan[m]))
  <2>1. 1 \in Int /\ Len(Plan[m]) \in Int
    BY <1>1
  <2> QED
    BY <2>1, FS_Interval
<1> DEFINE f == [i \in 1 .. Len(Plan[m]) |-> OperationPaths(Plan[m][i])]
           Sets == {OperationPaths(Plan[m][i]) : i \in 1 .. Len(Plan[m])}
<1>5. IsFiniteSet(Sets)
  <2>1. f \in Surjection(1 .. Len(Plan[m]), Sets)
    BY DEF Surjection
  <2> QED
    BY <1>4, <2>1, FS_Surjection
<1>6. IsFiniteSet(UNION Sets)
  BY <1>3, <1>5, FS_UNION
<1>7. 1 \in 1 .. Len(Plan[m])
  BY <1>1
<1> QED
  BY <1>1, <1>2, <1>3, <1>6, <1>7 DEF WriteSet, WriteSetOf

\* The outcome of a mutation depends on the paths of the mutation alone.
LEMMA OutcomeOutside ==
  ASSUME NEW m \in Mutation, NEW f, NEW p \in Path \ WriteSet(m)
  PROVE  Outcome(m, f)[p] = f[p]
BY DEF Outcome, Applied, WriteSet

\* What a mutation makes of its own paths depends on nothing but them.
LEMMA OutcomeInside ==
  ASSUME NEW m \in Mutation, NEW f, NEW g, \A p \in WriteSet(m) : f[p] = g[p],
         NEW p \in WriteSet(m)
  PROVE  Outcome(m, f)[p] = Outcome(m, g)[p]
<1> DEFINE i == CHOOSE i \in 1 .. Len(Plan[m]) : p \in OperationPaths(Plan[m][i])
           o == Plan[m][i]
           Made(h) == CASE o.kind = "CreateOrReplace" -> New(m)
                        [] o.kind = "Move" /\ o.path = p -> h[o.from]
                        [] OTHER -> Missing
<1>1. i \in 1 .. Len(Plan[m]) /\ p \in OperationPaths(o) /\ o \in Operation
  BY ChosenOperation
<1>2. \A h : Outcome(m, h)[p] = Made(h)
  BY PathsOfMutation DEF Outcome, Applied, WriteSet
<1>3. o.kind = "Move" => o.from \in WriteSet(m)
  BY <1>1, PathsOfOperation, PathsOfMutation
<1>4. CASE o.kind = "Move" /\ o.path = p
  <2>1. Made(f) = f[o.from] /\ Made(g) = g[o.from]
    BY <1>4
  <2>2. f[o.from] = g[o.from]
    BY <1>3, <1>4
  <2> HIDE DEF Made
  <2> QED
    BY <1>2, <2>1, <2>2
<1>5. CASE ~(o.kind = "Move" /\ o.path = p)
  BY <1>2, <1>5
<1> QED
  BY <1>4, <1>5

\* It makes a content of a content.
LEMMA OutcomeIsContent ==
  ASSUME NEW m \in Mutation, NEW f \in Contents
  PROVE  Outcome(m, f) \in Contents
<1> DEFINE out == Outcome(m, f)
<1>1. out = [p \in Path |-> out[p]]
  BY DEF Outcome, Applied
<1>2. ASSUME NEW p \in Path \ WriteSet(m) PROVE out[p] \in Bytes
  BY <1>2, OutcomeOutside DEF Contents
<1>3. ASSUME NEW p \in WriteSet(m) PROVE out[p] \in Bytes
  <2> DEFINE i == CHOOSE i \in 1 .. Len(Plan[m]) : p \in OperationPaths(Plan[m][i])
             o == Plan[m][i]
  <2>1. i \in 1 .. Len(Plan[m]) /\ o \in Operation
    BY ChosenOperation
  <2>2. out[p] \in {New(m), f[o.from], Missing}
        /\ (out[p] = f[o.from] => o.kind = "Move" \/ out[p] \in {New(m), Missing})
    BY PathsOfMutation DEF Outcome, Applied, WriteSet
  <2>3. o.kind = "Move" => f[o.from] \in Bytes
    BY <2>1 DEF Operation, Contents
  <2> QED
    BY <2>2, <2>3 DEF Bytes
<1> QED
  BY <1>1, <1>2, <1>3 DEF Contents

-----------------------------------------------------------------------------
\* The paths a list of writes is about.
TargetsOf(todo) == {todo[i][1] : i \in DOMAIN todo}

\* What is restored, and to what.
LEMMA RestoringFacts ==
  ASSUME NEW paths \in SUBSET Path, IsFiniteSet(paths), NEW state \in Contents,
         NEW todo \in Restoring(paths, state)
  PROVE  /\ todo \in Seq(Path \X Bytes)
         /\ TargetsOf(todo) = paths
         /\ \A i \in DOMAIN todo : todo[i][2] = state[todo[i][1]]
<1>1. PICK order \in Descending(paths) :
        todo = [i \in DOMAIN order |-> <<order[i], state[order[i]]>>]
  BY DEF Restoring
<1>2. order \in [1 .. Cardinality(paths) -> paths] /\ Range(order) = paths
  BY <1>1 DEF Descending
<1>3. Cardinality(paths) \in Nat
  BY FS_CardinalityType
<1>4. DOMAIN todo = 1 .. Cardinality(paths)
  BY <1>1, <1>2
<1>5. \A i \in DOMAIN todo : todo[i] \in Path \X Bytes /\ todo[i][1] = order[i]
                             /\ todo[i][2] = state[order[i]]
  BY <1>1, <1>2, <1>4 DEF Contents
<1>6. todo \in Seq(Path \X Bytes)
  BY <1>1, <1>3, <1>4, <1>5
<1>7. TargetsOf(todo) = paths
  BY <1>2, <1>4, <1>5 DEF TargetsOf, Range
<1> QED
  BY <1>5, <1>6, <1>7

\* The writes that are left after the first one.
LEMMA TailFacts ==
  ASSUME NEW todo \in Seq(Path \X Bytes), todo # << >>
  PROVE  /\ Tail(todo) \in Seq(Path \X Bytes)
         /\ TargetsOf(todo) = TargetsOf(Tail(todo)) \cup {Head(todo)[1]}
         /\ \A i \in DOMAIN Tail(todo) : \E j \in DOMAIN todo : Tail(todo)[i] = todo[j]
         /\ Head(todo) = todo[1] /\ 1 \in DOMAIN todo
         /\ Head(todo)[1] \in Path /\ Head(todo)[2] \in Bytes
<1>1. Len(todo) \in Nat \ {0} /\ DOMAIN todo = 1 .. Len(todo) /\ Head(todo) = todo[1]
  OBVIOUS
<1>2. /\ Tail(todo) \in Seq(Path \X Bytes)
      /\ DOMAIN Tail(todo) = 1 .. Len(todo) - 1
      /\ \A i \in 1 .. Len(todo) - 1 : Tail(todo)[i] = todo[i + 1]
  BY <1>1
<1>3. \A i \in 1 .. Len(todo) - 1 : i + 1 \in DOMAIN todo
  BY <1>1
<1>4. \A j \in DOMAIN todo : j = 1 \/ (j - 1 \in 1 .. Len(todo) - 1 /\ todo[j] = Tail(todo)[j - 1])
  BY <1>1, <1>2
<1>5. TargetsOf(todo) \subseteq TargetsOf(Tail(todo)) \cup {Head(todo)[1]}
  <2> SUFFICES ASSUME NEW j \in DOMAIN todo
               PROVE  todo[j][1] \in TargetsOf(Tail(todo)) \cup {Head(todo)[1]}
    BY DEF TargetsOf
  <2>1. CASE j = 1
    BY <1>1, <2>1
  <2>2. CASE j - 1 \in DOMAIN Tail(todo) /\ todo[j] = Tail(todo)[j - 1]
    BY <2>2 DEF TargetsOf
  <2> QED
    BY <1>2, <1>4, <2>1, <2>2
<1>6. TargetsOf(Tail(todo)) \cup {Head(todo)[1]} \subseteq TargetsOf(todo)
  BY <1>1, <1>2, <1>3 DEF TargetsOf
<1>7. todo[1] \in Path \X Bytes
  BY <1>1
<1> QED
  BY <1>1, <1>2, <1>3, <1>5, <1>6, <1>7

\* The writes of one operation are writes to paths of its mutation.
LEMMA WritesFacts ==
  ASSUME NEW m \in Mutation, NEW i \in 1 .. Len(Plan[m]), NEW before \in Contents
  PROVE  /\ Writes(Plan[m][i], m, before) \in Seq(Path \X Bytes)
         /\ TargetsOf(Writes(Plan[m][i], m, before)) \subseteq WriteSet(m)
<1> DEFINE o == Plan[m][i]
<1>1. o \in Operation /\ OperationPaths(o) \subseteq WriteSet(m)
  BY PathsOfMutation
<1>2. o.path \in OperationPaths(o) /\ (o.kind = "Move" => o.from \in OperationPaths(o))
      /\ OperationPaths(o) \subseteq Path
  BY <1>1, PathsOfOperation
<1>3. o.kind \in {"CreateOrReplace", "Delete", "Move"}
  BY <1>1 DEF Operation
<1>4. New(m) \in Bytes /\ Missing \in Bytes /\ (o.kind = "Move" => before[o.from] \in Bytes)
  BY <1>2 DEF Bytes, Contents
<1>5. CASE o.kind = "CreateOrReplace"
  BY <1>1, <1>2, <1>4, <1>5 DEF Writes, TargetsOf
<1>6. CASE o.kind = "Delete"
  BY <1>1, <1>2, <1>4, <1>6 DEF Writes, TargetsOf
<1>7. CASE o.kind = "Move"
  BY <1>1, <1>2, <1>4, <1>7 DEF Writes, TargetsOf
<1> QED
  BY <1>3, <1>5, <1>6, <1>7

-----------------------------------------------------------------------------
(* What is known of the files and the journals at each step *)

\* What the journal of a mutation says, also while it is being replaced.
StandingSealed ==
  \A m \in Mutation :
    LET journal == Standing(m)
    IN /\ journal.state # "None" => journal.seen.files \in Contents
       /\ journal.state \in {"Prepared", "Applying"} => journal.after = NoRevision
       /\ journal.state = "Committed" => journal.after # NoRevision

\* The steps at which an operation that has a mutation in hand decides or writes.
Deciding == AtWork \cup {"applied"}

\* The steps at which an operation has a mutation in hand.
Working ==
  \/ op.kind \in {"commit", "rollback"}
  \/ op.kind = "recover" /\ op.pc \notin {"scan", "receipt", "end"}

\* The journal in hand agrees with the one that stands, and is the one to be
\* written next.
JournalInHand ==
  /\ Working => /\ op.m \in Mutation
                /\ op.journal.seen = Standing(op.m).seen
                /\ Before \in Contents
  /\ op.kind \in {"commit", "recover"} /\ op.pc \in Deciding =>
       op.journal.state \in {"Prepared", "Applying"} /\ op.journal.after = NoRevision
  /\ op.kind \in {"commit", "recover"} /\ op.pc \in {"journal", "journalSwap"} =>
       (op.journal.after = NoRevision <=> op.journal.state # "Committed")
  /\ op.kind = "rollback" => op.journal.after # NoRevision
  /\ op.pc \in {"journal", "journalSwap"} =>
       op.journal.state \in {"Prepared", "Applying", "Committed", "Aborted", "RolledBack",
                            "RecoveryRequired"}

\* But for what outsiders wrote, the paths hold this content.
Kept(paths, content) == \A p \in paths : files[p] \in {content[p], External}

\* What is known of the files when a journal is to be written.
ReadyFor(state) ==
  /\ state \in {"Prepared", "Applying", "Aborted", "RolledBack"} =>
       Kept(WriteSet(op.m), Before)
  /\ state = "RolledBack" /\ op.kind = "rollback" => Kept(Path, Before)
  /\ state = "Committed" =>
       Kept(WriteSet(op.m), After) /\ Kept(Path \ WriteSet(op.m), Before)

\* What is known of the files at each step.
Progress ==
  /\ op.pc = "swap" => files[Target] \in {Missing, External}
  /\ op.pc \in {"journal", "journalSwap"} => ReadyFor(op.journal.state)
  /\ op.pc = "inventory" => Kept(WriteSet(op.m), After)
  /\ op.pc = "rollBack" => Kept(WriteSet(op.m), Before)
  /\ op.pc \in {"write", "swap"} /\ op.then = "rollBack" =>
       /\ Kept(WriteSet(op.m) \ TargetsOf(op.todo), Before)
       /\ \A i \in DOMAIN op.todo : op.todo[i][2] = Before[op.todo[i][1]]

\* Only the files of the mutation in hand are written, or the one document.
Writing ==
  /\ op.todo \in Seq(Path \X Bytes)
  /\ op.pc = "swap" => op.todo # << >>
  /\ Working /\ op.pc \in {"write", "swap"} => TargetsOf(op.todo) \subseteq WriteSet(op.m)
  /\ op.kind = "save" => \A i \in DOMAIN op.todo : op.todo[i][2] = Saved
  /\ op.kind = "commit" =>
       /\ op.done \in 0 .. Len(Plan[op.m])
       /\ \/ op.pc = "applied"
          \/ op.pc \in {"write", "swap"} /\ op.then = "applied"
          => op.done # Len(Plan[op.m])

\* Types, of what the others do not speak about.
ProjectTyped ==
  /\ files \in Contents
  /\ op.kept \in Bytes
  /\ torn \in BOOLEAN
  /\ Idle => op = NoOp

\* The inductive invariant of the project, beside StepsInv.
ProjectInv == ProjectTyped /\ StandingSealed /\ JournalInHand /\ Progress /\ Writing
-----------------------------------------------------------------------------

\* Away from the writing of a journal, what stands is what is on disk.
StandingOnDisk == \A m \in Mutation : Standing(m) = journals[m]

\* So between two journals every mutation has the one on disk.
LEMMA RestsOnDisk ==
  StepsInv /\ op.pc \notin {"journal", "journalSwap"} => StandingOnDisk
BY DEF StepsInv, CommitSteps, AloneInv, Shape, Kinds, StandingOnDisk, Standing, NoJournal, At

\* Only the journal of the mutation in hand is ever being replaced.
LEMMA OthersOnDisk == \A m \in Mutation : m # op.m => Standing(m) = journals[m]
BY DEF Standing

\* The initial states satisfy the invariant.
LEMMA ProjectInit == Init => ProjectInv
<1> SUFFICES ASSUME Init PROVE ProjectInv
  OBVIOUS
<1>1. files \in Contents /\ op.kept \in Bytes /\ torn \in BOOLEAN /\ op = NoOp
  BY DEF Init, NoOp, Contents, Bytes
<1>2. ~Working /\ op.kind = "none" /\ op.pc = "idle" /\ op.todo = << >>
  BY <1>1 DEF Working, NoOp
<1>3. \A m \in Mutation : Standing(m) = NoJournal
  BY <1>2 DEF Standing, Init, At
<1>4. StandingSealed
  BY <1>3 DEF StandingSealed, NoJournal
<1> QED
  BY <1>1, <1>2, <1>4 DEF ProjectInv, ProjectTyped, JournalInHand, Progress, Writing

\* An operation that ends leaves each journal as it stood or lost.
LEMMA EndKeepsProject ==
  ASSUME ProjectInv, op' = NoOp, files' \in Contents, torn' \in BOOLEAN,
         \A m \in Mutation : journals'[m] \in {NoJournal, Standing(m)}
  PROVE  ProjectInv'
<1>1. /\ ~Working' /\ op'.kind = "none" /\ op'.pc = "idle" /\ op'.todo = << >>
      /\ op'.kept = Missing
  BY DEF Working, NoOp
<1>2. \A m \in Mutation : Standing(m)' = journals'[m]
  BY <1>1 DEF Standing, At
<1>3. StandingSealed'
  BY <1>2 DEF ProjectInv, StandingSealed, NoJournal
<1>4. Missing \in Bytes
  BY DEF Bytes
<1> QED
  BY <1>1, <1>3, <1>4 DEF ProjectInv, ProjectTyped, JournalInHand, Progress, Writing

\* An operation that goes on with the journal it has in hand.
LEMMA GoesOn ==
  ASSUME StepsInv, StepsInv', ProjectInv, UNCHANGED <<journals, torn>>,
         op.pc \notin {"journal", "journalSwap"},
         op'.pc \notin {"journal", "journalSwap", "idle"},
         Working' => Working,
         op'.kind \in {"commit", "recover"} /\ op'.pc \in Deciding => op.pc \in Deciding,
         op'.kind = op.kind, op'.m = op.m, op'.journal = op.journal,
         files' \in Contents, op'.kept \in Bytes, Progress', Writing'
  PROVE  ProjectInv'
<1>2. StandingOnDisk
  BY RestsOnDisk
<1>3. (StepsInv /\ op.pc \notin {"journal", "journalSwap"} => StandingOnDisk)'
  BY RestsOnDisk, PTL
<1>4. StandingOnDisk'
  BY <1>3
<1>5. \A m \in Mutation : Standing(m)' = Standing(m)
  BY <1>2, <1>4 DEF StandingOnDisk
<1>6. StandingSealed'
  BY <1>5 DEF ProjectInv, StandingSealed
<1>7. JournalInHand'
  BY <1>5 DEF ProjectInv, JournalInHand, Before
<1>8. ProjectTyped'
  BY DEF ProjectInv, ProjectTyped, Idle
<1> QED
  BY <1>6, <1>7, <1>8 DEF ProjectInv

\* An operation that is going to write a journal.
LEMMA GoesToJournal ==
  ASSUME StepsInv, StepsInv', ProjectInv, op.pc \in Deciding, Working,
         UNCHANGED <<journals, torn>>, files' \in Contents, NEW journal, Record(journal),
         journal.seen = op.journal.seen,
         journal.state \in {"Committed", "Aborted", "RolledBack", "RecoveryRequired"},
         journal.state # "RecoveryRequired" => UNCHANGED files /\ ReadyFor(journal.state),
         \/ journal.after = op.journal.after /\ journal.state # "Committed"
         \/ journal.after # NoRevision /\ journal.state = "Committed"
  PROVE  ProjectInv'
<1>1. /\ op'.kind = op.kind /\ op'.m = op.m /\ op'.journal = journal /\ op'.pc = "journal"
      /\ op'.todo = op.todo /\ op'.then = op.then /\ op'.done = op.done /\ op'.kept = op.kept
  BY DEF Record, StepsInv, AloneInv, Shape
<1>2. op.pc \notin {"journal", "journalSwap"}
  BY DEF Deciding, AtWork
<1>3. StandingOnDisk
  BY <1>2, RestsOnDisk
<1>4. op.kind = "commit" => journals[op.m] # NoJournal
  BY DEF StepsInv, CommitSteps, NoJournal, Deciding, AtWork
<1>5. \A m \in Mutation : Standing(m)' = Standing(m)
  BY <1>1, <1>3, <1>4 DEF StandingOnDisk, Standing, At
<1>6. StandingSealed'
  BY <1>5 DEF ProjectInv, StandingSealed
<1>7. Working'
  BY <1>1 DEF Working
<1>8. JournalInHand'
  BY <1>1, <1>5, <1>7 DEF ProjectInv, JournalInHand, Before, Deciding, AtWork
<1>9. ProjectTyped'
  BY <1>1 DEF ProjectInv, ProjectTyped, Idle
<1>10. Progress'
  BY <1>1 DEF Progress, ReadyFor, Kept, Before, After
<1>11. Writing'
  BY <1>1 DEF ProjectInv, Writing, Working
<1> QED
  BY <1>6, <1>8, <1>9, <1>10, <1>11 DEF ProjectInv

\* The end of an operation that is not writing a journal.
LEMMA EndsOnDisk ==
  ASSUME StepsInv, ProjectInv, op.pc \notin {"journal", "journalSwap"}, UNCHANGED journals,
         End, files' \in Contents
  PROVE  ProjectInv'
<1>1. \A m \in Mutation : journals'[m] = Standing(m)
  BY RestsOnDisk DEF StandingOnDisk
<1>2. op' = NoOp /\ torn' \in BOOLEAN
  BY DEF End
<1> QED
  BY <1>1, <1>2, EndKeepsProject

\* Whoever decides on a mutation has it in hand.
LEMMA DecidingWorks ==
  ASSUME StepsInv, op.pc \in Deciding, op.kind # "save"
  PROVE  /\ Working
         /\ op.pc \notin {"journal", "journalSwap"}
         /\ op.kind \in {"commit", "recover", "rollback"}
BY DEF StepsInv, AloneInv, Kinds, Working, Deciding, AtWork

\* Whoever writes a file writes one of the mutation in hand, or the document.
LEMMA WriteFacts ==
  ASSUME StepsInv, ProjectInv, op.pc \in {"write", "swap"}, op.todo # << >>
  PROVE  /\ Target \in Path /\ Value \in Bytes /\ Target \in TargetsOf(op.todo)
         /\ op.kind # "save" => Working /\ op.m \in Mutation /\ Target \in WriteSet(op.m)
         /\ op.kind = "save" => Value = Saved
         /\ \A v \in Bytes : [files EXCEPT ![Target] = v] \in Contents
<1>1. op.todo \in Seq(Path \X Bytes)
  BY DEF ProjectInv, Writing
<1>2. /\ Target \in Path /\ Value \in Bytes /\ Target \in TargetsOf(op.todo)
      /\ Head(op.todo) = op.todo[1] /\ 1 \in DOMAIN op.todo
  BY <1>1, TailFacts DEF Target, Value
<1>3. op.kind # "save" => Working
  BY DecidingWorks DEF Deciding, AtWork
<1>4. op.kind # "save" => op.m \in Mutation /\ Target \in WriteSet(op.m)
  BY <1>2, <1>3 DEF ProjectInv, Writing, JournalInHand
<1>5. op.kind = "save" => Value = Saved
  BY <1>2 DEF ProjectInv, Writing, Value
<1>6. \A v \in Bytes : [files EXCEPT ![Target] = v] \in Contents
  BY <1>2 DEF ProjectInv, ProjectTyped, Contents
<1> QED
  BY <1>2, <1>3, <1>4, <1>5, <1>6

\* The old journal goes away under another name, and stands.
LEMMA ProjectJournalAway == StepsInv /\ ProjectInv /\ JournalAway => ProjectInv'
<1> SUFFICES ASSUME StepsInv, ProjectInv, JournalAway PROVE ProjectInv'
  OBVIOUS
<1>1. /\ op.pc = "journal" /\ journals[op.m] # NoJournal /\ op'.pc = "journalSwap"
      /\ op'.kind = op.kind /\ op'.m = op.m /\ op'.journal = op.journal
      /\ op'.prior = journals[op.m] /\ op'.todo = op.todo /\ op'.then = op.then
      /\ op'.done = op.done /\ op'.kept = op.kept
      /\ UNCHANGED <<files, torn>>
      /\ journals' = [journals EXCEPT ![op.m] = NoJournal]
  BY DEF JournalAway, StepsInv, AloneInv, Shape, At, history
<1>2. \A m \in Mutation : m # op.m => journals'[m] = journals[m]
  BY <1>1 DEF StepsInv, AloneInv, Shape
<1>3. \A m \in Mutation : Standing(m)' = Standing(m)
  BY <1>1, <1>2 DEF Standing, At
<1>4. Working' => Working
  BY <1>1 DEF Working
<1>5. Working' /\ Working
  BY <1>1 DEF Working, StepsInv, AloneInv, Kinds, SaveSteps
<1>6. StandingSealed'
  BY <1>3 DEF ProjectInv, StandingSealed
<1>7. JournalInHand'
  BY <1>1, <1>3, <1>5 DEF ProjectInv, JournalInHand, Before, Deciding, AtWork
<1>8. ProjectTyped'
  BY <1>1 DEF ProjectInv, ProjectTyped, Idle
<1>9. Progress'
  BY <1>1 DEF ProjectInv, Progress, ReadyFor, Kept, Before, After
<1>10. Writing'
  BY <1>1, <1>5 DEF ProjectInv, Writing
<1> QED
  BY <1>6, <1>7, <1>8, <1>9, <1>10 DEF ProjectInv

\* The journal in hand is written, and it is the one that stands then.
LEMMA JournalInFacts ==
  ASSUME StepsInv, ProjectInv, JournalIn
  PROVE  /\ op.pc \in {"journal", "journalSwap"} /\ UNCHANGED <<files, torn>>
         /\ Working /\ op.m \in Mutation /\ op.kind \in {"commit", "recover", "rollback"}
         /\ op'.kind = op.kind /\ op'.m = op.m /\ op'.journal.seen = op.journal.seen
         /\ op'.journal.after = op.journal.after /\ op'.todo = op.todo /\ op'.then = op.then
         /\ op'.done = op.done /\ op'.kept = op.kept
         /\ \/ /\ op.journal.state = "Prepared" /\ op'.pc = "journal"
               /\ op'.journal.state = "Applying"
            \/ /\ op.journal.state # "Prepared" /\ op'.journal.state = op.journal.state
               /\ op'.pc \in {"apply", "receipt", "rolledBack", "scan", "end"}
               /\ op'.pc = "apply" => op.journal.state = "Applying"
         /\ \A m \in Mutation : Standing(m)' = IF m = op.m THEN op.journal ELSE Standing(m)
<1>1. /\ op.pc \in {"journal", "journalSwap"}
      /\ journals' = [journals EXCEPT ![op.m] = op.journal]
      /\ UNCHANGED <<files, torn>>
      /\ AfterJournal
  BY DEF JournalIn, At, history
<1>2. Working /\ op.m \in Mutation /\ op.kind \in {"commit", "recover", "rollback"}
  BY <1>1 DEF ProjectInv, JournalInHand, Working, StepsInv, AloneInv, Kinds, SaveSteps
<1>3. op.journal.state # "None"
  BY <1>1, <1>2 DEF StepsInv, CommitSteps, RecoverSteps, RollbackSteps
<1>4. \A m \in Mutation : journals'[m] = IF m = op.m THEN op.journal ELSE journals[m]
  BY <1>1 DEF StepsInv, AloneInv, Shape
<1>5. /\ op'.kind = op.kind /\ op'.m = op.m /\ op'.journal.seen = op.journal.seen
      /\ op'.journal.after = op.journal.after /\ op'.todo = op.todo /\ op'.then = op.then
      /\ op'.done = op.done /\ op'.kept = op.kept
      /\ \/ /\ op.journal.state = "Prepared" /\ op'.pc = "journal"
            /\ op'.journal.state = "Applying"
         \/ /\ op.journal.state # "Prepared" /\ op'.journal.state = op.journal.state
            /\ op'.pc \in {"apply", "receipt", "rolledBack", "scan", "end"}
            /\ op'.pc = "apply" => op.journal.state = "Applying"
  <2>1. CASE op.journal.state = "Prepared"
    <3>1. op' = [op EXCEPT !.journal = [op.journal EXCEPT !.state = "Applying"],
                           !.prior = NoJournal, !.pc = "journal"]
      BY <1>1, <2>1 DEF AfterJournal, Record
    <3>2. op.journal = [state |-> op.journal.state, seen |-> op.journal.seen,
                        after |-> op.journal.after]
      BY DEF StepsInv, JournalShape, IsJournal
    <3> QED
      BY <2>1, <3>1, <3>2 DEF StepsInv, AloneInv, Shape
  <2>2. CASE op.journal.state # "Prepared"
    <3>1. PICK pc \in {"apply", "receipt", "rolledBack", "scan", "end"} :
            /\ op' = [op EXCEPT !.pc = pc]
            /\ pc = "apply" => op.journal.state = "Applying"
      BY <1>1, <2>2 DEF AfterJournal, Goto
    <3> QED
      BY <2>2, <3>1 DEF StepsInv, AloneInv, Shape
  <2> QED
    BY <2>1, <2>2
<1>6. \A m \in Mutation : Standing(m)' = IF m = op.m THEN op.journal ELSE Standing(m)
  BY <1>3, <1>4, <1>5 DEF Standing, At, NoJournal
<1> QED
  BY <1>1, <1>2, <1>5, <1>6

\* So the invariant is preserved when it is written.
LEMMA ProjectJournalIn == StepsInv /\ StepsInv' /\ ProjectInv /\ JournalIn => ProjectInv'
<1> SUFFICES ASSUME StepsInv, StepsInv', ProjectInv, JournalIn PROVE ProjectInv'
  OBVIOUS
<1>1. op.pc \in {"journal", "journalSwap"} /\ UNCHANGED <<files, torn>>
  BY JournalInFacts
<1>2. Working /\ op.m \in Mutation /\ op.kind \in {"commit", "recover", "rollback"}
  BY JournalInFacts
<1>5. /\ op'.kind = op.kind /\ op'.m = op.m /\ op'.journal.seen = op.journal.seen
      /\ op'.journal.after = op.journal.after /\ op'.todo = op.todo /\ op'.then = op.then
      /\ op'.done = op.done /\ op'.kept = op.kept
      /\ \/ /\ op.journal.state = "Prepared" /\ op'.pc = "journal"
            /\ op'.journal.state = "Applying"
         \/ /\ op.journal.state # "Prepared" /\ op'.journal.state = op.journal.state
            /\ op'.pc \in {"apply", "receipt", "rolledBack", "scan", "end"}
            /\ op'.pc = "apply" => op.journal.state = "Applying"
  BY JournalInFacts
<1>6. \A m \in Mutation : Standing(m)' = IF m = op.m THEN op.journal ELSE Standing(m)
  BY JournalInFacts
<1>7. op.journal.seen.files \in Contents
  BY <1>2 DEF ProjectInv, JournalInHand, Before
<1>8. op.journal.state \in {"Prepared", "Applying"} => op.journal.after = NoRevision
  BY <1>1, <1>2 DEF ProjectInv, JournalInHand, StepsInv, RollbackSteps
<1>9. StandingSealed'
  BY <1>1, <1>2, <1>6, <1>7, <1>8 DEF ProjectInv, JournalInHand, StandingSealed
<1>10. JournalInHand'
  BY <1>1, <1>2, <1>5, <1>6, <1>7, <1>8
     DEF ProjectInv, JournalInHand, Working, Before, Deciding, AtWork
<1>11. ProjectTyped'
  BY <1>1, <1>5 DEF ProjectInv, ProjectTyped, Idle
<1>12. Progress'
  BY <1>1, <1>5 DEF ProjectInv, Progress, ReadyFor, Kept, Before
<1>13. Writing'
  BY <1>1, <1>2, <1>5 DEF ProjectInv, Writing, Working
<1> QED
  BY <1>9, <1>10, <1>11, <1>12, <1>13 DEF ProjectInv

\* A journal that cannot be written is the old one, or lost.
LEMMA ProjectJournalFails == StepsInv /\ ProjectInv /\ JournalFails => ProjectInv'
<1> SUFFICES ASSUME StepsInv, ProjectInv, JournalFails PROVE ProjectInv'
  OBVIOUS
<1>1. op' = NoOp /\ torn' \in BOOLEAN /\ UNCHANGED files
  BY DEF JournalFails, Fail, End
<1>2. \A m \in Mutation : m # op.m => journals'[m] = journals[m]
  BY DEF JournalFails, StepsInv, AloneInv, Shape
<1>3. op.m \in Mutation => journals'[op.m] \in {NoJournal, Standing(op.m)}
  <2>1. CASE op.pc = "journal" /\ UNCHANGED journals
    <3>1. journals[op.m] = NoJournal \/ journals[op.m] = Standing(op.m)
      BY <2>1 DEF Standing, At
    <3> QED
      BY <2>1, <3>1
  <2>2. CASE op.pc = "journalSwap" /\ journals' = [journals EXCEPT ![op.m] = op.prior]
    BY <2>2 DEF Standing, At, StepsInv, AloneInv, Shape
  <2>3. CASE op.pc = "journalSwap" /\ UNCHANGED journals
    <3>1. journals[op.m] = NoJournal
      BY <2>3 DEF StepsInv, AloneInv, Kinds, SaveSteps, CommitSteps, RecoverSteps, RollbackSteps
    <3> QED
      BY <2>3, <3>1
  <2> QED
    BY <2>1, <2>2, <2>3 DEF JournalFails, At
<1>4. \A m \in Mutation : journals'[m] \in {NoJournal, Standing(m)}
  BY <1>2, <1>3, OthersOnDisk
<1>5. files' \in Contents
  BY <1>1 DEF ProjectInv, ProjectTyped
<1> QED
  BY <1>1, <1>4, <1>5, EndKeepsProject

\* All files are written.
LEMMA ProjectWritesDone == StepsInv /\ StepsInv' /\ ProjectInv /\ WritesDone => ProjectInv'
<1> SUFFICES ASSUME StepsInv, StepsInv', ProjectInv, WritesDone PROVE ProjectInv'
  OBVIOUS
<1>1. /\ op.pc = "write" /\ op.todo = << >> /\ UNCHANGED <<files, journals, torn>>
      /\ op'.pc = op.then /\ op'.kind = op.kind /\ op'.m = op.m /\ op'.journal = op.journal
      /\ op'.todo = op.todo /\ op'.then = op.then /\ op'.done = op.done /\ op'.kept = op.kept
  BY DEF WritesDone, Goto, StepsInv, AloneInv, Shape, At, disk, history
<1>2. op.then \in {"applied", "rollBack", "end", "recheck", "finalize", "revise", "saved"}
  BY <1>1 DEF StepsInv, AloneInv, Kinds, SaveSteps, CommitSteps, RecoverSteps, RollbackSteps
<1>3. Working' => Working
  BY <1>1 DEF Working
<1>4. Progress'
  <2>1. op.then = "rollBack" => Kept(WriteSet(op.m), Before)
    <3>1. TargetsOf(op.todo) = {}
      BY <1>1 DEF TargetsOf
    <3> QED
      BY <1>1, <3>1 DEF ProjectInv, Progress, Kept
  <2> QED
    BY <1>1, <1>2, <2>1 DEF Progress, Kept, Before
<1>5. Writing'
  BY <1>1, <1>2, <1>3 DEF ProjectInv, Writing
<1>6. op'.pc \notin {"journal", "journalSwap", "idle"} /\ op.pc \in Deciding
  BY <1>1, <1>2 DEF Deciding, AtWork
<1> QED
  BY <1>1, <1>3, <1>4, <1>5, <1>6, GoesOn DEF ProjectInv, ProjectTyped

\* The old file goes away.
LEMMA ProjectFileAway == StepsInv /\ StepsInv' /\ ProjectInv /\ FileAway => ProjectInv'
<1> SUFFICES ASSUME StepsInv, StepsInv', ProjectInv, FileAway PROVE ProjectInv'
  OBVIOUS
<1>1. /\ op.pc = "write" /\ op.todo # << >> /\ UNCHANGED <<journals, torn>>
      /\ op'.pc = "swap" /\ op'.kind = op.kind /\ op'.m = op.m /\ op'.journal = op.journal
      /\ op'.todo = op.todo /\ op'.then = op.then /\ op'.done = op.done
      /\ op'.kept = files[Target]
      /\ files' = [files EXCEPT ![Target] = Missing]
  BY DEF FileAway, SetFile, StepsInv, AloneInv, Shape, At, disk, history
<1>2. Target \in Path /\ Target \in TargetsOf(op.todo) /\ files' \in Contents
  <2>1. Missing \in Bytes
    BY DEF Bytes
  <2> QED
    BY <1>1, <2>1, WriteFacts
<1>3. files[Target] \in Bytes
  BY <1>2 DEF ProjectInv, ProjectTyped, Contents
<1>4. Working' => Working
  BY <1>1 DEF Working
<1>5. \A p \in Path : p # Target => files'[p] = files[p]
  BY <1>1 DEF ProjectInv, ProjectTyped, Contents
<1>6. Progress'
  <2>1. Working => WriteSet(op.m) \subseteq Path
    BY PathsOfMutation DEF ProjectInv, JournalInHand
  <2>2. op.then = "rollBack" => Working
    BY <1>1 DEF Working, StepsInv, AloneInv, Kinds, SaveSteps
  <2>3. op.then = "rollBack" => Kept(WriteSet(op.m) \ TargetsOf(op.todo), Before)'
    BY <1>1, <1>2, <1>5, <2>1, <2>2 DEF ProjectInv, Progress, Kept, Before
  <2>4. Target' = Target /\ files'[Target] = Missing
    BY <1>1, <1>2 DEF Target, ProjectInv, ProjectTyped, Contents
  <2> QED
    BY <1>1, <2>3, <2>4 DEF ProjectInv, Progress, Kept, Before
<1>7. Writing'
  BY <1>1, <1>4 DEF ProjectInv, Writing
<1>8. op.pc \in Deciding
  BY <1>1 DEF Deciding, AtWork
<1> QED
  BY <1>1, <1>2, <1>3, <1>4, <1>6, <1>7, <1>8, GoesOn

\* The new one comes in.
LEMMA ProjectFileIn == StepsInv /\ StepsInv' /\ ProjectInv /\ FileIn => ProjectInv'
<1> SUFFICES ASSUME StepsInv, StepsInv', ProjectInv, FileIn PROVE ProjectInv'
  OBVIOUS
<1>1. /\ op.pc \in {"write", "swap"} /\ op.todo # << >> /\ UNCHANGED <<journals, torn>>
      /\ op'.pc = "write" /\ op'.kind = op.kind /\ op'.m = op.m /\ op'.journal = op.journal
      /\ op'.todo = Tail(op.todo) /\ op'.then = op.then /\ op'.done = op.done
      /\ op'.kept = Missing
      /\ files' = [files EXCEPT ![Target] = Value]
  BY DEF FileIn, SetFile, NextWrite, StepsInv, AloneInv, Shape, At, disk, history, ProjectInv,
         Writing
<1>2. Target \in Path /\ Target \in TargetsOf(op.todo) /\ files' \in Contents
  BY <1>1, WriteFacts
<1>3. op'.kept \in Bytes
  BY <1>1 DEF Bytes
<1>4. Working' => Working
  BY <1>1 DEF Working, StepsInv, AloneInv, Kinds
<1>5. \A p \in Path : files'[p] = IF p = Target THEN Value ELSE files[p]
  BY <1>1 DEF ProjectInv, ProjectTyped, Contents
<1>6. /\ op'.todo \in Seq(Path \X Bytes)
      /\ TargetsOf(op.todo) = TargetsOf(op'.todo) \cup {Target}
      /\ \A i \in DOMAIN op'.todo : \E j \in DOMAIN op.todo : op'.todo[i] = op.todo[j]
      /\ Head(op.todo) = op.todo[1] /\ 1 \in DOMAIN op.todo
  <2>1. op.todo \in Seq(Path \X Bytes)
    BY DEF ProjectInv, Writing
  <2> DEFINE todo == op.todo
  <2>2. /\ Tail(todo) \in Seq(Path \X Bytes)
        /\ TargetsOf(todo) = TargetsOf(Tail(todo)) \cup {Head(todo)[1]}
        /\ \A i \in DOMAIN Tail(todo) : \E j \in DOMAIN todo : Tail(todo)[i] = todo[j]
        /\ Head(todo) = todo[1] /\ 1 \in DOMAIN todo
    BY <1>1, <2>1, TailFacts
  <2> QED
    BY <1>1, <2>2 DEF Target
<1>7. Progress'
  <2>1. CASE op.then = "rollBack"
    <3>1. Working
      BY <1>1, <2>1 DEF Working, StepsInv, AloneInv, Kinds, SaveSteps
    <3>2. WriteSet(op.m) \subseteq Path
      BY <3>1, PathsOfMutation DEF ProjectInv, JournalInHand
    <3>3. Value = Before[Target]
      BY <1>1, <1>6, <2>1 DEF ProjectInv, Progress, Value, Target
    <3>4. \A p \in WriteSet(op.m) \ TargetsOf(op'.todo) : files'[p] \in {Before[p], External}
      <4> TAKE p \in WriteSet(op.m) \ TargetsOf(op'.todo)
      <4>1. CASE p = Target
        BY <1>5, <3>2, <3>3, <4>1
      <4>2. CASE p # Target
        BY <1>1, <1>5, <1>6, <2>1, <3>2, <4>2 DEF ProjectInv, Progress, Kept
      <4> QED
        BY <4>1, <4>2
    <3>5. \A i \in DOMAIN op'.todo : op'.todo[i][2] = Before[op'.todo[i][1]]
      BY <1>1, <1>6, <2>1 DEF ProjectInv, Progress
    <3> QED
      BY <1>1, <3>4, <3>5 DEF Progress, Kept, Before
  <2>2. CASE op.then # "rollBack"
    BY <1>1, <2>2 DEF Progress
  <2> QED
    BY <2>1, <2>2
<1>8. Writing'
  BY <1>1, <1>4, <1>6 DEF ProjectInv, Writing
<1>9. op.pc \in Deciding
  BY <1>1 DEF Deciding, AtWork
<1> QED
  BY <1>1, <1>2, <1>3, <1>4, <1>7, <1>8, <1>9, GoesOn

\* A write that is cut off leaves one file as it was, new or missing.
LEMMA CutOffTyped ==
  ASSUME StepsInv, ProjectInv, WriteCutOff \/ (op.pc = "swap" /\ SetFile(op.kept))
  PROVE  /\ op.pc \in {"write", "swap"} /\ op.todo # << >>
         /\ files' \in Contents
         /\ \/ UNCHANGED files
            \/ op.pc = "swap" /\ \E v \in {Value, op.kept} : files' = [files EXCEPT ![Target] = v]
<1>1. op.pc \in {"write", "swap"} /\ op.todo # << >>
  BY DEF WriteCutOff, At, ProjectInv, Writing
<1>2. \/ UNCHANGED files
      \/ op.pc = "swap" /\ \E v \in {Value, op.kept} : files' = [files EXCEPT ![Target] = v]
  BY DEF WriteCutOff, At, SetFile
<1>3. Value \in Bytes /\ op.kept \in Bytes
  BY <1>1, WriteFacts DEF ProjectInv, ProjectTyped
<1>4. files' \in Contents
  BY <1>1, <1>2, <1>3, WriteFacts DEF ProjectInv, ProjectTyped
<1> QED
  BY <1>1, <1>2, <1>4

\* A mutation that needs recovery has its journal written next.
LEMMA RequiresRecovery ==
  ASSUME StepsInv, StepsInv', ProjectInv, op.pc \in AtWork, op.kind # "save",
         UNCHANGED <<journals, torn>>, files' \in Contents, RequireRecovery
  PROVE  ProjectInv'
<1> DEFINE new == [op.journal EXCEPT !.state = "RecoveryRequired"]
<1>1. new.seen = op.journal.seen /\ new.after = op.journal.after
      /\ new.state = "RecoveryRequired"
  BY DEF StepsInv, JournalShape, IsJournal
<1>2. Record(new)
  BY DEF RequireRecovery
<1>3. op.pc \in Deciding /\ Working /\ op.kind \in {"commit", "recover", "rollback"}
  BY DecidingWorks DEF Deciding
<1>4. ReadyFor(new.state)
  BY <1>1 DEF ReadyFor
<1> HIDE DEF new
<1> QED
  BY <1>1, <1>2, <1>3, <1>4, GoesToJournal

\* The operation goes on at another step, and no file changes.
LEMMA GoesTo ==
  ASSUME StepsInv, StepsInv', ProjectInv, UNCHANGED <<journals, torn, files>>,
         op.pc \in Deciding, op.kind # "save", NEW pc, Goto(pc),
         pc \in (Deciding \cup {"end"}) \ {"write", "swap", "applied"},
         pc = "inventory" => Kept(WriteSet(op.m), After),
         pc = "rollBack" => Kept(WriteSet(op.m), Before)
  PROVE  ProjectInv'
<1>1. /\ op'.pc = pc /\ op'.kind = op.kind /\ op'.m = op.m /\ op'.journal = op.journal
      /\ op'.todo = op.todo /\ op'.then = op.then /\ op'.done = op.done /\ op'.kept = op.kept
  BY DEF Goto, StepsInv, AloneInv, Shape
<1>2. op.pc \notin {"journal", "journalSwap"} /\ Working
  BY DecidingWorks
<1>3. pc \notin {"journal", "journalSwap", "idle", "write", "swap", "applied"}
  BY DEF Deciding, AtWork
<1>4. Progress'
  BY <1>1, <1>3 DEF Progress, Kept, Before, After
<1>5. Writing'
  BY <1>1, <1>2, <1>3 DEF ProjectInv, Writing, Working
<1>6. files' \in Contents /\ op'.kept \in Bytes
  BY <1>1 DEF ProjectInv, ProjectTyped
<1> QED
  BY <1>1, <1>2, <1>3, <1>4, <1>5, <1>6, GoesOn

\* The operation begins to write files; what it writes to roll back is what
\* was there before the mutation.
LEMMA WritesAll ==
  ASSUME StepsInv, StepsInv', ProjectInv, UNCHANGED <<journals, torn, files>>,
         op.pc \in Deciding, op.kind # "save",
         NEW todo \in Seq(Path \X Bytes), NEW then,
         op'.pc = "write", op'.kind = op.kind, op'.m = op.m, op'.journal = op.journal,
         op'.todo = todo, op'.then = then, op'.done = op.done, op'.kept = op.kept,
         TargetsOf(todo) \subseteq WriteSet(op.m),
         then = "applied" => op.kind # "commit" \/ op.done # Len(Plan[op.m]),
         then = "rollBack" => /\ Kept(WriteSet(op.m) \ TargetsOf(todo), Before)
                              /\ \A i \in DOMAIN todo : todo[i][2] = Before[todo[i][1]]
  PROVE  ProjectInv'
<1>2. op.pc \notin {"journal", "journalSwap"} /\ Working
  BY DecidingWorks
<1>4. Progress'
  BY DEF Progress, Kept, Before, After
<1>5. Writing'
  BY <1>2 DEF ProjectInv, Writing, Working
<1>6. files' \in Contents /\ op'.kept \in Bytes
  BY DEF ProjectInv, ProjectTyped
<1> QED
  BY <1>2, <1>4, <1>5, <1>6, GoesOn

\* The same for the files to be restored.
LEMMA Restores ==
  ASSUME StepsInv, StepsInv', ProjectInv, UNCHANGED <<journals, torn, files>>,
         op.pc \in Deciding, op.kind # "save",
         NEW paths \in SUBSET WriteSet(op.m), NEW content \in {Before, After},
         NEW then, then # "applied", NEW onfail, NEW todo \in Restoring(paths, content),
         op'.pc = "write", op'.kind = op.kind, op'.m = op.m, op'.journal = op.journal,
         op'.todo = todo, op'.then = then, op'.done = op.done, op'.kept = op.kept,
         then = "rollBack" => content = Before /\ Kept(WriteSet(op.m) \ paths, Before)
  PROVE  ProjectInv'
<1>1. Working /\ op.m \in Mutation /\ Before \in Contents
  BY DecidingWorks DEF ProjectInv, JournalInHand
<1>2. WriteSet(op.m) \subseteq Path /\ IsFiniteSet(WriteSet(op.m))
  BY <1>1, PathsOfMutation
<1>3. IsFiniteSet(paths) /\ paths \in SUBSET Path
  BY <1>2, FS_Subset
<1>4. content \in Contents
  BY <1>1, OutcomeIsContent DEF After
<1>5. /\ todo \in Seq(Path \X Bytes) /\ TargetsOf(todo) = paths
      /\ \A i \in DOMAIN todo : todo[i][2] = content[todo[i][1]]
  BY <1>3, <1>4, RestoringFacts
<1>6. TargetsOf(todo) \subseteq WriteSet(op.m)
  BY <1>5
<1>7. then = "rollBack" => /\ Kept(WriteSet(op.m) \ TargetsOf(todo), Before)
                           /\ \A i \in DOMAIN todo : todo[i][2] = Before[todo[i][1]]
  BY <1>5
<1> QED
  BY <1>5, <1>6, <1>7, WritesAll

\* What WriteAll and Restore set.
LEMMA WriteAllSets ==
  ASSUME StepsInv, NEW todo, NEW then, NEW onfail, WriteAll(todo, then, onfail)
  PROVE  /\ op'.pc = "write" /\ op'.kind = op.kind /\ op'.m = op.m /\ op'.journal = op.journal
         /\ op'.todo = todo /\ op'.then = then /\ op'.done = op.done /\ op'.kept = op.kept
BY DEF WriteAll, StepsInv, AloneInv, Shape

\* A restoring operation of either content keeps the invariant.
LEMMA RestoreSets ==
  ASSUME StepsInv, StepsInv', ProjectInv, UNCHANGED <<journals, torn, files>>,
         op.pc \in Deciding, op.kind # "save",
         NEW paths \in SUBSET WriteSet(op.m), NEW content \in {Before, After},
         NEW then, then # "applied", NEW onfail, Restore(paths, content, then, onfail),
         then = "rollBack" => content = Before /\ Kept(WriteSet(op.m) \ paths, Before)
  PROVE  ProjectInv'
<1>1. PICK todo \in Restoring(paths, content) : WriteAll(todo, then, onfail)
  BY DEF Restore
<1>2. /\ op'.pc = "write" /\ op'.kind = op.kind /\ op'.m = op.m /\ op'.journal = op.journal
      /\ op'.todo = todo /\ op'.then = then /\ op'.done = op.done /\ op'.kept = op.kept
  BY <1>1, WriteAllSets
<1> QED
  BY <1>1, <1>2, Restores

\* A write fails, and the operation ends or gives up the mutation.
LEMMA ProjectFileFails == StepsInv /\ StepsInv' /\ ProjectInv /\ FileFails => ProjectInv'
<1> SUFFICES ASSUME StepsInv, StepsInv', ProjectInv, FileFails PROVE ProjectInv'
  OBVIOUS
<1>1. op.pc \in {"write", "swap"} /\ files' \in Contents /\ UNCHANGED journals /\ OnFailure
  BY CutOffTyped DEF FileFails, At
<1>2. CASE op.onfail = "end"
  BY <1>1, <1>2, EndsOnDisk DEF OnFailure, Fail
<1>3. CASE op.onfail = "mark"
  <2>1. RequireRecovery /\ UNCHANGED torn /\ op.kind # "save"
    BY <1>1, <1>3 DEF OnFailure, history, StepsInv, AloneInv, SaveSteps
  <2>2. op.pc \in AtWork
    BY <1>1 DEF AtWork
  <2> QED
    BY <1>1, <2>1, <2>2, RequiresRecovery
<1>4. CASE op.onfail \notin {"end", "mark"}
  <2>1. Goto(op.onfail) /\ UNCHANGED torn
    BY <1>1, <1>4 DEF OnFailure, history
  <2>2. op.onfail = "compensate" /\ op.kind = "commit"
    BY <1>1, <1>4 DEF StepsInv, AloneInv, Kinds, SaveSteps, CommitSteps, RecoverSteps, RollbackSteps
  <2>3. /\ op'.pc = "compensate" /\ op'.kind = op.kind /\ op'.m = op.m
        /\ op'.journal = op.journal /\ op'.todo = op.todo /\ op'.then = op.then
        /\ op'.done = op.done /\ op'.kept = op.kept
    BY <2>1, <2>2 DEF Goto, StepsInv, AloneInv, Shape
  <2>4. op.pc \in Deciding /\ op.pc \notin {"journal", "journalSwap"} /\ Working
    BY <1>1, <2>2 DEF Deciding, AtWork, Working
  <2>5. Progress'
    BY <2>3 DEF Progress
  <2>6. Writing'
    BY <2>3, <2>4 DEF ProjectInv, Writing
  <2>7. op'.kept \in Bytes
    BY <2>3 DEF ProjectInv, ProjectTyped
  <2> QED
    BY <1>1, <2>1, <2>3, <2>4, <2>5, <2>6, <2>7, GoesOn
<1> QED
  BY <1>2, <1>3, <1>4

\* The next operation of a mutation is to be applied, or all are.
LEMMA ProjectApply == StepsInv /\ StepsInv' /\ ProjectInv /\ Apply => ProjectInv'
<1> SUFFICES ASSUME StepsInv, StepsInv', ProjectInv, Apply PROVE ProjectInv'
  OBVIOUS
<1>1. op.pc = "apply" /\ UNCHANGED <<files, journals, torn>> /\ op.kind = "commit"
  BY DEF Apply, At, disk, history, StepsInv, AloneInv, Kinds, SaveSteps, CommitSteps,
         RecoverSteps, RollbackSteps
<1>2. op.pc \in Deciding /\ Working /\ op.m \in Mutation /\ Before \in Contents
  BY <1>1 DEF Deciding, AtWork, Working, ProjectInv, JournalInHand
<1>3. op.done \in 0 .. Len(Plan[op.m]) /\ Len(Plan[op.m]) \in Nat
  BY <1>1, <1>2, PathsOfMutation DEF ProjectInv, Writing
<1>4. CASE op.done = Len(Plan[op.m])
  <2>1. Goto("verify")
    BY <1>4 DEF Apply
  <2>2. "verify" \in (Deciding \cup {"end"}) \ {"write", "swap", "applied"}
    BY DEF Deciding, AtWork
  <2> QED
    BY <1>1, <1>2, <2>1, <2>2, GoesTo
<1>5. CASE op.done # Len(Plan[op.m])
  <2> DEFINE todo == Writes(Plan[op.m][op.done + 1], op.m, Before)
  <2>1. WriteAll(todo, "applied", "compensate")
    BY <1>5 DEF Apply
  <2>2. op.done + 1 \in 1 .. Len(Plan[op.m])
    BY <1>3, <1>5
  <2>3. todo \in Seq(Path \X Bytes) /\ TargetsOf(todo) \subseteq WriteSet(op.m)
    BY <1>2, <2>2, WritesFacts
  <2> HIDE DEF todo
  <2>4. /\ op'.pc = "write" /\ op'.kind = op.kind /\ op'.m = op.m /\ op'.journal = op.journal
        /\ op'.todo = todo /\ op'.then = "applied" /\ op'.done = op.done /\ op'.kept = op.kept
    BY <2>1, WriteAllSets
  <2> QED
    BY <1>1, <1>2, <1>5, <2>3, <2>4, WritesAll
<1> QED
  BY <1>4, <1>5

\* One operation of a mutation is applied.
LEMMA ProjectOperationApplied ==
  StepsInv /\ StepsInv' /\ ProjectInv /\ OperationApplied => ProjectInv'
<1> SUFFICES ASSUME StepsInv, StepsInv', ProjectInv, OperationApplied PROVE ProjectInv'
  OBVIOUS
<1>1. /\ op.pc = "applied" /\ UNCHANGED <<files, journals, torn>>
      /\ op'.pc = "apply" /\ op'.kind = op.kind /\ op'.m = op.m /\ op'.journal = op.journal
      /\ op'.todo = op.todo /\ op'.then = op.then /\ op'.done = op.done + 1
      /\ op'.kept = op.kept
  BY DEF OperationApplied, StepsInv, AloneInv, Shape, At, disk, history
<1>2. op.kind = "commit"
  BY <1>1 DEF StepsInv, AloneInv, Kinds, SaveSteps, CommitSteps, RecoverSteps, RollbackSteps
<1>3. op.pc \in Deciding /\ Working /\ op.m \in Mutation
  BY <1>1, <1>2 DEF Deciding, AtWork, Working, ProjectInv, JournalInHand
<1>4. op.done \in 0 .. Len(Plan[op.m]) /\ op.done # Len(Plan[op.m]) /\ Len(Plan[op.m]) \in Nat
  BY <1>1, <1>2, <1>3, PathsOfMutation DEF ProjectInv, Writing
<1>5. op.done + 1 \in 0 .. Len(Plan[op.m])
  BY <1>4
<1>6. Progress'
  BY <1>1 DEF Progress
<1>7. Writing'
  BY <1>1, <1>2, <1>3, <1>5 DEF ProjectInv, Writing
<1>8. files' \in Contents /\ op'.kept \in Bytes
  BY <1>1 DEF ProjectInv, ProjectTyped
<1> QED
  BY <1>1, <1>3, <1>6, <1>7, <1>8, GoesOn

\* A journal with the state it is to have.
LEMMA NewState ==
  ASSUME StepsInv, NEW state
  PROVE  LET new == [op.journal EXCEPT !.state = state]
         IN new.seen = op.journal.seen /\ new.after = op.journal.after /\ new.state = state
BY DEF StepsInv, JournalShape, IsJournal

\* A revision is never the unknown one.
LEMMA RevisionIsSome == Revision # NoRevision /\ \A s, r, a : Journal(s, r, a).after = a
  /\ Journal(s, r, a).seen = r /\ Journal(s, r, a).state = s
<1>1. DOMAIN Revision = {"files", "strays"} /\ DOMAIN NoRevision = {}
  BY DEF Revision, NoRevision
<1> QED
  BY <1>1 DEF Journal

\* The after states are compared with the files.
LEMMA ProjectVerify == StepsInv /\ StepsInv' /\ ProjectInv /\ Verify => ProjectInv'
<1> SUFFICES ASSUME StepsInv, StepsInv', ProjectInv, Verify PROVE ProjectInv'
  OBVIOUS
<1>1. op.pc = "verify" /\ UNCHANGED <<files, journals, torn>>
  BY DEF Verify, At, disk, history
<1>2. op.pc \in AtWork /\ op.pc \in Deciding /\ op.kind # "save" /\ files' \in Contents
  BY <1>1 DEF Deciding, AtWork, StepsInv, AloneInv, SaveSteps, ProjectInv, ProjectTyped
<1>3. CASE Holds(After)
  <2>1. Goto("inventory")
    BY <1>3 DEF Verify
  <2>2. Kept(WriteSet(op.m), After)
    BY <1>3 DEF Holds, Kept
  <2>3. "inventory" \in (Deciding \cup {"end"}) \ {"write", "swap", "applied"}
    BY DEF Deciding, AtWork
  <2> QED
    BY <1>1, <1>2, <2>1, <2>2, <2>3, GoesTo
<1>4. CASE ~Holds(After)
  BY <1>1, <1>2, <1>4, RequiresRecovery DEF Verify
<1> QED
  BY <1>3, <1>4

\* The rest of the project is compared with what it was.
LEMMA ProjectInventory == StepsInv /\ StepsInv' /\ ProjectInv /\ Inventory => ProjectInv'
<1> SUFFICES ASSUME StepsInv, StepsInv', ProjectInv, Inventory PROVE ProjectInv'
  OBVIOUS
<1>1. op.pc = "inventory" /\ UNCHANGED <<files, journals, torn>>
  BY DEF Inventory, At, disk, history
<1>2. op.pc \in Deciding /\ op.kind # "save" /\ files' \in Contents
  BY <1>1 DEF Deciding, AtWork, StepsInv, AloneInv, SaveSteps, ProjectInv, ProjectTyped
<1>3. CASE ~UnknownChanges /\ Record(Journal("Committed", op.journal.seen, Revision))
  <2> DEFINE new == Journal("Committed", op.journal.seen, Revision)
  <2>1. new.seen = op.journal.seen /\ new.state = "Committed" /\ new.after # NoRevision
    BY RevisionIsSome
  <2>2. Kept(WriteSet(op.m), After)
    BY <1>1 DEF ProjectInv, Progress
  <2>3. Kept(Path \ WriteSet(op.m), Before)
    BY <1>3 DEF UnknownChanges, Kept
  <2>4. ReadyFor(new.state)
    BY <2>1, <2>2, <2>3 DEF ReadyFor
  <2> HIDE DEF new
  <2>5. Record(new) /\ Working
    BY <1>2, <1>3, DecidingWorks DEF new
  <2> QED
    BY <1>1, <1>2, <2>1, <2>4, <2>5, GoesToJournal
<1>4. CASE Goto("compensate")
  <2>1. "compensate" \in (Deciding \cup {"end"}) \ {"write", "swap", "applied"}
    BY DEF Deciding, AtWork
  <2> QED
    BY <1>1, <1>2, <1>4, <2>1, GoesTo
<1> QED
  BY <1>3, <1>4 DEF Inventory

\* What has been applied is taken back, if it is still known.
LEMMA ProjectCompensate == StepsInv /\ StepsInv' /\ ProjectInv /\ Compensate => ProjectInv'
<1> SUFFICES ASSUME StepsInv, StepsInv', ProjectInv, Compensate PROVE ProjectInv'
  OBVIOUS
<1>1. op.pc = "compensate" /\ UNCHANGED <<files, journals, torn>>
  BY DEF Compensate, At, disk, history
<1>2. op.pc \in AtWork /\ op.pc \in Deciding /\ op.kind # "save" /\ files' \in Contents
  BY <1>1 DEF Deciding, AtWork, StepsInv, AloneInv, SaveSteps, ProjectInv, ProjectTyped
<1>3. CASE Restore(WriteSet(op.m), Before, "rollBack", "end")
  <2>1. Kept(WriteSet(op.m) \ WriteSet(op.m), Before)
    BY DEF Kept
  <2> QED
    BY <1>1, <1>2, <1>3, <2>1, RestoreSets
<1>4. CASE RequireRecovery
  BY <1>1, <1>2, <1>4, RequiresRecovery
<1> QED
  BY <1>3, <1>4 DEF Compensate

\* A mutation that was taken back is recorded so.
LEMMA ProjectRollBack == StepsInv /\ StepsInv' /\ ProjectInv /\ RollBack => ProjectInv'
<1> SUFFICES ASSUME StepsInv, StepsInv', ProjectInv, RollBack PROVE ProjectInv'
  OBVIOUS
<1>1. op.pc = "rollBack" /\ UNCHANGED <<files, journals, torn>>
  BY DEF RollBack, At, disk, history
<1>2. op.pc \in Deciding /\ op.kind \notin {"save", "rollback"} /\ files' \in Contents /\ Working
  BY <1>1, DecidingWorks
     DEF Deciding, AtWork, StepsInv, AloneInv, SaveSteps, RollbackSteps, ProjectInv, ProjectTyped
<1> DEFINE new == [op.journal EXCEPT !.state = "RolledBack"]
<1>3. new.seen = op.journal.seen /\ new.after = op.journal.after /\ new.state = "RolledBack"
  BY NewState
<1>4. ReadyFor(new.state)
  BY <1>1, <1>2, <1>3 DEF ReadyFor, ProjectInv, Progress
<1>5. Record(new)
  BY DEF RollBack
<1> HIDE DEF new
<1> QED
  BY <1>1, <1>2, <1>3, <1>4, <1>5, GoesToJournal

\* A recovery tells an applied mutation from one that is not.
LEMMA ProjectClassify == StepsInv /\ StepsInv' /\ ProjectInv /\ Classify => ProjectInv'
<1> SUFFICES ASSUME StepsInv, StepsInv', ProjectInv, Classify PROVE ProjectInv'
  OBVIOUS
<1>1. op.pc = "classify" /\ UNCHANGED <<files, journals, torn>>
  BY DEF Classify, At, disk, history
<1>2. op.pc \in AtWork /\ op.pc \in Deciding /\ op.kind # "save" /\ files' \in Contents /\ Working
  BY <1>1, DecidingWorks DEF Deciding, AtWork, StepsInv, AloneInv, SaveSteps, ProjectInv, ProjectTyped
<1>3. CASE RequireRecovery
  BY <1>1, <1>2, <1>3, RequiresRecovery
<1>4. CASE KnownBytes /\ ExactAfter = {} /\ Record([op.journal EXCEPT !.state = "Aborted"])
  <2> DEFINE new == [op.journal EXCEPT !.state = "Aborted"]
  <2>1. new.seen = op.journal.seen /\ new.after = op.journal.after /\ new.state = "Aborted"
    BY NewState
  <2>2. Kept(WriteSet(op.m), Before)
    BY <1>4 DEF KnownBytes, ExactAfter, Kept
  <2>3. ReadyFor(new.state)
    BY <2>1, <2>2 DEF ReadyFor
  <2>4. Record(new)
    BY <1>4
  <2> HIDE DEF new
  <2> QED
    BY <1>1, <1>2, <2>1, <2>3, <2>4, GoesToJournal
<1>5. CASE \E todo \in Restoring(ExactAfter, Before) :
             op' = [op EXCEPT !.todo = todo, !.all = (ExactAfter = WriteSet(op.m)),
                              !.then = "recheck", !.onfail = "mark", !.pc = "write"]
  <2>1. PICK todo \in Restoring(ExactAfter, Before) :
             op' = [op EXCEPT !.todo = todo, !.all = (ExactAfter = WriteSet(op.m)),
                              !.then = "recheck", !.onfail = "mark", !.pc = "write"]
    BY <1>5
  <2>2. /\ op'.pc = "write" /\ op'.kind = op.kind /\ op'.m = op.m /\ op'.journal = op.journal
        /\ op'.todo = todo /\ op'.then = "recheck" /\ op'.done = op.done /\ op'.kept = op.kept
    BY <2>1 DEF StepsInv, AloneInv, Shape
  <2>3. ExactAfter \in SUBSET WriteSet(op.m)
    BY DEF ExactAfter
  <2> QED
    BY <1>1, <1>2, <2>1, <2>2, <2>3, Restores
<1> QED
  BY <1>3, <1>4, <1>5 DEF Classify

\* It looks again at what it has restored.
LEMMA ProjectRecheck == StepsInv /\ StepsInv' /\ ProjectInv /\ Recheck => ProjectInv'
<1> SUFFICES ASSUME StepsInv, StepsInv', ProjectInv, Recheck PROVE ProjectInv'
  OBVIOUS
<1>1. op.pc = "recheck" /\ UNCHANGED <<files, journals, torn>>
  BY DEF Recheck, At, disk, history
<1>2. op.pc \in AtWork /\ op.pc \in Deciding /\ op.kind # "save" /\ files' \in Contents
  BY <1>1 DEF Deciding, AtWork, StepsInv, AloneInv, SaveSteps, ProjectInv, ProjectTyped
<1>3. CASE RequireRecovery
  BY <1>1, <1>2, <1>3, RequiresRecovery
<1>4. CASE Restore(WriteSet(op.m), After, "finalize", "mark")
  BY <1>1, <1>2, <1>4, RestoreSets
<1>5. CASE Holds(Before) /\ Goto("rollBack")
  <2>1. Kept(WriteSet(op.m), Before)
    BY <1>5 DEF Holds, Kept
  <2>2. "rollBack" \in (Deciding \cup {"end"}) \ {"write", "swap", "applied"}
    BY DEF Deciding, AtWork
  <2> QED
    BY <1>1, <1>2, <1>5, <2>1, <2>2, GoesTo
<1> QED
  BY <1>3, <1>4, <1>5 DEF Recheck

\* It commits what it has applied again.
LEMMA ProjectFinalize == StepsInv /\ StepsInv' /\ ProjectInv /\ Finalize => ProjectInv'
<1> SUFFICES ASSUME StepsInv, StepsInv', ProjectInv, Finalize PROVE ProjectInv'
  OBVIOUS
<1>1. op.pc = "finalize" /\ UNCHANGED <<files, journals, torn>>
  BY DEF Finalize, At, disk, history
<1>2. op.pc \in AtWork /\ op.pc \in Deciding /\ op.kind # "save" /\ files' \in Contents /\ Working
  BY <1>1, DecidingWorks DEF Deciding, AtWork, StepsInv, AloneInv, SaveSteps, ProjectInv, ProjectTyped
<1>3. CASE RequireRecovery
  BY <1>1, <1>2, <1>3, RequiresRecovery
<1>4. CASE KnownBytes /\ Restore(ExactAfter, Before, "rollBack", "end")
  <2>1. Kept(WriteSet(op.m) \ ExactAfter, Before)
    BY <1>4 DEF KnownBytes, ExactAfter, Kept
  <2>2. ExactAfter \in SUBSET WriteSet(op.m)
    BY DEF ExactAfter
  <2> QED
    BY <1>1, <1>2, <1>4, <2>1, <2>2, RestoreSets
<1>5. CASE /\ ~UnknownChanges /\ Holds(After)
           /\ Record(Journal("Committed", op.journal.seen, Revision))
  <2> DEFINE new == Journal("Committed", op.journal.seen, Revision)
  <2>1. new.seen = op.journal.seen /\ new.state = "Committed" /\ new.after # NoRevision
    BY RevisionIsSome
  <2>2. Kept(WriteSet(op.m), After)
    BY <1>5 DEF Holds, Kept
  <2>3. Kept(Path \ WriteSet(op.m), Before)
    BY <1>5 DEF UnknownChanges, Kept
  <2>4. ReadyFor(new.state)
    BY <2>1, <2>2, <2>3 DEF ReadyFor
  <2>5. Record(new)
    BY <1>5
  <2> HIDE DEF new
  <2> QED
    BY <1>1, <1>2, <2>1, <2>4, <2>5, GoesToJournal
<1> QED
  BY <1>3, <1>4, <1>5 DEF Finalize

\* A rollback compares the project with the one before the mutation.
LEMMA ProjectRevise == StepsInv /\ StepsInv' /\ ProjectInv /\ Revise => ProjectInv'
<1> SUFFICES ASSUME StepsInv, StepsInv', ProjectInv, Revise PROVE ProjectInv'
  OBVIOUS
<1>1. op.pc = "revise" /\ UNCHANGED <<files, journals>> /\ (UNCHANGED history => UNCHANGED torn)
  BY DEF Revise, At, disk, history
<1>2. op.pc \in Deciding /\ op.kind # "save" /\ files' \in Contents /\ Working
      /\ op.pc \notin {"journal", "journalSwap"} /\ op.m \in Mutation
  BY <1>1, DecidingWorks
     DEF Deciding, AtWork, StepsInv, AloneInv, SaveSteps, ProjectInv, ProjectTyped, JournalInHand
<1>3. CASE /\ Revision = op.journal.seen
           /\ Record([op.journal EXCEPT !.state = "RolledBack"])
           /\ UNCHANGED history
  <2> DEFINE new == [op.journal EXCEPT !.state = "RolledBack"]
  <2>1. new.seen = op.journal.seen /\ new.after = op.journal.after /\ new.state = "RolledBack"
    BY NewState
  <2>2. files = Before
    BY <1>3 DEF Revision, Before
  <2>3. ReadyFor(new.state)
    BY <1>2, <2>1, <2>2, PathsOfMutation DEF ReadyFor, Kept
  <2>4. Record(new)
    BY <1>3
  <2> HIDE DEF new
  <2> QED
    BY <1>1, <1>2, <1>3, <2>1, <2>3, <2>4, GoesToJournal
<1>4. CASE Restore(WriteSet(op.m), After, "end", "end") /\ UNCHANGED history
  BY <1>1, <1>2, <1>4, RestoreSets
<1>5. CASE End
  BY <1>1, <1>2, <1>5, EndsOnDisk
<1> QED
  BY <1>3, <1>4, <1>5 DEF Revise

\* The scan takes up a journal as it lies on disk.
LEMMA ProjectScan == StepsInv /\ StepsInv' /\ ProjectInv /\ Scan => ProjectInv'
<1> SUFFICES ASSUME StepsInv, StepsInv', ProjectInv, Scan PROVE ProjectInv'
  OBVIOUS
<1>1. PICK m \in Unresolved :
        op' = [op EXCEPT !.m = m, !.journal = journals[m],
                         !.pc = IF Incomplete(m) THEN "classify" ELSE "receipt"]
  BY DEF Scan
<1>2. /\ op'.kind = op.kind /\ op'.m = m /\ op'.journal = journals[m] /\ op'.todo = op.todo
      /\ op'.then = op.then /\ op'.done = op.done /\ op'.kept = op.kept
      /\ op'.pc = IF Incomplete(m) THEN "classify" ELSE "receipt"
      /\ op.pc = "scan" /\ op.kind = "recover" /\ m \in Mutation
      /\ UNCHANGED <<files, journals, torn>>
  BY <1>1 DEF Scan, At, disk, history, Unresolved, StepsInv, AloneInv, Shape, Kinds
<1>3. \A n \in Mutation : Standing(n)' = journals[n] /\ Standing(n) = journals[n]
  BY <1>2 DEF Standing, At
<1>4. StandingSealed'
  BY <1>3 DEF ProjectInv, StandingSealed
<1>5. Incomplete(m) => /\ journals[m].seen.files \in Contents /\ journals[m].after = NoRevision
                       /\ journals[m].state \in {"Prepared", "Applying"}
  BY <1>2, <1>3 DEF ProjectInv, StandingSealed, Incomplete
<1>6. JournalInHand'
  BY <1>2, <1>3, <1>5 DEF JournalInHand, Working, Before, Deciding, AtWork
<1>7. ProjectTyped'
  BY <1>2 DEF ProjectInv, ProjectTyped, Idle
<1>8. Progress'
  BY <1>2 DEF Progress
<1>9. Writing'
  BY <1>2 DEF ProjectInv, Writing, Working
<1> QED
  BY <1>4, <1>6, <1>7, <1>8, <1>9 DEF ProjectInv

\* A recovery writes the receipt of a committed mutation.
LEMMA ProjectRecoverReceipt == StepsInv /\ StepsInv' /\ ProjectInv /\ RecoverReceipt => ProjectInv'
<1> SUFFICES ASSUME StepsInv, StepsInv', ProjectInv, RecoverReceipt PROVE ProjectInv'
  OBVIOUS
<1>1. op.pc = "receipt" /\ op.kind = "recover" /\ UNCHANGED <<files, journals>>
  BY DEF RecoverReceipt, At
<1>2. CASE Goto("scan") /\ UNCHANGED history
  <2>1. /\ op'.pc = "scan" /\ op'.kind = op.kind /\ op'.m = op.m /\ op'.journal = op.journal
        /\ op'.todo = op.todo /\ op'.then = op.then /\ op'.done = op.done
        /\ op'.kept = op.kept /\ UNCHANGED torn
    BY <1>2 DEF Goto, StepsInv, AloneInv, Shape, history
  <2>2. Progress' /\ ~Working'
    BY <1>1, <2>1 DEF Progress, Working
  <2>3. Writing'
    BY <1>1, <2>1, <2>2 DEF ProjectInv, Writing
  <2>4. files' \in Contents /\ op'.kept \in Bytes
    BY <1>1, <2>1 DEF ProjectInv, ProjectTyped
  <2>5. op'.pc \notin Deciding
    BY <2>1 DEF Deciding, AtWork
  <2> QED
    BY <1>1, <2>1, <2>2, <2>3, <2>4, <2>5, GoesOn
<1>3. CASE End
  BY <1>1, <1>3, EndsOnDisk DEF ProjectInv, ProjectTyped
<1> QED
  BY <1>2, <1>3 DEF RecoverReceipt

\* Steps that end the operation and leave files and journals alone.
LEMMA ProjectEnds ==
  /\ StepsInv /\ ProjectInv
  /\ CommitReceipt \/ Recovered \/ RolledBack \/ DocumentSaved \/ Return \/ ReadFails
  => ProjectInv'
<1> SUFFICES ASSUME StepsInv, ProjectInv,
                    CommitReceipt \/ Recovered \/ RolledBack \/ DocumentSaved \/ Return \/ ReadFails
             PROVE  ProjectInv'
  OBVIOUS
<1>1. op.pc \notin {"journal", "journalSwap"} /\ UNCHANGED <<files, journals>> /\ End
  BY DEF CommitReceipt, Recovered, RolledBack, DocumentSaved, Return, ReadFails, Fail, At, disk
<1> QED
  BY <1>1, EndsOnDisk DEF ProjectInv, ProjectTyped

\* The process dies.
LEMMA ProjectDie == StepsInv /\ ProjectInv /\ Die => ProjectInv'
<1> SUFFICES ASSUME StepsInv, ProjectInv, Die PROVE ProjectInv'
  OBVIOUS
<1>1. files' \in Contents
  BY CutOffTyped DEF Die, ProjectInv, ProjectTyped
<1>2. op' = NoOp /\ torn' \in BOOLEAN /\ UNCHANGED journals
  BY DEF Die, End
<1>3. \A m \in Mutation : m # op.m => journals[m] = Standing(m)
  BY OthersOnDisk
<1>4. op.m \in Mutation => journals[op.m] \in {NoJournal, Standing(op.m)}
  <2>1. CASE op.pc = "journalSwap"
    BY <2>1 DEF StepsInv, AloneInv, Kinds, SaveSteps, CommitSteps, RecoverSteps, RollbackSteps
  <2>2. CASE op.pc # "journalSwap"
    BY <2>2 DEF Standing, At
  <2> QED
    BY <2>1, <2>2
<1>5. \A m \in Mutation : journals'[m] \in {NoJournal, Standing(m)}
  BY <1>2, <1>3, <1>4
<1> QED
  BY <1>1, <1>2, <1>5, EndKeepsProject

\* Every step of the operation at work preserves the invariant.
LEMMA ProjectStep == StepsInv /\ StepsInv' /\ ProjectInv /\ OperationStep => ProjectInv'
BY ProjectJournalAway, ProjectJournalIn, ProjectJournalFails, ProjectWritesDone,
   ProjectFileAway, ProjectFileIn, ProjectFileFails, ProjectApply, ProjectOperationApplied,
   ProjectVerify, ProjectInventory, ProjectCompensate, ProjectRollBack, ProjectEnds,
   ProjectScan, ProjectClassify, ProjectRecheck, ProjectFinalize, ProjectRecoverReceipt,
   ProjectRevise, ProjectDie DEF OperationStep

\* An operation that begins finds everything at rest.
LEMMA AtRest ==
  ASSUME ProjectInv, Idle
  PROVE  /\ op = NoOp /\ op.kind = "none" /\ ~Working
         /\ \A m \in Mutation : Standing(m) = journals[m]
BY DEF ProjectInv, ProjectTyped, NoOp, Working, Standing, At, Idle

\* A commit begins with what it finds.
LEMMA ProjectBeginCommit ==
  ASSUME StepsInv, JournalsUsed, ProjectInv,
         NEW c \in Process, NEW m \in Mutation, BeginCommit(c, m)
  PROVE  ProjectInv'
<1>1. /\ UNCHANGED <<files, journals, torn>> /\ journals[m] = NoJournal
      /\ op' = [NoOp EXCEPT !.kind = "commit", !.by = c, !.m = m, !.pc = "journal",
                            !.journal = Journal("Prepared", Revision, NoRevision)]
      /\ \A n \in Mutation : Standing(n) = journals[n]
  BY AtRest DEF BeginCommit, JournalsUsed, history
<1>2. /\ op'.kind = "commit" /\ op'.m = m /\ op'.pc = "journal" /\ op'.todo = << >>
      /\ op'.done = 0 /\ op'.kept = Missing /\ op'.then = "end"
      /\ op'.journal.seen = Revision /\ op'.journal.state = "Prepared"
      /\ op'.journal.after = NoRevision
  BY <1>1, RevisionIsSome DEF NoOp
<1>3. \A n \in Mutation : Standing(n)' = IF n = m THEN op'.journal ELSE Standing(n)
  BY <1>1, <1>2 DEF Standing, At
<1>4. Revision.files = files /\ files \in Contents
  BY DEF Revision, ProjectInv, ProjectTyped
<1>5. StandingSealed'
  BY <1>2, <1>3, <1>4 DEF ProjectInv, StandingSealed
<1>6. JournalInHand'
  BY <1>2, <1>3, <1>4 DEF JournalInHand, Before, Deciding, AtWork
<1>7. ProjectTyped'
  BY <1>1, <1>2 DEF ProjectInv, ProjectTyped, Idle, Bytes
<1>8. Progress'
  BY <1>1, <1>2, <1>4 DEF Progress, ReadyFor, Kept, Before
<1>9. Writing'
  BY <1>2, PathsOfMutation DEF Writing
<1> QED
  BY <1>5, <1>6, <1>7, <1>8, <1>9 DEF ProjectInv

\* A rollback begins with what the journal has sealed.
LEMMA ProjectBeginRollback ==
  ASSUME StepsInv, ProjectInv, NEW c \in Process, NEW m \in Mutation, BeginRollback(c, m)
  PROVE  ProjectInv'
<1>1. PICK todo \in Restoring(WriteSet(m), journals[m].seen.files) :
        op' = [NoOp EXCEPT !.kind = "rollback", !.by = c, !.m = m,
                           !.journal = journals[m], !.todo = todo,
                           !.then = "revise", !.onfail = "mark", !.pc = "write"]
  BY DEF BeginRollback
<1>2. /\ UNCHANGED <<files, journals, torn>> /\ journals[m].state = "Committed"
      /\ \A n \in Mutation : Standing(n) = journals[n]
  BY AtRest DEF BeginRollback, disk, history
<1>3. /\ op'.kind = "rollback" /\ op'.m = m /\ op'.pc = "write" /\ op'.todo = todo
      /\ op'.kept = Missing /\ op'.then = "revise" /\ op'.journal = journals[m]
  BY <1>1 DEF NoOp
<1>4. \A n \in Mutation : Standing(n)' = Standing(n)
  BY <1>2, <1>3 DEF Standing, At
<1>5. journals[m].seen.files \in Contents /\ journals[m].after # NoRevision
  BY <1>2 DEF ProjectInv, StandingSealed
<1>6. todo \in Seq(Path \X Bytes) /\ TargetsOf(todo) = WriteSet(m)
  BY <1>5, PathsOfMutation, RestoringFacts
<1>7. StandingSealed'
  BY <1>4 DEF ProjectInv, StandingSealed
<1>8. JournalInHand'
  BY <1>2, <1>3, <1>4, <1>5 DEF JournalInHand, Before
<1>9. ProjectTyped'
  BY <1>2, <1>3 DEF ProjectInv, ProjectTyped, Idle, Bytes
<1>10. Progress'
  BY <1>3 DEF Progress
<1>11. Writing'
  BY <1>3, <1>6 DEF Writing
<1> QED
  BY <1>7, <1>8, <1>9, <1>10, <1>11 DEF ProjectInv

\* A save has a document to write.
LEMMA ProjectBeginSave ==
  ASSUME StepsInv, ProjectInv, NEW c \in Process, NEW p \in Document, BeginSave(c, p)
  PROVE  ProjectInv'
<1>1. /\ UNCHANGED <<files, journals, torn>>
      /\ \A n \in Mutation : Standing(n) = journals[n]
      /\ op'.kind = "save" /\ op'.m = 0 /\ op'.pc = "write" /\ op'.then = "saved"
      /\ op'.kept = Missing
      /\ op'.todo = << >> \/ op'.todo = << <<p, Saved>> >>
  BY AtRest DEF BeginSave, disk, history, NoOp
<1>2. \A n \in Mutation : Standing(n)' = Standing(n)
  BY <1>1 DEF Standing, At
<1>3. p \in Path /\ Saved \in Bytes /\ Missing \in Bytes
  BY NumberedAssumption DEF Bytes
<1>4. ~Working'
  BY <1>1 DEF Working
<1>5. StandingSealed'
  BY <1>2 DEF ProjectInv, StandingSealed
<1>6. JournalInHand'
  BY <1>1, <1>4 DEF JournalInHand
<1>7. ProjectTyped'
  BY <1>1, <1>3 DEF ProjectInv, ProjectTyped, Idle
<1>8. Progress'
  BY <1>1 DEF Progress
<1>9. Writing'
  <2>1. /\ op'.todo \in Seq(Path \X Bytes)
        /\ \A i \in DOMAIN op'.todo : op'.todo[i][2] = Saved
    <3>1. CASE op'.todo = << >>
      BY <3>1
    <3>2. CASE op'.todo = << <<p, Saved>> >>
      BY <1>3, <3>2
    <3> QED
      BY <1>1, <3>1, <3>2
  <2> QED
    BY <1>1, <1>4, <2>1 DEF Writing
<1> QED
  BY <1>5, <1>6, <1>7, <1>8, <1>9 DEF ProjectInv

\* An open has no mutation in hand yet.
LEMMA ProjectBeginOpen ==
  ASSUME StepsInv, ProjectInv, NEW c \in Process, BeginOpen(c)
  PROVE  ProjectInv'
<1>1. /\ UNCHANGED <<files, journals, torn>>
      /\ \A n \in Mutation : Standing(n) = journals[n]
      /\ op'.kind = "recover" /\ op'.m = 0 /\ op'.pc = "scan" /\ op'.todo = << >>
      /\ op'.kept = Missing
  BY AtRest DEF BeginOpen, disk, history, NoOp
<1>2. \A n \in Mutation : Standing(n)' = Standing(n)
  BY <1>1 DEF Standing, At
<1>3. ~Working' /\ Missing \in Bytes
  BY <1>1 DEF Working, Bytes
<1>4. StandingSealed'
  BY <1>2 DEF ProjectInv, StandingSealed
<1>5. JournalInHand'
  BY <1>1, <1>3 DEF JournalInHand, Deciding, AtWork
<1>6. ProjectTyped'
  BY <1>1, <1>3 DEF ProjectInv, ProjectTyped, Idle
<1>7. Progress'
  BY <1>1 DEF Progress
<1>8. Writing'
  BY <1>1, <1>3 DEF Writing
<1> QED
  BY <1>4, <1>5, <1>6, <1>7, <1>8 DEF ProjectInv

\* An outsider's bytes are the one thing that may stand anywhere.
LEMMA ProjectExternalWrite ==
  ASSUME StepsInv, ProjectInv, NEW p \in Path, ExternalWrite(p)
  PROVE  ProjectInv'
<1>1. UNCHANGED <<journals, op, torn>> /\ files' = [files EXCEPT ![p] = External]
  BY DEF ExternalWrite
<1>2. files' \in Contents
  BY <1>1 DEF ProjectInv, ProjectTyped, Contents, Bytes
<1>3. \A q \in Path : files'[q] \in {files[q], External}
  BY <1>1 DEF ProjectInv, ProjectTyped, Contents
<1>4. \A m \in Mutation : Standing(m)' = Standing(m)
  BY <1>1 DEF Standing, At
<1>5. Working' = Working
  BY <1>1 DEF Working
<1>6. StandingSealed'
  BY <1>4 DEF ProjectInv, StandingSealed
<1>7. JournalInHand'
  BY <1>1, <1>4, <1>5 DEF ProjectInv, JournalInHand, Before
<1>8. ProjectTyped'
  BY <1>1, <1>2 DEF ProjectInv, ProjectTyped, Idle
<1>9. Progress'
  <2>1. \A paths \in SUBSET Path : \A f : Kept(paths, f) => Kept(paths, f)'
    BY <1>3 DEF Kept
  <2>2. Before' = Before /\ After' = After /\ WriteSet(op.m)' = WriteSet(op.m)
    BY <1>1 DEF Before, After
  <2>3. \/ op.pc \in {"journal", "journalSwap", "inventory", "rollBack"}
        \/ op.pc \in {"write", "swap"} /\ op.then = "rollBack"
        => WriteSet(op.m) \in SUBSET Path
    <3>1. \/ op.pc \in {"journal", "journalSwap", "inventory", "rollBack"}
          \/ op.pc \in {"write", "swap"} /\ op.then = "rollBack"
          => Working
      BY DEF StepsInv, AloneInv, Kinds, SaveSteps, Working
    <3> QED
      BY <3>1, PathsOfMutation DEF ProjectInv, JournalInHand
  <2>4. op.pc \in {"journal", "journalSwap"} => ReadyFor(op.journal.state)'
    <3>1. op.pc \in {"journal", "journalSwap"} => ReadyFor(op.journal.state)
      BY DEF ProjectInv, Progress
    <3>2. Path \in SUBSET Path /\ Path \ WriteSet(op.m) \in SUBSET Path
      OBVIOUS
    <3> QED
      BY <1>1, <2>1, <2>2, <2>3, <3>1, <3>2 DEF ReadyFor
  <2>5. op.pc = "inventory" => Kept(WriteSet(op.m), After)'
    BY <2>1, <2>2, <2>3 DEF ProjectInv, Progress
  <2>6. op.pc = "rollBack" => Kept(WriteSet(op.m), Before)'
    BY <2>1, <2>2, <2>3 DEF ProjectInv, Progress
  <2>7. op.pc \in {"write", "swap"} /\ op.then = "rollBack" =>
          Kept(WriteSet(op.m) \ TargetsOf(op.todo), Before)'
    <3> SUFFICES ASSUME op.pc \in {"write", "swap"}, op.then = "rollBack"
                 PROVE  Kept(WriteSet(op.m) \ TargetsOf(op.todo), Before)'
      OBVIOUS
    <3>1. WriteSet(op.m) \ TargetsOf(op.todo) \in SUBSET Path
      BY <2>3
    <3>2. Kept(WriteSet(op.m) \ TargetsOf(op.todo), Before)
      BY DEF ProjectInv, Progress
    <3> QED
      BY <1>1, <2>1, <2>2, <3>1, <3>2
  <2>8. op.pc = "swap" => files'[Target] \in {Missing, External}
    <3> SUFFICES ASSUME op.pc = "swap" PROVE files'[Target] \in {Missing, External}
      OBVIOUS
    <3>1. Target \in Path /\ files[Target] \in {Missing, External}
      BY WriteFacts DEF ProjectInv, Writing, Progress
    <3> QED
      BY <1>3, <3>1
  <2>9. Target' = Target
    BY <1>1 DEF Target
  <2> QED
    BY <1>1, <2>2, <2>4, <2>5, <2>6, <2>7, <2>8, <2>9 DEF ProjectInv, Progress
<1>10. Writing'
  BY <1>1, <1>5 DEF ProjectInv, Writing
<1> QED
  BY <1>6, <1>7, <1>8, <1>9, <1>10 DEF ProjectInv

\* Neither the contexts nor a stutter matter to it.
LEMMA ProjectElsewhere ==
  ASSUME ProjectInv, UNCHANGED <<files, journals, op, torn>>
  PROVE  ProjectInv'
<1>1. \A m \in Mutation : Standing(m)' = Standing(m)
  BY DEF Standing, At
<1>2. Working' = Working /\ Before' = Before /\ After' = After
  BY DEF Working, Before, After
<1>3. StandingSealed'
  BY <1>1 DEF ProjectInv, StandingSealed
<1>4. JournalInHand'
  BY <1>1, <1>2 DEF ProjectInv, JournalInHand
<1>5. Progress'
  BY <1>2 DEF ProjectInv, Progress, ReadyFor, Kept, Target
<1>6. Writing'
  BY <1>2 DEF ProjectInv, Writing
<1> QED
  BY <1>3, <1>4, <1>5, <1>6 DEF ProjectInv, ProjectTyped, Idle

\* Every step preserves the invariant.
LEMMA ProjectNext ==
  StepsInv /\ StepsInv' /\ JournalsUsed /\ ProjectInv /\ [Next]_vars => ProjectInv'
<1> SUFFICES ASSUME StepsInv, StepsInv', JournalsUsed, ProjectInv, [Next]_vars
             PROVE  ProjectInv'
  OBVIOUS
<1>1. CASE OperationStep
  BY <1>1, ProjectStep
<1>2. ASSUME NEW c \in Process, NEW m \in Mutation, BeginCommit(c, m) PROVE ProjectInv'
  BY <1>2, ProjectBeginCommit
<1>3. ASSUME NEW c \in Process, NEW m \in Mutation, BeginRollback(c, m) PROVE ProjectInv'
  BY <1>3, ProjectBeginRollback
<1>4. ASSUME NEW c \in Process, NEW p \in Document, BeginSave(c, p) PROVE ProjectInv'
  BY <1>4, ProjectBeginSave
<1>5. ASSUME NEW c \in Process, BeginOpen(c) PROVE ProjectInv'
  BY <1>5, ProjectBeginOpen
<1>6. ASSUME NEW p \in Path, ExternalWrite(p) PROVE ProjectInv'
  BY <1>6, ProjectExternalWrite
<1>7. ASSUME NEW c \in Process, Refresh(c) \/ FinishRefresh(c) \/ Close(c) PROVE ProjectInv'
  BY <1>7, ProjectElsewhere DEF Refresh, FinishRefresh, Close, disk, history
<1>8. CASE UNCHANGED vars
  BY <1>8, ProjectElsewhere DEF vars, disk, history
<1> QED
  BY <1>1, <1>2, <1>3, <1>4, <1>5, <1>6, <1>7, <1>8 DEF Next

\* The invariant holds in every behaviour.
THEOREM ProjectInvAlways == Spec => [](StepsInv /\ JournalsUsed /\ ProjectInv)
<1>1. Init => StepsInv /\ JournalsUsed /\ ProjectInv
  BY StepsInit, ProjectInit DEF Init, JournalsUsed, NoOp
<1>2. StepsInv /\ JournalsUsed /\ ProjectInv /\ [Next]_vars
      => (StepsInv /\ JournalsUsed /\ ProjectInv)'
  BY StepsNext, UsedNext, ProjectNext
<1> QED
  BY <1>1, <1>2, PTL DEF Spec

-----------------------------------------------------------------------------
(* The content a reader is entitled to *)

\* A mutation whose journal, and not its files, says what its paths hold.
Claimed(m) == Undecided(m) \/ Undoing(m)

\* Paths are claimed by one mutation only.
OneClaim == \A m, n \in Mutation : Claimed(m) /\ Claimed(n) => m = n

\* What a path shows that no unfinished mutation claims.
Shown(p) == IF op.kind = "save" /\ At("swap") /\ p = Target THEN op.kept ELSE files[p]

\* The content, without a choice among claims.
ContentAsClaimed ==
  /\ Content = [p \in Path |-> Content[p]]
  /\ \A p \in Path :
       /\ \A m \in Mutation : p \in WriteSet(m) =>
            /\ Undecided(m) => Content[p] = Standing(m).seen.files[p]
            /\ Undoing(m) => Content[p] = Outcome(m, Standing(m).seen.files)[p]
       /\ (\A m \in Mutation : Claimed(m) => p \notin WriteSet(m)) => Content[p] = Shown(p)

\* At most one mutation has a claim on its files, on disk or in hand.
LEMMA OneHasAClaim == StepsInv => OneClaim
<1> SUFFICES ASSUME StepsInv PROVE OneClaim
  OBVIOUS
<1>1. CASE op.kind \in {"commit", "rollback"} \/ (op.kind = "recover" /\ op.pc \notin {"scan", "receipt"})
  <2>1. \A n \in Mutation : n # op.m => ~Unfinished(n) /\ Standing(n) = journals[n]
    BY <1>1, OthersOnDisk DEF StepsInv, AloneInv, WriterAlone, OthersFinished
  <2>2. \A n \in Mutation : n # op.m => ~Claimed(n)
    BY <2>1 DEF Claimed, Undecided, Undoing, Unfinished, Incomplete, Blocked
  <2> QED
    BY <2>2 DEF OneClaim
<1>2. CASE op.kind \in {"none", "save"} \/ (op.kind = "recover" /\ op.pc \in {"scan", "receipt"})
  <2>1. op.pc \notin {"journal", "journalSwap"}
    BY <1>2 DEF StepsInv, AloneInv, Kinds, SaveSteps
  <2>2. \A n \in Mutation : Standing(n) = journals[n]
    BY <2>1, RestsOnDisk DEF StandingOnDisk
  <2>3. \A n \in Mutation : Claimed(n) => Unfinished(n)
    BY <1>2, <2>2 DEF Claimed, Undecided, Undoing, Unfinished, Incomplete, Blocked
  <2> QED
    BY <2>3 DEF OneClaim, StepsInv, AloneInv, AtMostOneUnfinished, Unfinished
<1> QED
  BY <1>1, <1>2 DEF StepsInv, AloneInv, Kinds

\* So the content is the one that the claim, if any, says it is.
LEMMA ContentFollows == StepsInv => ContentAsClaimed
<1> SUFFICES ASSUME StepsInv PROVE ContentAsClaimed
  OBVIOUS
<1> DEFINE undecided == {m \in Mutation : Undecided(m)}
           undoing == {m \in Mutation : Undoing(m)}
<1>1. \A m \in Mutation : ~(Undecided(m) /\ Undoing(m))
  BY DEF Undecided, Undoing, InEffect
<1>2. \A m, n \in Mutation : Claimed(m) /\ Claimed(n) => m = n
  BY OneHasAClaim DEF OneClaim
<1>3. Content = [p \in Path |->
        IF \E m \in undecided : p \in WriteSet(m) THEN
          Standing(CHOOSE m \in undecided : p \in WriteSet(m)).seen.files[p]
        ELSE IF \E m \in undoing : p \in WriteSet(m) THEN
          Outcome(CHOOSE n \in undoing : p \in WriteSet(n),
                  Standing(CHOOSE n \in undoing : p \in WriteSet(n)).seen.files)[p]
        ELSE Shown(p)]
  BY DEF Content, Shown
<1>4. ASSUME NEW p \in Path, NEW m \in Mutation, p \in WriteSet(m), Undecided(m)
      PROVE  Content[p] = Standing(m).seen.files[p]
  <2>1. (CHOOSE n \in undecided : p \in WriteSet(n)) = m
    BY <1>2, <1>4 DEF Claimed
  <2> QED
    BY <1>3, <1>4, <2>1
<1>5. ASSUME NEW p \in Path, NEW m \in Mutation, p \in WriteSet(m), Undoing(m)
      PROVE  Content[p] = Outcome(m, Standing(m).seen.files)[p]
  <2>1. (CHOOSE n \in undoing : p \in WriteSet(n)) = m
    BY <1>2, <1>5 DEF Claimed
  <2>2. ~\E n \in undecided : p \in WriteSet(n)
    BY <1>1, <1>2, <1>5 DEF Claimed
  <2> QED
    BY <1>3, <1>5, <2>1, <2>2
<1>6. ASSUME NEW p \in Path, \A m \in Mutation : Claimed(m) => p \notin WriteSet(m)
      PROVE  Content[p] = Shown(p)
  BY <1>3, <1>6 DEF Claimed
<1>7. Content = [p \in Path |-> Content[p]]
  BY <1>3
<1> QED
  BY <1>4, <1>5, <1>6, <1>7 DEF ContentAsClaimed

\* Before and after a step.
LEMMA ContentBoth ==
  ASSUME StepsInv, StepsInv'
  PROVE  ContentAsClaimed /\ ContentAsClaimed' /\ OneClaim /\ OneClaim'
<1>1. (StepsInv => ContentAsClaimed)'
  BY ContentFollows, PTL
<1>2. (StepsInv => OneClaim)'
  BY OneHasAClaim, PTL
<1> QED
  BY <1>1, <1>2, ContentFollows, OneHasAClaim

-----------------------------------------------------------------------------
(* The steps of the abstract project *)

\* The same mutations are in effect, applied to the same contents.
SameEffects == \A m \in Mutation :
  /\ InEffect(m)' <=> InEffect(m)
  /\ InEffect(m) => Standing(m)'.seen = Standing(m).seen

\* The log of the project is that of the effects.
LEMMA SameLog == SameEffects => Log' = Log
BY DEF SameEffects, Log

\* The claims stay, and no more than an outsider's bytes come to be shown.
LEMMA ClaimsStay ==
  ASSUME StepsInv, StepsInv', SameEffects, UNCHANGED torn,
         \A m \in Mutation : /\ Undecided(m)' <=> Undecided(m)
                             /\ Undoing(m)' <=> Undoing(m)
                             /\ Claimed(m) => Standing(m)'.seen = Standing(m).seen,
         \A p \in Path : \/ Shown(p)' \in {Shown(p), External}
                         \/ \E m \in Mutation : Claimed(m) /\ p \in WriteSet(m)
  PROVE  Project!Outsiders
<1>1. ASSUME NEW p \in Path PROVE Content'[p] \in {Content[p], External}
  <2>1. ASSUME NEW m \in Mutation, Claimed(m), p \in WriteSet(m)
        PROVE  Content'[p] = Content[p]
    <3>1. CASE Undecided(m)
      BY <2>1, <3>1, ContentBoth DEF ContentAsClaimed, Claimed
    <3>2. CASE Undoing(m)
      BY <2>1, <3>2, ContentBoth DEF ContentAsClaimed, Claimed
    <3> QED
      BY <2>1, <3>1, <3>2 DEF Claimed
  <2>2. CASE \A m \in Mutation : Claimed(m) => p \notin WriteSet(m)
    <3>1. (\A m \in Mutation : Claimed(m) => p \notin WriteSet(m))'
      BY <2>2 DEF Claimed
    <3> QED
      BY <2>2, <3>1, ContentBoth DEF ContentAsClaimed
  <2> QED
    BY <2>1, <2>2
<1> QED
  BY <1>1, SameLog DEF Project!Outsiders, Project!Overwritten

\* A document save comes to be shown.
LEMMA SaveShown ==
  ASSUME StepsInv, StepsInv', SameEffects, UNCHANGED torn,
         \A m \in Mutation : /\ Undecided(m)' <=> Undecided(m)
                             /\ Undoing(m)' <=> Undoing(m)
                             /\ Claimed(m) => Standing(m)'.seen = Standing(m).seen,
         NEW p \in Path, Shown(p)' = Saved,
         \A q \in Path : q # p => Shown(q)' = Shown(q)
  PROVE  Project!Next
<1>1. CASE \E m \in Mutation : Claimed(m) /\ p \in WriteSet(m)
  BY <1>1, ClaimsStay DEF Project!Next
<1>2. CASE \A m \in Mutation : Claimed(m) => p \notin WriteSet(m)
  <2>1. (\A m \in Mutation : Claimed(m) => p \notin WriteSet(m))'
    BY <1>2 DEF Claimed
  <2>2. Content'[p] = Saved
    BY <2>1, ContentBoth DEF ContentAsClaimed
  <2>3. ASSUME NEW q \in Path, q # p PROVE Content'[q] = Content[q]
    <3>1. ASSUME NEW m \in Mutation, Claimed(m), q \in WriteSet(m)
          PROVE  Content'[q] = Content[q]
      <4>1. CASE Undecided(m)
        BY <3>1, <4>1, ContentBoth DEF ContentAsClaimed, Claimed
      <4>2. CASE Undoing(m)
        BY <3>1, <4>2, ContentBoth DEF ContentAsClaimed, Claimed
      <4> QED
        BY <3>1, <4>1, <4>2 DEF Claimed
    <3>2. CASE \A m \in Mutation : Claimed(m) => q \notin WriteSet(m)
      <4>1. (\A m \in Mutation : Claimed(m) => q \notin WriteSet(m))'
        BY <3>2 DEF Claimed
      <4> QED
        BY <2>3, <3>2, <4>1, ContentBoth DEF ContentAsClaimed
    <3> QED
      BY <3>1, <3>2
  <2>4. Content' = [Content EXCEPT ![p] = Saved]
    BY <2>2, <2>3, ContentBoth DEF ContentAsClaimed
  <2> QED
    BY <2>4, SameLog DEF Project!Next, Project!Save
<1> QED
  BY <1>1, <1>2

\* The one claim is given up: the content is what the files hold.
Free == \A m \in Mutation : ~Claimed(m)

\* When the only claim is given up the files are the content, and outside of it they were.
LEMMA Released ==
  ASSUME StepsInv, StepsInv', Free', op.kind # "save", op'.kind # "save",
         NEW m \in Mutation, Claimed(m)
  PROVE  /\ \A p \in Path : Content'[p] = files'[p]
         /\ \A p \in Path \ WriteSet(m) : Content[p] = files[p]
<1>1. \A p \in Path : Content'[p] = Shown(p)' /\ Shown(p)' = files'[p]
  BY ContentBoth DEF ContentAsClaimed, Free, Shown
<1>2. ASSUME NEW p \in Path \ WriteSet(m) PROVE Content[p] = files[p]
  <2>1. \A n \in Mutation : Claimed(n) => p \notin WriteSet(n)
    BY <1>2, OneHasAClaim DEF OneClaim
  <2> QED
    BY <2>1, ContentBoth DEF ContentAsClaimed, Shown
<1> QED
  BY <1>1, <1>2

\* A mutation did not happen: what it was prepared from is there.
LEMMA NotHappened ==
  ASSUME StepsInv, StepsInv', Free', op.kind # "save", op'.kind # "save",
         UNCHANGED <<files, torn>>, SameEffects,
         NEW m \in Mutation, Undecided(m), Kept(WriteSet(m), Standing(m).seen.files)
  PROVE  Project!Outsiders
<1>1. Claimed(m)
  BY DEF Claimed
<1>2. \A p \in Path \ WriteSet(m) : Content'[p] = Content[p]
  BY <1>1, Released
<1>3. \A p \in WriteSet(m) : p \in Path /\ Content[p] = Standing(m).seen.files[p]
  BY ContentBoth, PathsOfMutation DEF ContentAsClaimed
<1>4. \A p \in WriteSet(m) : Content'[p] \in {Content[p], External}
  BY <1>1, <1>3, Released DEF Kept
<1> QED
  BY <1>2, <1>4, SameLog DEF Project!Outsiders, Project!Overwritten

\* A content is never the unknown one.
LEMMA ContentIsSome == ASSUME NEW m \in Mutation, NEW f \in Contents PROVE f # NoRevision
<1>1. Path # {}
  BY PathsOfMutation
<1>2. DOMAIN f = Path /\ DOMAIN NoRevision = {}
  BY DEF Contents, NoRevision
<1> QED
  BY <1>1, <1>2

\* It happened as a whole, and its journal says so or is lost.
LEMMA Happened ==
  ASSUME StepsInv, StepsInv', Free', op.kind # "save", op'.kind # "save",
         UNCHANGED <<files, torn>>,
         NEW m \in Mutation, Undecided(m), NEW before \in Contents,
         before = Standing(m).seen.files,
         Kept(WriteSet(m), Outcome(m, before)), Kept(Path \ WriteSet(m), before),
         \A n \in Mutation \ {m} : /\ InEffect(n)' <=> InEffect(n)
                                   /\ InEffect(n) => Standing(n)'.seen = Standing(n).seen,
         InEffect(m)' => Standing(m)'.seen.files = before
  PROVE  Project!Commit(m)
<1>1. Claimed(m) /\ ~InEffect(m)
  BY DEF Claimed, Undecided, InEffect
<1>2. \A p \in WriteSet(m) : p \in Path /\ Content[p] = before[p]
  BY ContentBoth, PathsOfMutation DEF ContentAsClaimed
<1>3. Project!Like(Content', Outcome(m, Content))
  <2>1. ASSUME NEW p \in WriteSet(m)
        PROVE  Content'[p] = Outcome(m, Content)[p] \/ Content'[p] = External
    <3>1. Outcome(m, Content)[p] = Outcome(m, before)[p]
      BY <1>2, OutcomeInside
    <3> QED
      BY <1>1, <1>2, <3>1, Released DEF Kept
  <2>2. ASSUME NEW p \in Path \ WriteSet(m) PROVE Content'[p] = Outcome(m, Content)[p]
    BY <1>1, OutcomeOutside, Released
  <2> QED
    BY <2>1, <2>2 DEF Project!Like
<1>4. Log[m] = NoRevision /\ Log'[m] = IF InEffect(m)' THEN before ELSE NoRevision
  BY <1>1 DEF Log
<1>5. Project!Like(before, Content)
  <2>1. ASSUME NEW p \in Path \ WriteSet(m) PROVE Content[p] = before[p] \/ Content[p] = External
    BY <1>1, Released DEF Kept
  <2> QED
    BY <1>2, <2>1 DEF Project!Like
<1>6. before # NoRevision
  BY ContentIsSome
<1>7. \A n \in Mutation \ {m} : Log'[n] = Log[n]
  BY DEF Log
<1> QED
  BY <1>3, <1>4, <1>5, <1>6, <1>7 DEF Project!Commit

\* It was undone as a whole.
LEMMA Undone ==
  ASSUME StepsInv, StepsInv', Free', op.kind # "save", op'.kind # "save",
         UNCHANGED <<files, torn>>,
         NEW m \in Mutation, Undoing(m), NEW before \in Contents,
         before = Standing(m).seen.files, Kept(Path, before),
         \A n \in Mutation \ {m} : /\ InEffect(n)' <=> InEffect(n)
                                   /\ InEffect(n) => Standing(n)'.seen = Standing(n).seen,
         ~InEffect(m)'
  PROVE  Project!Undo(m)
<1>1. Claimed(m) /\ InEffect(m)
  BY DEF Claimed, Undoing
<1>2. Log[m] = before /\ before # NoRevision
  BY <1>1, ContentIsSome DEF Log
<1>3. Project!Like(Content', Log[m])
  BY <1>1, <1>2, Released DEF Project!Like, Kept
<1>4. Log' = [Log EXCEPT ![m] = NoRevision]
  BY DEF Log
<1> QED
  BY <1>2, <1>3, <1>4 DEF Project!Undo

-----------------------------------------------------------------------------
(* The steps of an operation *)

\* While an operation decides or writes, the claim is that of the mutation in
\* hand.
LEMMA HandClaims ==
  ASSUME StepsInv, ProjectInv, op.kind \in {"commit", "recover", "rollback"},
         op.pc \in Deciding \cup {"journal", "journalSwap"}
  PROVE  /\ Working /\ op.m \in Mutation /\ Claimed(op.m)
         /\ op.kind # "rollback" => Undecided(op.m)
         /\ op.kind = "rollback" => Undoing(op.m)
<1>1. Working /\ op.m \in Mutation
  BY DEF ProjectInv, JournalInHand, Working, Deciding, AtWork, StepsInv, AloneInv, Kinds
<1>2. op.kind = "commit" => Standing(op.m).state \in {"Prepared", "Applying"}
  <2> SUFFICES ASSUME op.kind = "commit"
               PROVE  Standing(op.m).state \in {"Prepared", "Applying"}
    OBVIOUS
  <2>1. CASE op.pc = "journalSwap"
    BY <2>1 DEF StepsInv, CommitSteps, Standing, At
  <2>2. CASE op.pc = "journal" /\ journals[op.m] = NoJournal
    BY <2>2 DEF StepsInv, CommitSteps, Standing, At, NoJournal
  <2>3. CASE journals[op.m].state \in {"Prepared", "Applying"} /\ op.pc # "journalSwap"
    BY <2>3 DEF Standing, At, NoJournal
  <2>4. op.pc \notin {"receipt", "end"}
    BY DEF Deciding, AtWork
  <2> QED
    BY <2>1, <2>2, <2>3, <2>4 DEF StepsInv, CommitSteps
<1>4. op.kind = "recover" => Standing(op.m).state \in {"Prepared", "Applying"}
  BY <1>1 DEF StepsInv, RecoverSteps, Standing, At, Deciding, AtWork, Working
<1>3. op.kind = "rollback" => Standing(op.m).state = "Committed"
  BY DEF StepsInv, RollbackSteps, Standing, At, Deciding, AtWork
<1> QED
  BY <1>1, <1>2, <1>3, <1>4 DEF Claimed, Undecided, Undoing, InEffect

\* Same journals, same claims.
LEMMA StandingStays ==
  ASSUME \A m \in Mutation : Standing(m)' = Standing(m),
         \A m \in Mutation : (op'.kind = "rollback" /\ op'.m = m)
                               <=> (op.kind = "rollback" /\ op.m = m)
  PROVE  /\ SameEffects
         /\ \A m \in Mutation : /\ Undecided(m)' <=> Undecided(m)
                                /\ Undoing(m)' <=> Undoing(m)
                                /\ Claimed(m) => Standing(m)'.seen = Standing(m).seen
<1>1. \A m \in Mutation : (InEffect(m)' <=> InEffect(m)) /\ (Undecided(m)' <=> Undecided(m))
  BY DEF InEffect, Undecided
<1>2. \A m \in Mutation : Undoing(m)' <=> Undoing(m)
  BY <1>1 DEF Undoing
<1> QED
  BY <1>1, <1>2 DEF SameEffects

\* An operation that goes on changes nothing but files of its mutation.
LEMMA GoingOnRefines ==
  ASSUME StepsInv, StepsInv', ProjectInv, UNCHANGED torn,
         op.kind # "save", op'.kind = op.kind,
         op.kind = "rollback" => op'.m = op.m,
         \A m \in Mutation : Standing(m)' = Standing(m),
         \A p \in Path : \/ files'[p] = files[p]
                         \/ op.m \in Mutation /\ Claimed(op.m) /\ p \in WriteSet(op.m)
  PROVE  Project!Next
<1>1. \A p \in Path : \/ Shown(p)' \in {Shown(p), External}
                      \/ \E m \in Mutation : Claimed(m) /\ p \in WriteSet(m)
  BY DEF Shown
<1>2. \A m \in Mutation : (op'.kind = "rollback" /\ op'.m = m)
                            <=> (op.kind = "rollback" /\ op.m = m)
  OBVIOUS
<1>3. /\ SameEffects
      /\ \A m \in Mutation : /\ Undecided(m)' <=> Undecided(m)
                             /\ Undoing(m)' <=> Undoing(m)
                             /\ Claimed(m) => Standing(m)'.seen = Standing(m).seen
  BY <1>2, StandingStays
<1> QED
  BY <1>1, <1>3, ClaimsStay DEF Project!Next

\* What an operation at a decision does to its own record, and to one file.
LEMMA DecisionShape ==
  ASSUME StepsInv, StepsInv', ProjectInv, op.kind # "save", UNCHANGED <<journals, torn>>,
         op.pc \in Deciding, op'.pc # "journalSwap", op'.kind = op.kind, op'.m = op.m,
         files' \in Contents,
         \A p \in Path : p # Target => files'[p] = files[p],
         files' # files => op.pc \in {"write", "swap"} /\ op.todo # << >>
  PROVE  Project!Next
<1>1. op.kind \in {"commit", "recover", "rollback"} /\ op.pc \notin {"journal", "journalSwap"}
  BY DecidingWorks
<1>2. op.m \in Mutation /\ Claimed(op.m)
  BY <1>1, HandClaims
<1>3. op.kind = "commit" => journals[op.m] # NoJournal
  BY <1>1 DEF StepsInv, CommitSteps, NoJournal, Deciding, AtWork
<1>4. \A m \in Mutation : Standing(m)' = Standing(m)
  BY <1>1, <1>3 DEF Standing, At
<1>5. \A p \in Path : files'[p] = files[p] \/ p \in WriteSet(op.m)
  <2>1. CASE files' = files
    BY <2>1
  <2>2. CASE files' # files
    <3>1. Target \in WriteSet(op.m)
      BY <2>2, WriteFacts
    <3> QED
      BY <2>2, <3>1
  <2> QED
    BY <2>1, <2>2
<1> QED
  BY <1>2, <1>4, <1>5, GoingOnRefines

\* What the three ways to go on do to the operation.
LEMMA GoingOn ==
  ASSUME StepsInv,
         \/ \E pc : pc # "journalSwap" /\ Goto(pc)
         \/ \E journal : Record(journal)
         \/ \E todo, then, onfail : WriteAll(todo, then, onfail)
  PROVE  op'.kind = op.kind /\ op'.m = op.m /\ op'.pc # "journalSwap"
<1>1. CASE \E pc : pc # "journalSwap" /\ Goto(pc)
  BY <1>1 DEF Goto, StepsInv, AloneInv, Shape
<1>2. CASE \E journal : Record(journal)
  BY <1>2 DEF Record, StepsInv, AloneInv, Shape
<1>3. CASE \E todo, then, onfail : WriteAll(todo, then, onfail)
  BY <1>3 DEF WriteAll, StepsInv, AloneInv, Shape
<1> QED
  BY <1>1, <1>2, <1>3

\* Decisions.
LEMMA DecisionsRefine ==
  ASSUME StepsInv, StepsInv', ProjectInv, ProjectInv', op.kind # "save",
         \/ Apply \/ OperationApplied \/ Verify \/ Inventory \/ Compensate \/ RollBack
         \/ Classify \/ Recheck \/ Finalize
  PROVE  Project!Next
<1>1. UNCHANGED <<files, journals, torn>>
  BY DEF Apply, OperationApplied, Verify, Inventory, Compensate, RollBack, Classify, Recheck,
         Finalize, disk, history
<1>2. op.pc \in Deciding
  BY DEF Apply, OperationApplied, Verify, Inventory, Compensate, RollBack, Classify, Recheck,
         Finalize, At, Deciding, AtWork
<1>3. op'.kind = op.kind /\ op'.m = op.m /\ op'.pc # "journalSwap"
  <2>1. CASE OperationApplied
    BY <2>1 DEF OperationApplied, StepsInv, AloneInv, Shape
  <2>2. CASE Apply
    BY <2>2, GoingOn DEF Apply
  <2>3. CASE Verify
    BY <2>3, GoingOn DEF Verify, RequireRecovery
  <2>4. CASE Inventory
    BY <2>4, GoingOn DEF Inventory
  <2>5. CASE Compensate
    BY <2>5, GoingOn DEF Compensate, RequireRecovery, Restore
  <2>6. CASE RollBack
    BY <2>6, GoingOn DEF RollBack
  <2>7. CASE Recheck
    BY <2>7, GoingOn DEF Recheck, RequireRecovery, Restore
  <2>8. CASE Finalize
    BY <2>8, GoingOn DEF Finalize, RequireRecovery, Restore
  <2>9. CASE Classify
    <3>1. CASE RequireRecovery \/ Record([op.journal EXCEPT !.state = "Aborted"])
      BY <3>1, GoingOn DEF RequireRecovery
    <3>2. CASE \E todo \in Restoring(ExactAfter, Before) :
                 op' = [op EXCEPT !.todo = todo, !.all = (ExactAfter = WriteSet(op.m)),
                                  !.then = "recheck", !.onfail = "mark", !.pc = "write"]
      BY <3>2 DEF StepsInv, AloneInv, Shape
    <3> QED
      BY <2>9, <3>1, <3>2 DEF Classify
  <2> QED
    BY <2>1, <2>2, <2>3, <2>4, <2>5, <2>6, <2>7, <2>8, <2>9
<1>4. files' \in Contents
  BY DEF ProjectInv, ProjectTyped
<1> QED
  BY <1>1, <1>2, <1>3, <1>4, DecisionShape

\* Writes of an operation that has a mutation in hand.
LEMMA WritesRefine ==
  ASSUME StepsInv, StepsInv', ProjectInv, ProjectInv', op.kind # "save",
         \/ WritesDone \/ FileAway \/ FileIn
         \/ FileFails /\ op.onfail # "end"
  PROVE  Project!Next
<1>1. UNCHANGED <<journals, torn>> /\ op.pc \in {"write", "swap"}
  BY DEF WritesDone, FileAway, FileIn, FileFails, OnFailure, WriteCutOff, disk, history, At
<1>2. op.pc \in Deciding
  BY <1>1 DEF Deciding, AtWork
<1>3. op'.kind = op.kind /\ op'.m = op.m /\ op'.pc # "journalSwap"
  <2>0. op.then # "journalSwap" /\ op.onfail # "journalSwap"
    BY <1>1 DEF StepsInv, AloneInv, Kinds, SaveSteps, CommitSteps, RecoverSteps, RollbackSteps
  <2>1. CASE WritesDone
    BY <2>0, <2>1, GoingOn DEF WritesDone
  <2>2. CASE FileAway
    BY <2>2 DEF FileAway, StepsInv, AloneInv, Shape
  <2>3. CASE FileIn
    BY <2>3 DEF FileIn, NextWrite, StepsInv, AloneInv, Shape
  <2>4. CASE FileFails /\ op.onfail # "end"
    BY <2>0, <2>4, GoingOn DEF FileFails, OnFailure, RequireRecovery
  <2> QED
    BY <2>1, <2>2, <2>3, <2>4
<1>5. /\ files' # files => op.todo # << >>
      /\ \A p \in Path : p # Target => files'[p] = files[p]
  <2> files = [p \in Path |-> files[p]]
    BY DEF ProjectInv, ProjectTyped, Contents
  <2>1. CASE WritesDone
    BY <2>1 DEF WritesDone, disk
  <2>2. CASE FileAway
    BY <2>2 DEF FileAway, SetFile
  <2>3. CASE FileIn
    BY <2>3 DEF FileIn, SetFile, ProjectInv, Writing, At
  <2>4. CASE FileFails
    <3>1. WriteCutOff \/ (op.pc = "swap" /\ SetFile(op.kept))
      BY <2>4 DEF FileFails, At
    <3>2. /\ op.todo # << >>
          /\ \/ UNCHANGED files
             \/ \E v \in {Value, op.kept} : files' = [files EXCEPT ![Target] = v]
      BY <3>1, CutOffTyped
    <3> QED
      BY <3>2
  <2> QED
    BY <2>1, <2>2, <2>3, <2>4
<1>4. files' \in Contents
  BY DEF ProjectInv, ProjectTyped
<1> QED
  BY <1>1, <1>2, <1>3, <1>4, <1>5, DecisionShape

\* Steps of a recovery that has no mutation in hand.
LEMMA ScansRefine ==
  ASSUME StepsInv, StepsInv', ProjectInv, Scan \/ (RecoverReceipt /\ Goto("scan") /\ UNCHANGED history)
  PROVE  Project!Next
<1>1. /\ UNCHANGED <<files, journals, torn>> /\ op.kind = "recover"
      /\ op.pc \in {"scan", "receipt"}
  BY DEF Scan, RecoverReceipt, At, disk, history, StepsInv, AloneInv, Kinds
<1>2. op'.kind = op.kind /\ op'.pc # "journalSwap"
  <2>1. CASE Scan
    <3>1. PICK m \in Unresolved :
            op' = [op EXCEPT !.m = m, !.journal = journals[m],
                             !.pc = IF Incomplete(m) THEN "classify" ELSE "receipt"]
      BY <2>1 DEF Scan
    <3> QED
      BY <3>1 DEF StepsInv, AloneInv, Shape
  <2>2. CASE Goto("scan")
    BY <2>2, GoingOn
  <2> QED
    BY <2>1, <2>2
<1>3. \A m \in Mutation : Standing(m)' = Standing(m)
  BY <1>1, <1>2 DEF Standing, At
<1> QED
  BY <1>1, <1>2, <1>3, GoingOnRefines

\* A journal that goes away is still the one that stands.
LEMMA JournalAwayRefines ==
  ASSUME StepsInv, StepsInv', ProjectInv, JournalAway
  PROVE  Project!Next
<1>1. /\ op.pc = "journal" /\ op'.pc = "journalSwap"
      /\ op'.kind = op.kind /\ op'.m = op.m /\ op'.prior = journals[op.m]
      /\ UNCHANGED <<files, torn>> /\ journals[op.m] # NoJournal
      /\ journals' = [journals EXCEPT ![op.m] = NoJournal]
  BY DEF JournalAway, StepsInv, AloneInv, Shape, At, history
<1>2. \A m \in Mutation : m # op.m => journals'[m] = journals[m]
  BY <1>1 DEF StepsInv, AloneInv, Shape
<1>3. \A m \in Mutation : Standing(m)' = Standing(m)
  BY <1>1, <1>2 DEF Standing, At
<1>4. op.kind # "save"
  BY <1>1 DEF StepsInv, AloneInv, SaveSteps
<1> QED
  BY <1>1, <1>3, <1>4, GoingOnRefines

\* A journal is written: the mutation in hand stays claimed, has happened, has
\* not, or is undone.
LEMMA JournalInRefines ==
  ASSUME StepsInv, StepsInv', ProjectInv, JournalIn
  PROVE  Project!Next
<1>1. /\ op.pc \in {"journal", "journalSwap"} /\ UNCHANGED <<files, torn>>
      /\ op.kind \in {"commit", "recover", "rollback"}
      /\ op'.kind = op.kind /\ op'.m = op.m
      /\ \A m \in Mutation : Standing(m)' = IF m = op.m THEN op.journal ELSE Standing(m)
  BY JournalInFacts
<1>2. /\ op.m \in Mutation /\ Claimed(op.m)
      /\ op.kind # "rollback" => Undecided(op.m)
      /\ op.kind = "rollback" => Undoing(op.m)
  BY <1>1, HandClaims
<1>3. op.journal.seen = Standing(op.m).seen /\ Before \in Contents
  BY <1>1, HandClaims DEF ProjectInv, JournalInHand
<1>4. \A n \in Mutation \ {op.m} :
        /\ InEffect(n)' <=> InEffect(n)
        /\ InEffect(n) => Standing(n)'.seen = Standing(n).seen
  BY <1>1 DEF InEffect
<1>5. \A n \in Mutation \ {op.m} : ~Claimed(n) /\ ~Undecided(n)' /\ ~Undoing(n)'
  <2> TAKE n \in Mutation \ {op.m}
  <2>1. ~Claimed(n)
    BY <1>2, OneHasAClaim DEF OneClaim
  <2>2. Standing(n)' = Standing(n)
    BY <1>1
  <2>3. ~Undecided(n)'
    BY <2>1, <2>2 DEF Claimed, Undecided
  <2>4. ~Undoing(n)'
    BY <1>1, <2>1, <2>2 DEF Claimed, Undoing, InEffect
  <2> QED
    BY <2>1, <2>3, <2>4
<1>6. Standing(op.m)' = op.journal
  BY <1>1, <1>2
<1>7. \A p \in Path : Shown(p)' \in {Shown(p), External}
  BY <1>1 DEF Shown
<1>8. ReadyFor(op.journal.state)
  BY <1>1 DEF ProjectInv, Progress
<1>9. /\ op.journal.state \in {"Prepared", "Applying", "Committed", "Aborted", "RolledBack",
                              "RecoveryRequired"}
      /\ op.kind # "rollback" => (op.journal.after = NoRevision <=> op.journal.state # "Committed")
      /\ op.kind = "rollback" => op.journal.after # NoRevision
      /\ op.kind = "rollback" => op.journal.state \in {"RecoveryRequired", "RolledBack"}
  BY <1>1 DEF ProjectInv, JournalInHand, StepsInv, RollbackSteps
<1>10. CASE op.journal.state \in {"Prepared", "Applying", "RecoveryRequired"}
  <2>1. /\ Undecided(op.m)' <=> Undecided(op.m)
        /\ InEffect(op.m)' <=> InEffect(op.m)
        /\ Undoing(op.m)' <=> Undoing(op.m)
    <3>1. CASE op.kind = "rollback"
      <4>1. ~Undecided(op.m) /\ InEffect(op.m)
        BY <1>2, <3>1 DEF Undecided, Undoing, InEffect
      <4>2. ~Undecided(op.m)' /\ InEffect(op.m)' /\ Undoing(op.m)'
        BY <1>1, <1>6, <1>9, <1>10, <3>1 DEF Undecided, Undoing, InEffect
      <4> QED
        BY <1>2, <3>1, <4>1, <4>2
    <3>2. CASE op.kind # "rollback"
      <4>1. ~InEffect(op.m) /\ ~Undoing(op.m)
        BY <1>2, <3>2 DEF Undecided, Undoing, InEffect
      <4>2. Undecided(op.m)' /\ ~InEffect(op.m)' /\ ~Undoing(op.m)'
        BY <1>6, <1>9, <1>10, <3>2 DEF Undecided, Undoing, InEffect
      <4> QED
        BY <1>2, <3>2, <4>1, <4>2
    <3> QED
      BY <3>1, <3>2
  <2>2. Standing(op.m)'.seen = Standing(op.m).seen
    BY <1>3, <1>6
  <2>3. SameEffects
    BY <1>1, <1>4, <2>1, <2>2 DEF SameEffects
  <2>4. \A m \in Mutation : /\ Undecided(m)' <=> Undecided(m)
                            /\ Undoing(m)' <=> Undoing(m)
                            /\ Claimed(m) => Standing(m)'.seen = Standing(m).seen
    BY <1>1, <1>5, <2>1, <2>2 DEF Claimed
  <2> QED
    BY <1>1, <1>7, <2>3, <2>4, ClaimsStay DEF Project!Next
<1>11. CASE op.journal.state \in {"Committed", "Aborted", "RolledBack"}
  <2>1. op.journal.state # "Committed" => ~Undecided(op.m)' /\ ~Undoing(op.m)'
    BY <1>6, <1>11 DEF Undecided, Undoing, InEffect
  <2>2. op.journal.state = "Committed" => ~Undecided(op.m)' /\ ~Undoing(op.m)'
    BY <1>1, <1>6, <1>9 DEF Undecided, Undoing, InEffect
  <2>3. Free'
    BY <1>1, <1>5, <2>1, <2>2 DEF Free, Claimed
  <2>4. op.kind # "save" /\ op'.kind # "save"
    BY <1>1
  <2>5. CASE op.journal.state = "Committed"
    <3>1. Undecided(op.m)
      BY <1>2, <1>9, <2>5
    <3>2. Kept(WriteSet(op.m), Outcome(op.m, Before)) /\ Kept(Path \ WriteSet(op.m), Before)
      BY <1>8, <2>5 DEF ReadyFor, After
    <3>3. Before = Standing(op.m).seen.files /\ Standing(op.m)'.seen.files = Before
      BY <1>3, <1>6 DEF Before
    <3>4. Project!Commit(op.m)
      BY <1>1, <1>2, <1>3, <1>4, <2>3, <2>4, <3>1, <3>2, <3>3, Happened
    <3> QED
      BY <1>2, <3>4 DEF Project!Next
  <2>6. CASE op.journal.state \in {"Aborted", "RolledBack"} /\ op.kind # "rollback"
    <3>1. Undecided(op.m)
      BY <1>2, <2>6
    <3>2. Kept(WriteSet(op.m), Standing(op.m).seen.files)
      BY <1>3, <1>8, <2>6 DEF ReadyFor, Before
    <3>3. ~InEffect(op.m) /\ ~InEffect(op.m)'
      BY <1>6, <2>6, <3>1 DEF Undecided, InEffect
    <3>4. SameEffects
      BY <1>1, <1>4, <3>3 DEF SameEffects
    <3> QED
      BY <1>1, <1>2, <2>3, <2>4, <3>1, <3>2, <3>4, NotHappened DEF Project!Next
  <2>7. CASE op.journal.state = "RolledBack" /\ op.kind = "rollback"
    <3>1. Undoing(op.m)
      BY <1>2, <2>7
    <3>2. Kept(Path, Before)
      BY <1>8, <2>7 DEF ReadyFor
    <3>3. ~InEffect(op.m)'
      BY <1>6, <2>7 DEF InEffect
    <3>4. Before = Standing(op.m).seen.files
      BY <1>3 DEF Before
    <3>5. Project!Undo(op.m)
      BY <1>1, <1>2, <1>3, <1>4, <2>3, <2>4, <3>1, <3>2, <3>3, <3>4, Undone
    <3> QED
      BY <1>2, <3>5 DEF Project!Next
  <2> QED
    BY <1>9, <1>11, <2>5, <2>6, <2>7
<1> QED
  BY <1>9, <1>10, <1>11

-----------------------------------------------------------------------------
(* The end of an operation *)

\* An operation that ends beside a save: every journal is what stood.
LEMMA EndSame ==
  ASSUME StepsInv, StepsInv', ProjectInv, End, ~torn', op.kind # "save",
         \A m \in Mutation : journals'[m] = Standing(m),
         \A p \in Path : \/ files'[p] = files[p]
                         \/ op.pc \in {"write", "swap"} /\ op.todo # << >> /\ p = Target
  PROVE  Project!Next
<1>1. op' = NoOp /\ op'.kind = "none" /\ op'.pc = "idle" /\ UNCHANGED torn /\ ~HalfRolledBack
  BY DEF End, EndsTorn, NoOp, ProjectInv, ProjectTyped
<1>2. \A m \in Mutation : Standing(m)' = journals'[m]
  BY <1>1 DEF Standing, At
<1>3. \A m \in Mutation : Standing(m)' = Standing(m)
  BY <1>2
<1>4. \A p \in Path : files'[p] # files[p] =>
        op.m \in Mutation /\ Claimed(op.m) /\ p \in WriteSet(op.m)
  <2> SUFFICES ASSUME NEW p \in Path, files'[p] # files[p]
               PROVE  op.m \in Mutation /\ Claimed(op.m) /\ p \in WriteSet(op.m)
    OBVIOUS
  <2>1. op.pc \in {"write", "swap"} /\ op.todo # << >> /\ p = Target
    OBVIOUS
  <2>2. op.kind \in {"commit", "recover", "rollback"} /\ op.pc \in Deciding
    BY <2>1 DEF StepsInv, AloneInv, Kinds, Deciding, AtWork
  <2> QED
    BY <2>1, <2>2, WriteFacts, HandClaims
<1>5. \A m \in Mutation : (Undecided(m)' <=> Undecided(m)) /\ (InEffect(m)' <=> InEffect(m))
  BY <1>3 DEF Undecided, InEffect
<1>6. SameEffects
  BY <1>3, <1>5 DEF SameEffects
<1>7. CASE op.kind = "rollback" /\ Standing(op.m).state = "Committed"
  <2>1. op.m \in Mutation
    BY <1>7 DEF StepsInv, RollbackSteps
  <2>2. Undoing(op.m) /\ Claimed(op.m)
    BY <1>7 DEF Undoing, InEffect, Claimed
  <2>3. Free'
    <3> SUFFICES ASSUME NEW n \in Mutation PROVE ~Undecided(n)' /\ ~Undoing(n)'
      BY DEF Free, Claimed
    <3>1. CASE n = op.m
      BY <1>1, <1>3, <1>7, <3>1 DEF Undecided, Undoing
    <3>2. CASE n # op.m
      <4>1. ~Claimed(n)
        BY <2>1, <2>2, <3>2, OneHasAClaim DEF OneClaim
      <4> QED
        BY <1>1, <1>3, <1>5, <4>1 DEF Claimed, Undoing
    <3> QED
      BY <3>1, <3>2
  <2>4. op'.kind # "save"
    BY <1>1
  <2>5. /\ \A p \in Path : Content'[p] = files'[p]
        /\ \A p \in Path \ WriteSet(op.m) : Content[p] = files[p]
    BY <2>1, <2>2, <2>3, <2>4, Released
  <2>6. ASSUME NEW p \in WriteSet(op.m) PROVE p \in Path /\ Content[p] = After[p]
    <3>1. p \in Path /\ Content[p] = Outcome(op.m, Standing(op.m).seen.files)[p]
      BY <2>1, <2>2, ContentFollows, PathsOfMutation DEF ContentAsClaimed
    <3>2. Working
      BY <1>7 DEF Working
    <3>3. Standing(op.m).seen.files = Before
      BY <3>2 DEF ProjectInv, JournalInHand, Before
    <3> QED
      BY <3>1, <3>3 DEF After
  <2>7. ASSUME NEW p \in WriteSet(op.m) PROVE files'[p] \in {After[p], External}
    <3>1. journals'[op.m].state = "Committed"
      BY <1>7, <2>1
    <3> QED
      BY <1>1, <1>7, <3>1 DEF HalfRolledBack
  <2>8. \A p \in Path : Content'[p] \in {Content[p], External}
    <3> TAKE p \in Path
    <3>1. CASE p \in WriteSet(op.m)
      BY <2>5, <2>6, <2>7, <3>1
    <3>2. CASE p \notin WriteSet(op.m)
      BY <1>4, <2>5, <3>2
    <3> QED
      BY <3>1, <3>2
  <2> QED
    BY <1>1, <1>6, <2>8, SameLog DEF Project!Next, Project!Outsiders, Project!Overwritten
<1>8. CASE ~(op.kind = "rollback" /\ Standing(op.m).state = "Committed")
  <2>1. \A m \in Mutation : Undoing(m)' <=> Undoing(m)
    <3> SUFFICES ASSUME NEW m \in Mutation PROVE Undoing(m)' <=> Undoing(m)
      OBVIOUS
    <3>1. CASE op.kind = "rollback" /\ op.m = m
      BY <1>1, <1>3, <1>5, <1>8, <3>1 DEF Undoing, InEffect
    <3>2. CASE ~(op.kind = "rollback" /\ op.m = m)
      BY <1>1, <1>3, <1>5, <3>2 DEF Undoing
    <3> QED
      BY <3>1, <3>2
  <2>2. \A p \in Path : Shown(p) = files[p] /\ Shown(p)' = files'[p]
    BY <1>1 DEF Shown
  <2>3. \A p \in Path : \/ Shown(p)' \in {Shown(p), External}
                        \/ \E m \in Mutation : Claimed(m) /\ p \in WriteSet(m)
    BY <1>4, <2>2
  <2>4. \A m \in Mutation : /\ Undecided(m)' <=> Undecided(m)
                            /\ Undoing(m)' <=> Undoing(m)
                            /\ Claimed(m) => Standing(m)'.seen = Standing(m).seen
    BY <1>3, <1>5, <2>1
  <2> QED
    BY <1>1, <1>6, <2>3, <2>4, ClaimsStay DEF Project!Next
<1> QED
  BY <1>7, <1>8

\* An operation that ends with its journal lost: nobody will ever decide again.
LEMMA EndLost ==
  ASSUME StepsInv, StepsInv', ProjectInv, End, ~torn', op.pc \in {"journal", "journalSwap"},
         UNCHANGED files, journals'[op.m] = NoJournal,
         \A m \in Mutation : m # op.m => journals'[m] = Standing(m)
  PROVE  Project!Next
<1>1. op' = NoOp /\ op'.kind = "none" /\ op'.pc = "idle" /\ UNCHANGED torn
      /\ op.journal.state # "RecoveryRequired"
  BY DEF End, EndsTorn, NoOp, ProjectInv, ProjectTyped, LostRecord
<1>2. op.kind \in {"commit", "recover", "rollback"} /\ op.kind # "save" /\ op'.kind # "save"
  BY <1>1 DEF StepsInv, AloneInv, Kinds, SaveSteps
<1>3. /\ op.m \in Mutation /\ Claimed(op.m) /\ Working
      /\ op.kind # "rollback" => Undecided(op.m)
      /\ op.kind = "rollback" => Undoing(op.m)
  BY <1>2, HandClaims
<1>4. op.journal.seen = Standing(op.m).seen /\ Before \in Contents
  BY <1>3 DEF ProjectInv, JournalInHand
<1>5. \A m \in Mutation : Standing(m)' = IF m = op.m THEN NoJournal ELSE Standing(m)
  BY <1>1 DEF Standing, At
<1>6. \A n \in Mutation \ {op.m} :
        /\ InEffect(n)' <=> InEffect(n)
        /\ InEffect(n) => Standing(n)'.seen = Standing(n).seen
  BY <1>5 DEF InEffect
<1>7. \A n \in Mutation : n = op.m => ~InEffect(n)' /\ ~Undecided(n)' /\ ~Undoing(n)'
  BY <1>5 DEF InEffect, Undecided, Undoing, NoJournal
<1>8. Free'
  <2> SUFFICES ASSUME NEW n \in Mutation PROVE ~Undecided(n)' /\ ~Undoing(n)'
    BY DEF Free, Claimed
  <2>1. CASE n # op.m
    <3>1. ~Claimed(n)
      BY <1>3, <2>1, OneHasAClaim DEF OneClaim
    <3> QED
      BY <1>1, <1>5, <2>1, <3>1 DEF Claimed, Undecided, Undoing, InEffect
  <2> QED
    BY <1>7, <2>1
<1>9. ReadyFor(op.journal.state)
  BY DEF ProjectInv, Progress
<1>10. /\ op.journal.state \in {"Prepared", "Applying", "Committed", "Aborted", "RolledBack"}
       /\ op.kind = "rollback" => op.journal.state = "RolledBack"
  BY <1>1 DEF ProjectInv, JournalInHand, StepsInv, RollbackSteps
<1>11. Before = Standing(op.m).seen.files
  BY <1>4 DEF Before
<1>12. CASE op.journal.state = "Committed"
  <2>1. Undecided(op.m)
    BY <1>3, <1>10, <1>12
  <2>2. Kept(WriteSet(op.m), Outcome(op.m, Before)) /\ Kept(Path \ WriteSet(op.m), Before)
    BY <1>9, <1>12 DEF ReadyFor, After
  <2> DEFINE m == op.m
             before == Before
  <2>3. m \in Mutation /\ before \in Contents /\ before = Standing(m).seen.files /\ Undecided(m)
        /\ Kept(WriteSet(m), Outcome(m, before)) /\ Kept(Path \ WriteSet(m), before)
    BY <1>3, <1>4, <1>11, <2>1, <2>2
  <2>4. \A n \in Mutation : n = m => ~InEffect(n)'
    BY <1>7
  <2>5. \A n \in Mutation \ {m} : /\ InEffect(n)' <=> InEffect(n)
                                  /\ InEffect(n) => Standing(n)'.seen = Standing(n).seen
    BY <1>6
  <2> HIDE DEF m, before
  <2>6. Project!Commit(m)
    <3>1. PICK n \in Mutation : n = m
      BY <2>3
    <3>2. ~InEffect(n)'
      BY <2>4, <3>1
    <3>3. Project!Commit(n)
      BY <1>1, <1>2, <1>8, <2>3, <2>5, <3>1, <3>2, Happened
    <3> QED
      BY <3>1, <3>3
  <2> QED
    BY <2>3, <2>6 DEF Project!Next
<1>13. CASE op.journal.state # "Committed" /\ op.kind # "rollback"
  <2>1. Undecided(op.m) /\ ~InEffect(op.m)
    BY <1>3, <1>13 DEF Undecided, InEffect
  <2>2. Kept(WriteSet(op.m), Standing(op.m).seen.files)
    BY <1>9, <1>10, <1>11, <1>13 DEF ReadyFor
  <2>3. SameEffects
    BY <1>6, <1>7, <2>1 DEF SameEffects
  <2> QED
    BY <1>1, <1>2, <1>3, <1>8, <2>1, <2>2, <2>3, NotHappened DEF Project!Next
<1>14. CASE op.kind = "rollback"
  <2>1. Kept(Path, Before)
    BY <1>9, <1>10, <1>14 DEF ReadyFor
  <2>2. PICK n \in Mutation : n = op.m
    BY <1>3
  <2>3. Undoing(n) /\ ~InEffect(n)' /\ Before = Standing(n).seen.files
    BY <1>3, <1>7, <1>11, <1>14, <2>2
  <2>4. Project!Undo(n)
    BY <1>1, <1>2, <1>4, <1>6, <1>8, <2>1, <2>2, <2>3, Undone
  <2> QED
    BY <2>4 DEF Project!Next
<1> QED
  BY <1>10, <1>12, <1>13, <1>14

-----------------------------------------------------------------------------
(* The save of a document *)

\* Its two renames show the document at once; before them nothing has changed,
\* and a failure after the first shows the old file or the new one.
LEMMA SaveRefines ==
  ASSUME StepsInv, StepsInv', ProjectInv, op.kind = "save", op'.kind \in {"save", "none"},
         op'.pc # "journalSwap", UNCHANGED <<journals, torn>>,
         \/ \A p \in Path : Shown(p)' \in {Shown(p), External}
         \/ \E p \in Path : Shown(p)' = Saved /\ \A q \in Path : q # p => Shown(q)' = Shown(q)
  PROVE  Project!Next
<1>1. \A m \in Mutation : Standing(m)' = Standing(m)
  <2>1. op.pc # "journalSwap"
    BY DEF StepsInv, AloneInv, SaveSteps
  <2> QED
    BY <2>1 DEF Standing, At
<1>2. /\ SameEffects
      /\ \A m \in Mutation : /\ Undecided(m)' <=> Undecided(m)
                             /\ Undoing(m)' <=> Undoing(m)
                             /\ Claimed(m) => Standing(m)'.seen = Standing(m).seen
  BY <1>1, StandingStays
<1>3. CASE \A p \in Path : Shown(p)' \in {Shown(p), External}
  BY <1>2, <1>3, ClaimsStay DEF Project!Next
<1>4. ASSUME NEW p \in Path, Shown(p)' = Saved, \A q \in Path : q # p => Shown(q)' = Shown(q)
      PROVE  Project!Next
  BY <1>2, <1>4, SaveShown
<1> QED
  BY <1>3, <1>4

\* The end of a save.
LEMMA EndSave ==
  ASSUME StepsInv, StepsInv', ProjectInv, End, ~torn', op.kind = "save", UNCHANGED journals,
         \/ UNCHANGED files
         \/ op.pc = "swap" /\ \E v \in {Value, op.kept} : files' = [files EXCEPT ![Target] = v]
  PROVE  Project!Next
<1>1. op'.kind = "none" /\ op'.pc = "idle" /\ UNCHANGED torn /\ ~LostDocument
  BY DEF End, EndsTorn, NoOp, ProjectInv, ProjectTyped
<1>2. \A p \in Path : /\ Shown(p)' = files'[p]
                      /\ Shown(p) = IF op.pc = "swap" /\ p = Target THEN op.kept ELSE files[p]
  BY <1>1 DEF Shown, At
<1>3. op.pc = "swap" => /\ Target \in Path /\ Value = Saved
                        /\ files[Target] \in {Missing, External}
                        /\ files'[Target] # Missing
  <2>1. op.pc = "swap" => Target \in Path /\ Value = Saved
    BY WriteFacts DEF ProjectInv, Writing
  <2> QED
    BY <1>1, <2>1 DEF LostDocument, At, ProjectInv, Progress
<1>4. files = [p \in Path |-> files[p]]
  BY DEF ProjectInv, ProjectTyped, Contents
<1>5. \/ \A p \in Path : Shown(p)' \in {Shown(p), External}
      \/ \E p \in Path : Shown(p)' = Saved /\ \A q \in Path : q # p => Shown(q)' = Shown(q)
  <2>1. CASE UNCHANGED files
    BY <1>2, <1>3, <2>1
  <2>2. CASE op.pc = "swap" /\ files' = [files EXCEPT ![Target] = Value]
    <3>1. files'[Target] = Saved /\ \A q \in Path : q # Target => files'[q] = files[q]
      BY <1>3, <1>4, <2>2
    <3>2. PICK p \in Path : p = Target
      BY <1>3, <2>2
    <3>3. Shown(p)' = Saved /\ \A q \in Path : q # p => Shown(q)' = Shown(q)
      BY <1>2, <3>1, <3>2
    <3> QED
      BY <3>3
  <2>3. CASE op.pc = "swap" /\ files' = [files EXCEPT ![Target] = op.kept]
    BY <1>2, <1>3, <1>4, <2>3
  <2> QED
    BY <2>1, <2>2, <2>3
<1> QED
  BY <1>1, <1>5, SaveRefines

\* A save goes on.
LEMMA SaveGoesOn ==
  ASSUME StepsInv, StepsInv', ProjectInv, op.kind = "save", WritesDone \/ FileAway \/ FileIn
  PROVE  Project!Next
<1>1. /\ op'.kind = "save" /\ UNCHANGED <<journals, torn>> /\ op.pc \in {"write", "swap"}
  BY DEF WritesDone, FileAway, FileIn, NextWrite, Goto, At, StepsInv, AloneInv, Shape, disk, history
<1>2. files = [p \in Path |-> files[p]]
  BY DEF ProjectInv, ProjectTyped, Contents
<1>3. \A p \in Path :
        Shown(p) = IF op.pc = "swap" /\ p = Target THEN op.kept ELSE files[p]
  BY DEF Shown, At
<1>4. CASE WritesDone
  <2>1. op.pc = "write" /\ op'.pc = "saved" /\ UNCHANGED files
    BY <1>4 DEF WritesDone, Goto, At, StepsInv, AloneInv, Shape, SaveSteps, disk
  <2>2. \A p \in Path : Shown(p)' \in {Shown(p), External}
    BY <1>3, <2>1 DEF Shown, At
  <2>3. op'.pc # "journalSwap"
    BY <2>1
  <2> QED
    BY <1>1, <2>2, <2>3, SaveRefines
<1>5. CASE FileAway
  <2>1. /\ op.pc = "write" /\ op.todo # << >> /\ op'.pc = "swap" /\ op'.kept = files[Target]
        /\ op'.todo = op.todo /\ files' = [files EXCEPT ![Target] = Missing]
    BY <1>5 DEF FileAway, SetFile, At, StepsInv, AloneInv, Shape
  <2>2. Target \in Path /\ Target' = Target
    BY <2>1, WriteFacts DEF Target
  <2>3. \A p \in Path : Shown(p)' = IF p = Target THEN op'.kept ELSE files'[p]
    BY <1>1, <2>1, <2>2 DEF Shown, At
  <2>4. \A p \in Path : Shown(p)' \in {Shown(p), External}
    BY <1>2, <1>3, <2>1, <2>2, <2>3
  <2>5. op'.pc # "journalSwap"
    BY <2>1
  <2> QED
    BY <1>1, <2>4, <2>5, SaveRefines
<1>6. CASE FileIn
  <2>1. /\ op.todo # << >> /\ op'.pc = "write" /\ files' = [files EXCEPT ![Target] = Value]
    BY <1>6 DEF FileIn, NextWrite, SetFile, At, StepsInv, AloneInv, Shape, ProjectInv, Writing
  <2>2. Target \in Path /\ Value = Saved
    BY <1>1, <2>1, WriteFacts
  <2>3. \A p \in Path : Shown(p)' = files'[p]
    BY <2>1 DEF Shown, At
  <2>4. PICK p \in Path : p = Target
    BY <2>2
  <2>5. Shown(p)' = Saved /\ \A q \in Path : q # p => Shown(q)' = Shown(q)
    BY <1>2, <1>3, <2>1, <2>2, <2>3, <2>4
  <2>6. op'.pc # "journalSwap"
    BY <2>1
  <2> QED
    BY <1>1, <2>5, <2>6, SaveRefines
<1> QED
  BY <1>4, <1>5, <1>6

-----------------------------------------------------------------------------
(* Every step is one of the abstract project, or tears it *)

\* The end of an operation that is not writing a journal.
LEMMA EndsRefine ==
  ASSUME StepsInv, StepsInv', ProjectInv, End, ~torn', UNCHANGED journals,
         op.pc \notin {"journal", "journalSwap"},
         \/ UNCHANGED files
         \/ WriteCutOff
         \/ op.pc = "swap" /\ SetFile(op.kept)
  PROVE  Project!Next
<1>1. \/ UNCHANGED files
      \/ op.pc = "swap" /\ op.todo # << >>
         /\ \E v \in {Value, op.kept} : files' = [files EXCEPT ![Target] = v]
  BY CutOffTyped
<1>2. CASE op.kind = "save"
  BY <1>1, <1>2, EndSave
<1>3. CASE op.kind # "save"
  <2>1. \A m \in Mutation : journals'[m] = Standing(m)
    BY RestsOnDisk DEF StandingOnDisk
  <2>2. \A p \in Path : \/ files'[p] = files[p]
                        \/ op.pc \in {"write", "swap"} /\ op.todo # << >> /\ p = Target
    BY <1>1 DEF ProjectInv, ProjectTyped, Contents
  <2> QED
    BY <1>3, <2>1, <2>2, EndSame
<1> QED
  BY <1>2, <1>3

\* The end of one that is.
LEMMA JournalEndRefines ==
  ASSUME StepsInv, StepsInv', ProjectInv, End, ~torn', UNCHANGED files,
         \/ op.pc \in {"journal", "journalSwap"} /\ UNCHANGED journals
         \/ op.pc = "journalSwap" /\ journals' = [journals EXCEPT ![op.m] = op.prior]
  PROVE  Project!Next
<1>1. op.kind # "save"
  BY DEF StepsInv, AloneInv, SaveSteps
<1>2. \A m \in Mutation : m # op.m => journals'[m] = Standing(m)
  BY OthersOnDisk DEF StepsInv, AloneInv, Shape
<1>3. CASE op.pc = "journal" /\ UNCHANGED journals /\ op.kind = "commit"
           /\ journals[op.m] = NoJournal
  BY <1>2, <1>3, EndLost
<1>4. CASE op.pc = "journal" /\ UNCHANGED journals
           /\ ~(op.kind = "commit" /\ journals[op.m] = NoJournal)
  <2>1. \A m \in Mutation : journals'[m] = Standing(m)
    BY <1>4 DEF Standing, At
  <2> QED
    BY <1>1, <2>1, EndSame
<1>5. CASE op.pc = "journalSwap" /\ UNCHANGED journals
  <2>1. journals'[op.m] = NoJournal
    BY <1>5 DEF StepsInv, AloneInv, Kinds, SaveSteps, CommitSteps, RecoverSteps, RollbackSteps
  <2> QED
    BY <1>2, <1>5, <2>1, EndLost
<1>6. CASE op.pc = "journalSwap" /\ journals' = [journals EXCEPT ![op.m] = op.prior]
  <2>1. \A m \in Mutation : journals'[m] = Standing(m)
    BY <1>2, <1>6 DEF Standing, At, StepsInv, AloneInv, Shape
  <2> QED
    BY <1>1, <2>1, EndSame
<1> QED
  BY <1>3, <1>4, <1>5, <1>6

\* The steps of the operation at work.
LEMMA StepRefines ==
  ASSUME StepsInv, StepsInv', ProjectInv, ProjectInv', OperationStep, ~torn'
  PROVE  Project!Next
<1>1. CASE JournalAway
  BY <1>1, JournalAwayRefines
<1>2. CASE JournalIn
  BY <1>2, JournalInRefines
<1>3. CASE JournalFails
  <2>1. /\ End /\ UNCHANGED files
        /\ \/ op.pc \in {"journal", "journalSwap"} /\ UNCHANGED journals
           \/ op.pc = "journalSwap" /\ journals' = [journals EXCEPT ![op.m] = op.prior]
    BY <1>3 DEF JournalFails, Fail, At
  <2> QED
    BY <2>1, JournalEndRefines
<1>4. CASE WritesDone \/ FileAway \/ FileIn
  BY <1>4, WritesRefine, SaveGoesOn
<1>5. CASE FileFails
  <2>1. CASE op.onfail = "end"
    <3>1. End /\ UNCHANGED journals /\ op.pc \notin {"journal", "journalSwap"}
      BY <1>5, <2>1 DEF FileFails, OnFailure, Fail, WriteCutOff, At
    <3>2. \/ WriteCutOff
          \/ op.pc = "swap" /\ SetFile(op.kept)
      BY <1>5 DEF FileFails, At
    <3> QED
      BY <3>1, <3>2, EndsRefine
  <2>2. CASE op.onfail # "end"
    <3>1. op.kind # "save"
      BY <2>2 DEF StepsInv, AloneInv, SaveSteps
    <3> QED
      BY <1>5, <2>2, <3>1, WritesRefine
  <2> QED
    BY <2>1, <2>2
<1>6. CASE \/ Apply \/ OperationApplied \/ Verify \/ Inventory \/ Compensate \/ RollBack
           \/ Classify \/ Recheck \/ Finalize
  <2>1. op.kind # "save"
    BY <1>6 DEF Apply, OperationApplied, Verify, Inventory, Compensate, RollBack, Classify,
                Recheck, Finalize, At, StepsInv, AloneInv, SaveSteps
  <2> QED
    BY <1>6, <2>1, DecisionsRefine
<1>7. CASE CommitReceipt \/ Recovered \/ RolledBack \/ DocumentSaved \/ Return \/ ReadFails
  <2>1. op.pc \notin {"journal", "journalSwap"} /\ UNCHANGED <<files, journals>> /\ End
    BY <1>7 DEF CommitReceipt, Recovered, RolledBack, DocumentSaved, Return, ReadFails, Fail, At,
                disk
  <2> QED
    BY <2>1, EndsRefine
<1>8. CASE Scan
  BY <1>8, ScansRefine
<1>9. CASE RecoverReceipt
  <2>1. UNCHANGED <<files, journals>> /\ op.pc \notin {"journal", "journalSwap"}
    BY <1>9 DEF RecoverReceipt, At
  <2>2. CASE Revision = op.journal.after /\ Holds(After)
    <3>1. Goto("scan") /\ UNCHANGED history
      BY <1>9, <2>2 DEF RecoverReceipt
    <3> QED
      BY <1>9, <3>1, ScansRefine
  <2>3. CASE ~(Revision = op.journal.after /\ Holds(After))
    <3>1. End
      BY <1>9, <2>3 DEF RecoverReceipt
    <3> QED
      BY <2>1, <3>1, EndsRefine
  <2> QED
    BY <2>2, <2>3
<1>10. CASE Revise
  <2>1. op.pc = "revise" /\ UNCHANGED <<files, journals>>
    BY <1>10 DEF Revise, At, disk
  <2>2. CASE End
    BY <2>1, <2>2, EndsRefine
  <2>3. CASE /\ UNCHANGED history
             /\ \/ Record([op.journal EXCEPT !.state = "RolledBack"])
                \/ \E todo : WriteAll(todo, "end", "end")
    <3>1. op'.kind = op.kind /\ op'.m = op.m /\ op'.pc # "journalSwap"
      BY <2>3, GoingOn
    <3>2. op.kind # "save" /\ op.pc \in Deciding /\ UNCHANGED torn
      BY <2>1, <2>3 DEF StepsInv, AloneInv, SaveSteps, Deciding, AtWork, history
    <3>3. files' \in Contents
      BY DEF ProjectInv, ProjectTyped
    <3> QED
      BY <2>1, <3>1, <3>2, <3>3, DecisionShape
  <2> QED
    BY <1>10, <2>2, <2>3 DEF Revise, Restore
<1>11. CASE Die
  <2>1. End /\ UNCHANGED journals
    BY <1>11 DEF Die
  <2>2. CASE op.pc \in {"journal", "journalSwap"}
    <3>1. UNCHANGED files
      BY <1>11, <2>2 DEF Die, WriteCutOff, At
    <3> QED
      BY <2>1, <2>2, <3>1, JournalEndRefines
  <2>3. CASE op.pc \notin {"journal", "journalSwap"}
    <3>1. UNCHANGED files \/ WriteCutOff
      BY <1>11 DEF Die
    <3> QED
      BY <2>1, <2>3, <3>1, EndsRefine
  <2> QED
    BY <2>2, <2>3
<1> QED
  BY <1>1, <1>2, <1>3, <1>4, <1>5, <1>6, <1>7, <1>8, <1>9, <1>10, <1>11 DEF OperationStep

-----------------------------------------------------------------------------
(* The beginning of an operation, and the steps of others *)

\* A writer begins only when nothing is claimed.
LEMMA NothingClaimed ==
  ASSUME ProjectInv, Idle, ~NonterminalJournal
  PROVE  Free /\ \A p \in Path : Shown(p) = files[p]
<1>1. op.kind = "none" /\ \A m \in Mutation : Standing(m) = journals[m]
  BY AtRest
<1>2. Free
  BY <1>1 DEF NonterminalJournal, Free, Claimed, Undecided, Undoing, Incomplete, Blocked
<1> QED
  BY <1>1, <1>2 DEF Shown

\* It claims what it finds: nothing else comes to be shown.
LEMMA ClaimingRefines ==
  ASSUME StepsInv, StepsInv', ProjectInv, Idle, ~NonterminalJournal, UNCHANGED <<files, torn>>,
         SameEffects, NEW m \in Mutation, op'.kind # "save",
         \A n \in Mutation : n # m => ~Claimed(n)',
         Undecided(m)' => \A p \in WriteSet(m) : Standing(m)'.seen.files[p] = files[p],
         Undoing(m)' => \A p \in WriteSet(m) : Outcome(m, Standing(m)'.seen.files)[p] = files[p]
  PROVE  Project!Next
<1>1. \A p \in Path : Content[p] = files[p]
  BY NothingClaimed, ContentFollows DEF ContentAsClaimed, Free
<1>2. \A p \in Path : Content'[p] = files[p]
  <2> TAKE p \in Path
  <2>1. CASE p \in WriteSet(m) /\ Undecided(m)'
    BY <2>1, ContentBoth DEF ContentAsClaimed
  <2>2. CASE p \in WriteSet(m) /\ Undoing(m)'
    BY <2>2, ContentBoth DEF ContentAsClaimed
  <2>3. CASE p \notin WriteSet(m) \/ ~(Undecided(m)' \/ Undoing(m)')
    <3>1. (\A n \in Mutation : Claimed(n) => p \notin WriteSet(n))'
      BY <2>3 DEF Claimed
    <3>2. Shown(p)' = files'[p]
      BY DEF Shown
    <3> QED
      BY <3>1, <3>2, ContentBoth DEF ContentAsClaimed
  <2> QED
    BY <2>1, <2>2, <2>3
<1> QED
  BY <1>1, <1>2, SameLog DEF Project!Next, Project!Outsiders, Project!Overwritten

\* A commit claims its paths as it finds them.
LEMMA BeginCommitRefines ==
  ASSUME StepsInv, StepsInv', JournalsUsed, ProjectInv,
         NEW c \in Process, NEW m \in Mutation, BeginCommit(c, m)
  PROVE  Project!Next
<1>1. /\ UNCHANGED <<files, journals, torn>> /\ Idle /\ ~NonterminalJournal
      /\ journals[m] = NoJournal
      /\ op' = [NoOp EXCEPT !.kind = "commit", !.by = c, !.m = m, !.pc = "journal",
                            !.journal = Journal("Prepared", Revision, NoRevision)]
  BY DEF BeginCommit, JournalsUsed, history
<1>2. /\ op'.kind = "commit" /\ op'.m = m /\ op'.pc = "journal"
      /\ op'.journal.seen = Revision /\ op'.journal.state = "Prepared"
  BY <1>1 DEF NoOp, Journal
<1>3. \A n \in Mutation : Standing(n) = journals[n]
  BY <1>1, AtRest
<1>4. \A n \in Mutation : Standing(n)' = IF n = m THEN op'.journal ELSE Standing(n)
  BY <1>1, <1>2, <1>3 DEF Standing, At
<1>5. ~InEffect(m) /\ ~InEffect(m)' /\ ~Undoing(m)'
  BY <1>1, <1>2, <1>3, <1>4 DEF InEffect, Undoing, NoJournal
<1>6. SameEffects
  BY <1>4, <1>5 DEF SameEffects, InEffect
<1>7. \A n \in Mutation : n # m => ~Claimed(n)'
  <2>1. Free
    BY <1>1, NothingClaimed
  <2> QED
    BY <1>2, <1>4, <2>1 DEF Free, Claimed, Undecided, Undoing, InEffect
<1>8. \A p \in WriteSet(m) : Standing(m)'.seen.files[p] = files[p]
  BY <1>2, <1>4 DEF Revision
<1>9. op'.kind # "save"
  BY <1>2
<1> QED
  BY <1>1, <1>5, <1>6, <1>7, <1>8, <1>9, ClaimingRefines

\* A rollback claims what its mutation has made.
LEMMA BeginRollbackRefines ==
  ASSUME StepsInv, StepsInv', ProjectInv,
         NEW c \in Process, NEW m \in Mutation, BeginRollback(c, m)
  PROVE  Project!Next
<1>1. PICK todo \in Restoring(WriteSet(m), journals[m].seen.files) :
        op' = [NoOp EXCEPT !.kind = "rollback", !.by = c, !.m = m,
                           !.journal = journals[m], !.todo = todo,
                           !.then = "revise", !.onfail = "mark", !.pc = "write"]
  BY DEF BeginRollback
<1>2. /\ UNCHANGED <<files, journals, torn>> /\ Idle /\ ~NonterminalJournal
      /\ journals[m].state = "Committed"
      /\ \A p \in WriteSet(m) : files[p] = Outcome(m, journals[m].seen.files)[p]
  BY DEF BeginRollback, disk, history
<1>3. op'.kind = "rollback" /\ op'.m = m /\ op'.pc = "write"
  BY <1>1 DEF NoOp
<1>4. \A n \in Mutation : Standing(n)' = journals[n] /\ Standing(n) = journals[n]
  BY <1>2, <1>3, AtRest DEF Standing, At
<1>5. SameEffects
  BY <1>4 DEF SameEffects, InEffect
<1>6. ~Undecided(m)'
  BY <1>2, <1>4 DEF Undecided
<1>7. \A n \in Mutation : n # m => ~Claimed(n)'
  <2>1. Free
    BY <1>2, NothingClaimed
  <2> QED
    BY <1>3, <1>4, <2>1 DEF Free, Claimed, Undecided, Undoing, InEffect
<1>8. \A p \in WriteSet(m) : Outcome(m, Standing(m)'.seen.files)[p] = files[p]
  BY <1>2, <1>4
<1>9. op'.kind # "save"
  BY <1>3
<1> QED
  BY <1>2, <1>5, <1>6, <1>7, <1>8, <1>9, ClaimingRefines

\* Whatever leaves the journals and the claims alone.
LEMMA AsideRefines ==
  ASSUME StepsInv, StepsInv', UNCHANGED torn,
         \A m \in Mutation : Standing(m)' = Standing(m),
         \A m \in Mutation : (op'.kind = "rollback" /\ op'.m = m)
                               <=> (op.kind = "rollback" /\ op.m = m),
         \A p \in Path : Shown(p)' \in {Shown(p), External}
  PROVE  Project!Next
BY StandingStays, ClaimsStay DEF Project!Next

\* Opens, saves, outsiders and contexts.
LEMMA OthersRefine ==
  ASSUME StepsInv, StepsInv', ProjectInv,
         \/ \E c \in Process : Refresh(c) \/ FinishRefresh(c) \/ Close(c) \/ BeginOpen(c)
         \/ \E c \in Process, p \in Document : BeginSave(c, p)
         \/ \E p \in Path : ExternalWrite(p)
         \/ UNCHANGED vars
  PROVE  Project!Next
<1>1. CASE \E c \in Process : BeginOpen(c) \/ \E p \in Document : BeginSave(c, p)
  <2>1. /\ UNCHANGED <<files, journals, torn>> /\ Idle
        /\ op'.kind \in {"recover", "save"} /\ op'.pc \in {"scan", "write"}
    <3>1. ASSUME NEW c \in Process, BeginOpen(c)
          PROVE  /\ UNCHANGED <<files, journals, torn>> /\ Idle
                 /\ op'.kind = "recover" /\ op'.pc = "scan"
      BY <3>1 DEF BeginOpen, disk, history, NoOp
    <3>2. ASSUME NEW c \in Process, NEW p \in Document, BeginSave(c, p)
          PROVE  /\ UNCHANGED <<files, journals, torn>> /\ Idle
                 /\ op'.kind = "save" /\ op'.pc = "write"
      BY <3>2 DEF BeginSave, disk, history, NoOp
    <3> QED
      BY <1>1, <3>1, <3>2
  <2>2. op.kind = "none" /\ \A m \in Mutation : Standing(m) = journals[m]
    BY <2>1, AtRest
  <2>3. \A m \in Mutation : Standing(m)' = Standing(m)
    BY <2>1, <2>2 DEF Standing, At
  <2>4. \A p \in Path : Shown(p)' \in {Shown(p), External}
    BY <2>1, <2>2 DEF Shown, At
  <2> QED
    BY <2>1, <2>2, <2>3, <2>4, AsideRefines
<1>2. CASE UNCHANGED vars \/ \E c \in Process : Refresh(c) \/ FinishRefresh(c) \/ Close(c)
  <2>1. UNCHANGED <<files, journals, op, torn>>
    BY <1>2 DEF Refresh, FinishRefresh, Close, vars, disk, history
  <2>2. \A m \in Mutation : Standing(m)' = Standing(m)
    BY <2>1 DEF Standing, At
  <2>3. \A p \in Path : Shown(p)' \in {Shown(p), External}
    BY <2>1 DEF Shown, At, Target
  <2> QED
    BY <2>1, <2>2, <2>3, AsideRefines
<1>3. CASE \E p \in Path : ExternalWrite(p)
  <2>1. PICK p \in Path : ExternalWrite(p)
    BY <1>3
  <2>2. UNCHANGED <<journals, op, torn>> /\ files' = [files EXCEPT ![p] = External]
    BY <2>1 DEF ExternalWrite
  <2>3. \A m \in Mutation : Standing(m)' = Standing(m)
    BY <2>2 DEF Standing, At
  <2>4. \A q \in Path : files'[q] \in {files[q], External}
    BY <2>2 DEF ProjectInv, ProjectTyped, Contents
  <2>5. \A q \in Path : Shown(q)' \in {Shown(q), External}
    BY <2>2, <2>4 DEF Shown, At, Target
  <2> QED
    BY <2>2, <2>3, <2>5, AsideRefines
<1> QED
  BY <1>1, <1>2, <1>3

\* Every step that does not tear the project is one of the abstract one.
LEMMA NextRefines ==
  ASSUME StepsInv, StepsInv', JournalsUsed, ProjectInv, ProjectInv', [Next]_vars, ~torn'
  PROVE  Project!Next
<1>1. CASE OperationStep
  BY <1>1, StepRefines
<1>2. CASE \E c \in Process, m \in Mutation : BeginCommit(c, m) \/ BeginRollback(c, m)
  BY <1>2, BeginCommitRefines, BeginRollbackRefines
<1>3. CASE \/ \E c \in Process : Refresh(c) \/ FinishRefresh(c) \/ Close(c) \/ BeginOpen(c)
           \/ \E c \in Process, p \in Document : BeginSave(c, p)
           \/ \E p \in Path : ExternalWrite(p)
           \/ UNCHANGED vars
  BY <1>3, OthersRefine
<1> QED
  BY <1>1, <1>2, <1>3 DEF Next

\* Whatever crashes, fails or is written from outside in between, a mutation
\* happens whole or not at all and a rollback gives back what it was prepared
\* from, in every behaviour and up to the first tear: the journal that stands
\* claims the files of its mutation until it is replaced, and what is replaced it
\* by tells what the files hold.
THEOREM ProjectImplemented == Spec => ImplementsAtomicProject
<1>1. Init => Project!Init
  <2> SUFFICES ASSUME Init PROVE Project!Init
    OBVIOUS
  <2>1. \A m \in Mutation : Standing(m) = NoJournal
    BY DEF Init, Standing, At, NoOp
  <2>2. Log = [m \in Mutation |-> NoRevision]
    BY <2>1 DEF Log, InEffect, NoJournal
  <2> QED
    BY <2>2 DEF Init, Project!Init
<1>2. /\ StepsInv /\ JournalsUsed /\ ProjectInv
      /\ (StepsInv /\ JournalsUsed /\ ProjectInv)'
      /\ [Next]_vars
      => [torn \/ Project!Next]_<<Content, Log, torn>>
  <2> SUFFICES ASSUME StepsInv, StepsInv', JournalsUsed, ProjectInv, ProjectInv', [Next]_vars
               PROVE  torn \/ Project!Next
    OBVIOUS
  <2>1. CASE torn'
    BY <2>1 DEF Project!Next, Project!Tear
  <2>2. CASE ~torn'
    BY <2>2, NextRefines
  <2> QED
    BY <2>1, <2>2
<1> QED
  BY <1>1, <1>2, ProjectInvAlways, PTL DEF Spec, ImplementsAtomicProject, Project!Spec

-----------------------------------------------------------------------------
(* What a project that opens shows *)

\* The context that is being opened shows nothing yet, and no journal asks for
\* recovery but the one the opening has just written and gives up for.
Opening ==
  /\ contexts = [c \in Process |-> contexts[c]]
  /\ op.kind = "recover" =>
       /\ op.by \in Process /\ contexts[op.by] = Shut
       /\ op.pc # "end" => \A m \in Mutation : ~Blocked(m)

\* The operation goes on.
LEMMA OpeningGoesOn ==
  ASSUME StepsInv, Opening, UNCHANGED <<contexts, journals>>,
         op'.kind = op.kind, op'.by = op.by, op'.pc # "end" => op.pc # "end"
  PROVE  Opening'
BY DEF Opening, Blocked

\* It ends.
LEMMA OpeningEnds ==
  ASSUME Opening, op'.kind # "recover",
         UNCHANGED contexts \/ \E r : contexts' = [contexts EXCEPT ![op.by] = r]
  PROVE  Opening'
BY DEF Opening

\* The ways to go on keep to the process at work.
LEMMA KeepsTheProcess ==
  ASSUME StepsInv,
         \/ \E pc : Goto(pc)
         \/ \E journal : Record(journal)
         \/ \E todo, then, onfail : WriteAll(todo, then, onfail)
  PROVE  op'.kind = op.kind /\ op'.by = op.by
<1>1. CASE \E pc : Goto(pc)
  BY <1>1 DEF Goto, StepsInv, AloneInv, Shape
<1>2. CASE \E journal : Record(journal)
  BY <1>2 DEF Record, StepsInv, AloneInv, Shape
<1>3. CASE \E todo, then, onfail : WriteAll(todo, then, onfail)
  BY <1>3 DEF WriteAll, StepsInv, AloneInv, Shape
<1> QED
  BY <1>1, <1>2, <1>3

\* Every step of the operation at work preserves it.
LEMMA OpeningStep == StepsInv /\ ProjectInv /\ Opening /\ OperationStep => Opening'
<1> SUFFICES ASSUME StepsInv, ProjectInv, Opening, OperationStep PROVE Opening'
  OBVIOUS
<1>1. CASE JournalAway
  <2>1. /\ op'.kind = op.kind /\ op'.by = op.by /\ op'.pc = "journalSwap" /\ op.pc = "journal"
        /\ UNCHANGED contexts /\ journals' = [journals EXCEPT ![op.m] = NoJournal]
    BY <1>1 DEF JournalAway, StepsInv, AloneInv, Shape, At
  <2>2. \A m \in Mutation : journals'[m] \in {journals[m], NoJournal}
    BY <2>1 DEF StepsInv, AloneInv, Shape
  <2> QED
    BY <2>1, <2>2 DEF Opening, Blocked, NoJournal
<1>2. CASE JournalIn
  <2>1. /\ op.pc \in {"journal", "journalSwap"} /\ AfterJournal /\ UNCHANGED contexts
        /\ journals' = [journals EXCEPT ![op.m] = op.journal]
    BY <1>2 DEF JournalIn, At
  <2>2. op'.kind = op.kind /\ op'.by = op.by
    BY <2>1, KeepsTheProcess DEF AfterJournal
  <2>3. op'.pc # "end" /\ op.kind = "recover" => op.journal.state # "RecoveryRequired"
    <3> SUFFICES ASSUME op.journal.state = "RecoveryRequired" PROVE op'.pc = "end"
      OBVIOUS
    <3>1. Goto("end")
      BY <2>1 DEF AfterJournal
    <3> QED
      BY <3>1 DEF Goto, StepsInv, AloneInv, Shape
  <2>4. \A m \in Mutation : journals'[m] \in {journals[m], op.journal}
    BY <2>1 DEF StepsInv, AloneInv, Shape
  <2> QED
    BY <2>1, <2>2, <2>3, <2>4 DEF Opening, Blocked
<1>3. CASE \/ JournalFails \/ Return \/ ReadFails
           \/ FileFails /\ op.onfail = "end"
  <2>1. op' = NoOp /\ UNCHANGED contexts
    BY <1>3 DEF JournalFails, Return, ReadFails, FileFails, OnFailure, Fail, End
  <2>2. op'.kind # "recover"
    BY <2>1 DEF NoOp
  <2> QED
    BY <2>1, <2>2, OpeningEnds
<1>4. CASE CommitReceipt \/ Recovered \/ RolledBack \/ DocumentSaved \/ Die
  <2>1. op' = NoOp /\ \E r : contexts' = [contexts EXCEPT ![op.by] = r]
    BY <1>4 DEF CommitReceipt, Recovered, RolledBack, DocumentSaved, Die, End, Publish,
                LeaveToRefresh
  <2>2. op'.kind # "recover"
    BY <2>1 DEF NoOp
  <2> QED
    BY <2>1, <2>2, OpeningEnds
<1>5. CASE \/ Apply \/ OperationApplied \/ Verify \/ Inventory \/ Compensate \/ RollBack
           \/ Classify \/ Recheck \/ Finalize \/ WritesDone \/ FileAway \/ FileIn \/ Scan
           \/ FileFails /\ op.onfail # "end"
  <2>1. UNCHANGED <<contexts, journals>> /\ op.pc # "end"
    BY <1>5 DEF Apply, OperationApplied, Verify, Inventory, Compensate, RollBack, Classify,
                Recheck, Finalize, WritesDone, FileAway, FileIn, Scan, FileFails, OnFailure,
                WriteCutOff, At, disk
  <2>2. op'.kind = op.kind /\ op'.by = op.by
    <3>1. CASE OperationApplied \/ FileAway \/ FileIn
      BY <3>1 DEF OperationApplied, FileAway, FileIn, NextWrite, StepsInv, AloneInv, Shape
    <3>2. CASE Apply \/ Verify \/ Inventory \/ RollBack \/ WritesDone
      BY <3>2, KeepsTheProcess DEF Apply, Verify, Inventory, RollBack, WritesDone,
                                   RequireRecovery
    <3>3. CASE Compensate \/ Recheck \/ Finalize
      BY <3>3, KeepsTheProcess DEF Compensate, Recheck, Finalize, Restore, RequireRecovery
    <3>4. CASE Classify
      <4>1. CASE RequireRecovery \/ Record([op.journal EXCEPT !.state = "Aborted"])
        BY <4>1, KeepsTheProcess DEF RequireRecovery
      <4>2. CASE \E todo \in Restoring(ExactAfter, Before) :
                   op' = [op EXCEPT !.todo = todo, !.all = (ExactAfter = WriteSet(op.m)),
                                    !.then = "recheck", !.onfail = "mark", !.pc = "write"]
        BY <4>2 DEF StepsInv, AloneInv, Shape
      <4> QED
        BY <3>4, <4>1, <4>2 DEF Classify
    <3>5. CASE Scan
      <4>1. PICK m \in Unresolved :
              op' = [op EXCEPT !.m = m, !.journal = journals[m],
                               !.pc = IF Incomplete(m) THEN "classify" ELSE "receipt"]
        BY <3>5 DEF Scan
      <4> QED
        BY <4>1 DEF StepsInv, AloneInv, Shape
    <3>6. CASE FileFails /\ op.onfail # "end"
      BY <3>6, KeepsTheProcess DEF FileFails, OnFailure, RequireRecovery
    <3> QED
      BY <1>5, <3>1, <3>2, <3>3, <3>4, <3>5, <3>6
  <2> QED
    BY <2>1, <2>2, OpeningGoesOn
<1>6. CASE RecoverReceipt
  <2>1. UNCHANGED <<contexts, journals>> /\ op.pc = "receipt" /\ (op' = NoOp \/ Goto("scan"))
    BY <1>6 DEF RecoverReceipt, End, At
  <2>2. CASE op' = NoOp
    BY <2>1, <2>2, OpeningEnds DEF NoOp
  <2>3. CASE Goto("scan")
    BY <2>1, <2>3, KeepsTheProcess, OpeningGoesOn
  <2> QED
    BY <2>1, <2>2, <2>3
<1>7. CASE Revise
  <2>1. UNCHANGED <<contexts, journals>> /\ op.pc = "revise"
        /\ (op' = NoOp \/ \E journal : Record(journal) \/ \E todo : WriteAll(todo, "end", "end"))
    BY <1>7 DEF Revise, Restore, End, At, disk
  <2>2. CASE op' = NoOp
    BY <2>1, <2>2, OpeningEnds DEF NoOp
  <2>3. CASE \E journal : Record(journal) \/ \E todo : WriteAll(todo, "end", "end")
    BY <2>1, <2>3, KeepsTheProcess, OpeningGoesOn
  <2> QED
    BY <2>1, <2>2, <2>3
<1> QED
  BY <1>1, <1>2, <1>3, <1>4, <1>5, <1>6, <1>7 DEF OperationStep

\* So does every other step.
LEMMA OpeningNext == StepsInv /\ ProjectInv /\ Opening /\ [Next]_vars => Opening'
<1> SUFFICES ASSUME StepsInv, ProjectInv, Opening, [Next]_vars PROVE Opening'
  OBVIOUS
<1>1. CASE OperationStep
  BY <1>1, OpeningStep
<1>2. CASE \E c \in Process : \/ \E m \in Mutation : BeginCommit(c, m) \/ BeginRollback(c, m)
                              \/ \E p \in Document : BeginSave(c, p)
  <2>1. CASE \E c \in Process, m \in Mutation : BeginCommit(c, m)
    <3>1. UNCHANGED contexts /\ op'.kind # "recover"
      BY <2>1 DEF BeginCommit, NoOp
    <3> QED
      BY <3>1, OpeningEnds
  <2>2. CASE \E c \in Process, m \in Mutation : BeginRollback(c, m)
    <3>1. UNCHANGED contexts /\ op'.kind # "recover"
      BY <2>2 DEF BeginRollback, NoOp
    <3> QED
      BY <3>1, OpeningEnds
  <2>3. CASE \E c \in Process, p \in Document : BeginSave(c, p)
    <3>1. UNCHANGED contexts /\ op'.kind # "recover"
      BY <2>3 DEF BeginSave, NoOp
    <3> QED
      BY <3>1, OpeningEnds
  <2> QED
    BY <1>2, <2>1, <2>2, <2>3
<1>3. ASSUME NEW c \in Process, BeginOpen(c) PROVE Opening'
  <2>1. /\ UNCHANGED <<contexts, journals>> /\ op'.by = c /\ contexts[c] = Shut
        /\ \A m \in Mutation : ~Blocked(m)
    BY <1>3 DEF BeginOpen, disk, NoOp
  <2> QED
    BY <2>1 DEF Opening, Blocked
<1>4. ASSUME NEW c \in Process, Refresh(c) \/ FinishRefresh(c) \/ Close(c) PROVE Opening'
  <2>1. UNCHANGED <<op, journals>> /\ (op.kind = "recover" => op.by # c)
    BY <1>4, AtRest DEF Opening, Shut, IsOpen, Refresh, FinishRefresh, Close, disk
  <2>2. PICK r : contexts' = [contexts EXCEPT ![c] = r]
    BY <1>4 DEF Refresh, FinishRefresh, Close, Publish
  <2> QED
    BY <2>1, <2>2 DEF Opening, Blocked
<1>5. CASE UNCHANGED vars \/ \E p \in Path : ExternalWrite(p)
  BY <1>5 DEF ExternalWrite, vars, disk, Opening, Blocked
<1> QED
  BY <1>1, <1>2, <1>3, <1>4, <1>5 DEF Next

\* A recovery that gives the lock back to go on with the open has settled all
\* there was: no journal claims a file any more, so that the files are the
\* content their reader is entitled to.
THEOREM RecoveryAlwaysSettles == Spec => RecoverySettlesAll
<1>1. Init => Opening
  BY DEF Init, Opening, NoOp
<1>2. StepsInv /\ ProjectInv /\ Opening /\ [Next]_vars
      => \A c \in Process :
           op.kind = "recover" /\ ~contexts[c].refreshing /\ contexts'[c].refreshing
             => files = Content
  <2> SUFFICES ASSUME StepsInv, ProjectInv, Opening, [Next]_vars, op.kind = "recover",
                      NEW c \in Process, ~contexts[c].refreshing, contexts'[c].refreshing
               PROVE  files = Content
    OBVIOUS
  <2>1. contexts = [d \in Process |-> contexts[d]]
    BY DEF Opening
  <2>2. ~Idle
    BY AtRest
  <2>3. Recovered
    <3>1. CASE OperationStep
      <4>1. UNCHANGED contexts \/ CommitReceipt \/ Recovered \/ RolledBack \/ DocumentSaved \/ Die
        BY <3>1 DEF OperationStep, JournalAway, JournalIn, JournalFails, WritesDone, FileAway,
             FileIn, FileFails, OnFailure, Fail, Apply, OperationApplied, Verify, Inventory,
             Compensate, RollBack, Scan, Classify, Recheck, Finalize, RecoverReceipt, Revise,
             Return, ReadFails
      <4>2. ~CommitReceipt /\ ~RolledBack /\ ~DocumentSaved
        BY DEF CommitReceipt, RolledBack, DocumentSaved, At, StepsInv, RecoverSteps
      <4>3. ~Die
        BY <2>1 DEF Die, Shut
      <4> QED
        BY <4>1, <4>2, <4>3
    <3>2. ~\E d \in Process : Refresh(d) \/ FinishRefresh(d) \/ Close(d)
      BY <2>1 DEF Refresh, FinishRefresh, Close, Publish, Shut
    <3>3. CASE UNCHANGED contexts
      BY <3>3
    <3> QED
      BY <2>2, <3>1, <3>2, <3>3 DEF Next, vars, BeginCommit, BeginRollback, BeginSave, BeginOpen,
                                    ExternalWrite
  <2>4. op.pc = "scan" /\ \A m \in Mutation : ~Incomplete(m) /\ ~Blocked(m)
    BY <2>3 DEF Recovered, At, Unresolved, Opening
  <2>5. Free
    <3>1. \A m \in Mutation : Standing(m) = journals[m]
      BY <2>4, RestsOnDisk DEF StandingOnDisk
    <3> QED
      BY <2>4, <3>1 DEF Free, Claimed, Undecided, Undoing, Incomplete, Blocked
  <2>6. \A p \in Path : Content[p] = files[p]
    BY <2>4, <2>5, ContentFollows DEF ContentAsClaimed, Free, Shown
  <2> QED
    BY <2>6, ContentFollows DEF ContentAsClaimed, ProjectInv, ProjectTyped, Contents
<1> QED
  BY <1>1, <1>2, OpeningNext, ProjectInvAlways, PTL DEF Spec, RecoverySettlesAll

-----------------------------------------------------------------------------
(* What the operations of a mutation write *)

\* A path belongs to one operation, which is the one that is looked up.
LEMMA OneOperation ==
  ASSUME NEW m \in Mutation, NEW n \in 1 .. Len(Plan[m]), NEW i \in 1 .. n,
         NEW p \in OperationPaths(Plan[m][i])
  PROVE  /\ (CHOOSE j \in 1 .. n : p \in OperationPaths(Plan[m][j])) = i
         /\ p \in WriteSetOf(n, m) /\ p \in WriteSet(m) /\ i \in 1 .. Len(Plan[m])
<1>1. Plan[m] \in Seq(Operation) /\ Len(Plan[m]) \in Nat /\ DOMAIN Plan[m] = 1 .. Len(Plan[m])
  BY PlanAssumption
<1>2. \A j \in 1 .. n : j \in DOMAIN Plan[m] /\ j \in 1 .. Len(Plan[m])
  BY <1>1
<1>3. \A j \in 1 .. n : p \in OperationPaths(Plan[m][j]) => j = i
  BY <1>2, PlanAssumption
<1>4. p \in WriteSetOf(n, m)
  BY DEF WriteSetOf
<1>5. p \in WriteSet(m)
  BY <1>2, PathsOfMutation
<1> QED
  BY <1>2, <1>3, <1>4, <1>5

\* What has been written of a mutation, the next operation included.
LEMMA NextOperation ==
  ASSUME NEW m \in Mutation, NEW n \in 0 .. Len(Plan[m]), n # Len(Plan[m])
  PROVE  /\ n + 1 \in 1 .. Len(Plan[m])
         /\ OperationPaths(Plan[m][n + 1]) \subseteq WriteSetOf(n + 1, m)
         /\ OperationPaths(Plan[m][n + 1]) \subseteq WriteSet(m) \ WriteSetOf(n, m)
         /\ WriteSetOf(n, m) \subseteq WriteSetOf(n + 1, m)
<1>1. Len(Plan[m]) \in Nat /\ DOMAIN Plan[m] = 1 .. Len(Plan[m])
  BY PlanAssumption
<1>2. n + 1 \in 1 .. Len(Plan[m]) /\ n + 1 \in 1 .. n + 1
  BY <1>1
<1>3. OperationPaths(Plan[m][n + 1]) \subseteq WriteSetOf(n + 1, m)
  BY <1>2 DEF WriteSetOf
<1>4. \A i \in 1 .. n : OperationPaths(Plan[m][i]) \cap OperationPaths(Plan[m][n + 1]) = {}
  <2> TAKE i \in 1 .. n
  <2>1. i \in DOMAIN Plan[m] /\ n + 1 \in DOMAIN Plan[m] /\ i # n + 1
    BY <1>1, <1>2
  <2> QED
    BY <2>1, PlanAssumption
<1>5. OperationPaths(Plan[m][n + 1]) \cap WriteSetOf(n, m) = {}
  BY <1>4 DEF WriteSetOf
<1>6. OperationPaths(Plan[m][n + 1]) \subseteq WriteSet(m)
  BY <1>2, PathsOfMutation
<1>7. WriteSetOf(n, m) \subseteq WriteSetOf(n + 1, m)
  <2>1. \A i \in 1 .. n : i \in 1 .. n + 1
    BY <1>1
  <2> QED
    BY <2>1 DEF WriteSetOf
<1> QED
  BY <1>2, <1>3, <1>5, <1>6, <1>7

\* An operation writes its own paths, to what the mutation makes of them.
LEMMA WritesOutcome ==
  ASSUME NEW m \in Mutation, NEW i \in 1 .. Len(Plan[m]), NEW before
  PROVE  \A k \in DOMAIN Writes(Plan[m][i], m, before) :
           LET write == Writes(Plan[m][i], m, before)[k]
           IN write[1] \in OperationPaths(Plan[m][i]) /\ write[2] = Outcome(m, before)[write[1]]
<1> DEFINE o == Plan[m][i]
<1>1. Len(Plan[m]) \in Nat /\ Len(Plan[m]) \in 1 .. Len(Plan[m]) /\ i \in DOMAIN Plan[m]
      /\ o \in Operation
  BY PathsOfMutation, PlanAssumption
<1>2. /\ o.kind \in {"CreateOrReplace", "Delete", "Move"}
      /\ o.path \in Path /\ (o.kind = "Move" => o.from \in Path /\ o.from # o.path)
      /\ o.path \in OperationPaths(o) /\ (o.kind = "Move" => o.from \in OperationPaths(o))
  BY <1>1, PlanAssumption DEF Operation, OperationPaths
<1>3. \A p \in OperationPaths(o) : p \in Path =>
        Outcome(m, before)[p] = CASE o.kind = "CreateOrReplace" -> New(m)
                                  [] o.kind = "Move" /\ o.path = p -> before[o.from]
                                  [] OTHER -> Missing
  <2> TAKE p \in OperationPaths(o)
  <2> HAVE p \in Path
  <2>1. /\ (CHOOSE j \in 1 .. Len(Plan[m]) : p \in OperationPaths(Plan[m][j])) = i
        /\ p \in WriteSetOf(Len(Plan[m]), m)
    BY <1>1, OneOperation
  <2> QED
    BY <2>1 DEF Outcome, Applied
<1>4. CASE o.kind = "CreateOrReplace"
  <2>1. Outcome(m, before)[o.path] = New(m)
    BY <1>2, <1>3, <1>4
  <2>2. Writes(o, m, before) = << <<o.path, New(m)>> >>
    BY <1>4 DEF Writes
  <2> QED
    BY <1>2, <2>1, <2>2
<1>5. CASE o.kind = "Delete"
  <2>1. Outcome(m, before)[o.path] = Missing
    BY <1>2, <1>3, <1>5
  <2>2. Writes(o, m, before) = << <<o.path, Missing>> >>
    BY <1>5 DEF Writes
  <2> QED
    BY <1>2, <2>1, <2>2
<1>6. CASE o.kind = "Move"
  <2>1. Outcome(m, before)[o.path] = before[o.from] /\ Outcome(m, before)[o.from] = Missing
    BY <1>2, <1>3, <1>6
  <2>2. Writes(o, m, before) = << <<o.path, before[o.from]>>, <<o.from, Missing>> >>
    BY <1>6 DEF Writes
  <2> QED
    BY <1>2, <1>6, <2>1, <2>2
<1> QED
  BY <1>2, <1>4, <1>5, <1>6

\* Whatever has been applied of it, a path holds what it held or what it will.
LEMMA AppliedPart ==
  ASSUME NEW m \in Mutation, NEW n \in 0 .. Len(Plan[m]), NEW before, NEW p \in WriteSet(m)
  PROVE  Applied(n, m, before)[p] \in {before[p], Outcome(m, before)[p]}
<1>1. p \in Path /\ Len(Plan[m]) \in Nat
  BY PathsOfMutation
<1>2. CASE p \notin WriteSetOf(n, m)
  BY <1>1, <1>2 DEF Applied
<1>3. CASE p \in WriteSetOf(n, m)
  <2>1. PICK i \in 1 .. n : p \in OperationPaths(Plan[m][i])
    BY <1>3 DEF WriteSetOf
  <2>2. n \in 1 .. Len(Plan[m]) /\ Len(Plan[m]) \in 1 .. Len(Plan[m])
        /\ i \in 1 .. Len(Plan[m])
    BY <1>1, <2>1
  <2>3. (CHOOSE j \in 1 .. n : p \in OperationPaths(Plan[m][j])) = i
    BY <2>1, <2>2, OneOperation
  <2>4. /\ (CHOOSE j \in 1 .. Len(Plan[m]) : p \in OperationPaths(Plan[m][j])) = i
        /\ p \in WriteSetOf(Len(Plan[m]), m)
    BY <2>1, <2>2, OneOperation
  <2> DEFINE o == Plan[m][i]
             made == CASE o.kind = "CreateOrReplace" -> New(m)
                       [] o.kind = "Move" /\ o.path = p -> before[o.from]
                       [] OTHER -> Missing
  <2>5. Applied(n, m, before)[p] = made
    BY <1>1, <1>3, <2>3 DEF Applied
  <2>6. Outcome(m, before)[p] = made
    BY <1>1, <2>4 DEF Outcome, Applied
  <2> QED
    BY <2>5, <2>6
<1> QED
  BY <1>2, <1>3

-----------------------------------------------------------------------------
(* What an operation knows of the bytes it replaces *)

\* A path holds one of its two sealed states, or what an outsider wrote after
\* the operation had looked.
Known(p) == files[p] \in {Before[p], After[p]} \/ p \in late

\* What is going to be written, and over what.
WritesKnown ==
  op.kind # "save" /\ op.pc \in {"write", "swap"} =>
    \A i \in DOMAIN op.todo :
      LET p == op.todo[i][1]
      IN /\ op.todo[i][2] \in {Before[p], After[p]}
         /\ Known(p) \/ (op.pc = "swap" /\ p = Target /\ files[p] = Missing)

\* A commit applies its operations one after the other, to paths that hold
\* what it sealed.
AppliesInOrder ==
  op.kind = "commit" =>
    /\ \A p \in Untouched : files[p] = Before[p] \/ p \in late
    /\ op.pc \in {"write", "swap", "applied"} =>
         /\ op.then = "applied" <=> op.onfail = "compensate"
         /\ op.pc = "applied" => op.then = "applied"
         /\ op.then = "applied" =>
              TargetsOf(op.todo) \subseteq OperationPaths(Plan[op.m][op.done + 1])

\* The inductive invariant of the bytes that are replaced.
BytesKnown == WritesKnown /\ AppliesInOrder

\* Where there is nothing to know.
AtEase ==
  /\ op.pc \notin {"write", "swap"}
  /\ \/ op.kind # "commit"
     \/ op.pc \notin {"journal", "journalSwap", "apply", "applied"}
     \/ op.pc \in {"journal", "journalSwap"} /\ op.journal.state \notin {"Prepared", "Applying"}

\* Nothing has to be known then.
LEMMA EaseKnows == AtEase => BytesKnown
<1> SUFFICES ASSUME AtEase PROVE BytesKnown
  OBVIOUS
<1>1. op.kind = "commit" => Untouched = {}
  BY DEF AtEase, Untouched, At
<1> QED
  BY <1>1 DEF AtEase, BytesKnown, WritesKnown, AppliesInOrder

\* The same of the next state.
LEMMA EaseKnowsThen == ASSUME AtEase' PROVE BytesKnown'
<1>1. (AtEase => BytesKnown)'
  BY EaseKnows, PTL
<1> QED
  BY <1>1

\* The four ways to go on, field by field.
LEMMA GoesOnTo ==
  ASSUME StepsInv
  PROVE  /\ \A pc : Goto(pc) =>
              /\ op'.pc = pc /\ op'.kind = op.kind /\ op'.m = op.m /\ op'.journal = op.journal
              /\ op'.todo = op.todo /\ op'.then = op.then /\ op'.onfail = op.onfail
              /\ op'.done = op.done
         /\ \A journal : Record(journal) =>
              op'.pc = "journal" /\ op'.kind = op.kind /\ op'.m = op.m /\ op'.journal = journal
         /\ \A todo, then, onfail : WriteAll(todo, then, onfail) =>
              /\ op'.pc = "write" /\ op'.kind = op.kind /\ op'.m = op.m
              /\ op'.journal = op.journal /\ op'.todo = todo /\ op'.then = then
              /\ op'.onfail = onfail /\ op'.done = op.done
BY DEF Goto, Record, WriteAll, StepsInv, AloneInv, Shape

\* A journal to be written is no prepared one, but for that of a commit that begins.
LEMMA RecordsKnown ==
  ASSUME StepsInv, NEW journal, Record(journal), journal.state \notin {"Prepared", "Applying"}
  PROVE  BytesKnown'
<1>1. op'.pc = "journal" /\ op'.journal = journal
  BY GoesOnTo
<1> QED
  BY <1>1, EaseKnowsThen DEF AtEase

\* Nor is one that asks for recovery.
LEMMA RecoveryKnown == ASSUME StepsInv, RequireRecovery PROVE BytesKnown'
<1>1. [op.journal EXCEPT !.state = "RecoveryRequired"].state = "RecoveryRequired"
  BY DEF StepsInv, JournalShape, IsJournal
<1> QED
  BY <1>1, RecordsKnown DEF RequireRecovery

\* What is going to be restored is known.
LEMMA RestoresKnown ==
  ASSUME StepsInv, NEW m \in Mutation, NEW paths \in SUBSET WriteSet(m), NEW state \in Contents,
         NEW todo \in Restoring(paths, state), UNCHANGED files,
         op'.pc = "write", op'.m = m, op'.todo = todo, op'.onfail # "compensate",
         op'.kind = "commit" => op'.then # "applied",
         \A p \in paths : state[p] \in {Before'[p], After'[p]} /\ files[p] \in {Before'[p], After'[p]}
  PROVE  BytesKnown'
<1>1. WriteSet(m) \subseteq Path /\ IsFiniteSet(WriteSet(m))
  BY PathsOfMutation
<1>2. paths \in SUBSET Path /\ IsFiniteSet(paths)
  BY <1>1, FS_Subset
<1>3. TargetsOf(todo) = paths /\ \A i \in DOMAIN todo : todo[i][2] = state[todo[i][1]]
  BY <1>2, RestoringFacts
<1>4. \A i \in DOMAIN todo : todo[i][1] \in paths
  BY <1>3 DEF TargetsOf
<1>5. WritesKnown'
  BY <1>3, <1>4 DEF WritesKnown, Known
<1>6. Untouched' = {}
  BY DEF Untouched, At
<1>7. AppliesInOrder'
  BY <1>6 DEF AppliesInOrder
<1> QED
  BY <1>5, <1>7 DEF BytesKnown

\* So is what an operation at a decision restores.
LEMMA RestoreKnown ==
  ASSUME StepsInv, ProjectInv, op.pc \in Deciding, op.kind # "save", UNCHANGED files,
         NEW paths \in SUBSET WriteSet(op.m), NEW state \in {Before, After},
         NEW then, then # "applied", NEW onfail, onfail # "compensate",
         Restore(paths, state, then, onfail),
         \A p \in paths : files[p] \in {Before[p], After[p]}
  PROVE  BytesKnown'
<1>1. PICK todo \in Restoring(paths, state) : WriteAll(todo, then, onfail)
  BY DEF Restore
<1>2. /\ op'.pc = "write" /\ op'.m = op.m /\ op'.journal = op.journal /\ op'.todo = todo
      /\ op'.then = then /\ op'.onfail = onfail
  BY <1>1, GoesOnTo
<1>3. op.m \in Mutation /\ Before \in Contents /\ After \in Contents
  <2>1. op.m \in Mutation /\ Before \in Contents
    BY DecidingWorks DEF ProjectInv, JournalInHand
  <2> QED
    BY <2>1, OutcomeIsContent DEF After
<1>4. Before' = Before /\ After' = After
  BY <1>2 DEF Before, After
<1> QED
  BY <1>1, <1>2, <1>3, <1>4, RestoresKnown

\* While its journals are written, a commit trusts all of its paths.
LEMMA KnownJournals ==
  StepsInv /\ ProjectInv /\ BytesKnown /\ (JournalAway \/ JournalIn) => BytesKnown'
<1> SUFFICES ASSUME StepsInv, ProjectInv, BytesKnown, JournalAway \/ JournalIn PROVE BytesKnown'
  OBVIOUS
<1>1. /\ op.pc \in {"journal", "journalSwap"} /\ UNCHANGED <<files, late>>
      /\ op'.kind = op.kind /\ op'.m = op.m /\ op'.done = op.done
      /\ op'.journal.seen = op.journal.seen
      /\ \/ op'.pc \in {"journal", "journalSwap"} /\ op'.journal.state = op.journal.state
         \/ /\ op.journal.state \in {"Prepared", "Applying"}
            /\ op'.pc \in {"journal", "apply"}
         \/ op'.pc \in {"receipt", "rolledBack", "scan", "end"}
  <2>1. CASE JournalAway
    BY <2>1 DEF JournalAway, StepsInv, AloneInv, Shape, At, history
  <2>2. CASE JournalIn
    <3>1. UNCHANGED late
      BY <2>2 DEF JournalIn, history
    <3> QED
      BY <2>2, <3>1, JournalInFacts
  <2> QED
    BY <2>1, <2>2
<1>2. CASE AtEase'
  BY <1>2, EaseKnowsThen
<1>3. CASE ~AtEase'
  <2>1. op.kind = "commit" /\ op.journal.state \in {"Prepared", "Applying"}
        /\ op'.pc \in {"journal", "journalSwap", "apply"}
    BY <1>1, <1>3 DEF AtEase
  <2>2. Untouched = WriteSet(op.m) /\ Untouched' \subseteq WriteSet(op.m)
    BY <1>1, <2>1 DEF Untouched, At
  <2>3. \A p \in Untouched' : files'[p] = Before'[p] \/ p \in late'
    BY <1>1, <2>1, <2>2 DEF BytesKnown, AppliesInOrder, Before
  <2>4. op'.pc \notin {"write", "swap", "applied"}
    BY <2>1
  <2> QED
    BY <2>3, <2>4 DEF BytesKnown, WritesKnown, AppliesInOrder
<1> QED
  BY <1>2, <1>3

\* One write touches one path, which is sealed before and after it.
LEMMA KnownWrites ==
  /\ StepsInv /\ ProjectInv /\ BytesKnown
  /\ WritesDone \/ FileAway \/ FileIn
  => BytesKnown'
<1> SUFFICES ASSUME StepsInv, ProjectInv, BytesKnown, WritesDone \/ FileAway \/ FileIn
             PROVE  BytesKnown'
  OBVIOUS
<1>1. files = [p \in Path |-> files[p]]
  BY DEF ProjectInv, ProjectTyped, Contents
<1>2. CASE WritesDone
  <2>1. /\ op.pc = "write" /\ op.todo = << >> /\ UNCHANGED <<files, late>>
        /\ op'.pc = op.then /\ op'.kind = op.kind /\ op'.m = op.m /\ op'.journal = op.journal
        /\ op'.todo = op.todo /\ op'.then = op.then /\ op'.onfail = op.onfail
        /\ op'.done = op.done
    BY <1>2, GoesOnTo DEF WritesDone, At, disk, history
  <2>2. op.then \in {"applied", "rollBack", "end", "recheck", "finalize", "revise", "saved"}
        /\ (op.then = "applied" => op.kind = "commit")
    BY <2>1 DEF StepsInv, AloneInv, Kinds, SaveSteps, CommitSteps, RecoverSteps, RollbackSteps
  <2>3. CASE op.then # "applied"
    <3>1. AtEase'
      BY <2>1, <2>2, <2>3 DEF AtEase
    <3> QED
      BY <3>1, EaseKnowsThen
  <2>4. CASE op.then = "applied"
    <3>1. Untouched' = Untouched
      BY <2>1, <2>4 DEF Untouched, At
    <3>2. TargetsOf(op.todo) = {}
      BY <2>1 DEF TargetsOf
    <3> QED
      BY <2>1, <2>2, <2>4, <3>1, <3>2 DEF BytesKnown, WritesKnown, AppliesInOrder, Before
  <2> QED
    BY <2>3, <2>4
<1>3. CASE FileAway \/ FileIn
  <2>1. /\ op.pc \in {"write", "swap"} /\ op.todo # << >> /\ UNCHANGED late
        /\ op'.kind = op.kind /\ op'.m = op.m /\ op'.journal = op.journal
        /\ op'.then = op.then /\ op'.onfail = op.onfail /\ op'.done = op.done
        /\ \/ /\ op'.pc = "swap" /\ op'.todo = op.todo
              /\ files' = [files EXCEPT ![Target] = Missing]
           \/ /\ op'.pc = "write" /\ op'.todo = Tail(op.todo)
              /\ files' = [files EXCEPT ![Target] = Value]
    BY <1>3 DEF FileAway, FileIn, SetFile, NextWrite, StepsInv, AloneInv, Shape, At, ProjectInv,
                Writing, history
  <2>2. Target \in Path /\ Target \in TargetsOf(op.todo)
    BY <2>1, WriteFacts
  <2>3. op.todo \in Seq(Path \X Bytes)
    BY DEF ProjectInv, Writing
  <2>4. /\ TargetsOf(Tail(op.todo)) \subseteq TargetsOf(op.todo)
        /\ \A i \in DOMAIN Tail(op.todo) : \E j \in DOMAIN op.todo : Tail(op.todo)[i] = op.todo[j]
        /\ Head(op.todo) = op.todo[1] /\ 1 \in DOMAIN op.todo
    BY <2>1, <2>3, TailFacts
  <2>5. TargetsOf(op'.todo) \subseteq TargetsOf(op.todo)
    BY <2>1, <2>4
  <2>6. Before' = Before /\ After' = After
    BY <2>1 DEF Before, After
  <2>7. CASE op.kind = "save"
    BY <2>1, <2>7 DEF BytesKnown, WritesKnown, AppliesInOrder
  <2>8. CASE op.kind # "save"
    <3>1. \A i \in DOMAIN op.todo :
            LET p == op.todo[i][1]
            IN /\ op.todo[i][2] \in {Before[p], After[p]}
               /\ Known(p) \/ (p = Target /\ files[p] = Missing)
      BY <2>1, <2>8 DEF BytesKnown, WritesKnown
    <3>2. Value \in {Before[Target], After[Target]}
      BY <2>4, <3>1 DEF Target, Value
    <3>3. WritesKnown'
      <4>1. CASE op'.pc = "swap"
        <5>1. Target' = Target
          BY <2>1, <4>1 DEF Target
        <5>2. op'.todo = op.todo /\ files' = [files EXCEPT ![Target] = Missing]
          BY <2>1, <4>1
        <5>3. ASSUME NEW i \in DOMAIN op.todo
              PROVE  LET p == op.todo[i][1]
                     IN files'[p] \in {Before[p], After[p]} \/ p \in late
                        \/ (p = Target /\ files'[p] = Missing)
          <6>1. CASE op.todo[i][1] = Target
            BY <1>1, <2>2, <5>2, <6>1
          <6>2. CASE op.todo[i][1] # Target
            <7>1. op.todo[i] \in Path \X Bytes
              BY <2>3
            <7>2. files'[op.todo[i][1]] = files[op.todo[i][1]]
              BY <1>1, <5>2, <6>2, <7>1
            <7> QED
              BY <3>1, <6>2, <7>2 DEF Known
          <6> QED
            BY <6>1, <6>2
        <5> QED
          BY <2>1, <2>6, <3>1, <4>1, <5>1, <5>2, <5>3 DEF WritesKnown, Known
      <4>2. CASE op'.pc = "write"
        <5>1. op'.todo = Tail(op.todo) /\ files' = [files EXCEPT ![Target] = Value]
          BY <2>1, <4>2
        <5>2. ASSUME NEW i \in DOMAIN op.todo
              PROVE  LET p == op.todo[i][1]
                     IN /\ op.todo[i][2] \in {Before[p], After[p]}
                        /\ files'[p] \in {Before[p], After[p]} \/ p \in late
          <6>1. CASE op.todo[i][1] = Target
            BY <1>1, <2>2, <3>1, <3>2, <5>1, <6>1
          <6>2. CASE op.todo[i][1] # Target
            <7>1. op.todo[i] \in Path \X Bytes
              BY <2>3
            <7>2. files'[op.todo[i][1]] = files[op.todo[i][1]]
              BY <1>1, <5>1, <6>2, <7>1
            <7> QED
              BY <3>1, <6>2, <7>2 DEF Known
          <6> QED
            BY <6>1, <6>2
        <5> QED
          BY <2>1, <2>4, <2>6, <4>2, <5>1, <5>2 DEF WritesKnown, Known
      <4> QED
        BY <2>1, <4>1, <4>2
    <3>4. AppliesInOrder'
      <4> SUFFICES ASSUME op.kind = "commit" PROVE AppliesInOrder'
        BY <2>1 DEF AppliesInOrder
      <4>1. /\ op.then = "applied" <=> op.onfail = "compensate"
            /\ op.then = "applied" =>
                 TargetsOf(op.todo) \subseteq OperationPaths(Plan[op.m][op.done + 1])
            /\ \A p \in Untouched : files[p] = Before[p] \/ p \in late
        BY <2>1 DEF BytesKnown, AppliesInOrder
      <4>2. CASE op.then = "applied"
        <5>1. op.m \in Mutation /\ op.done \in 0 .. Len(Plan[op.m]) /\ op.done # Len(Plan[op.m])
          BY <2>1, <4>2 DEF StepsInv, CommitSteps, ProjectInv, Writing
        <5>2. Untouched = WriteSet(op.m) \ WriteSetOf(op.done + 1, op.m)
              /\ Untouched' = Untouched
          BY <2>1, <4>1, <4>2 DEF Untouched, At
        <5>3. OperationPaths(Plan[op.m][op.done + 1]) \subseteq WriteSetOf(op.done + 1, op.m)
          BY <5>1, NextOperation
        <5>4. Target \notin Untouched /\ Untouched \subseteq Path
          BY <2>2, <4>1, <4>2, <5>1, <5>2, <5>3, PathsOfMutation
        <5>5. \A p \in Untouched : files'[p] = files[p]
          BY <1>1, <2>1, <5>4
        <5> QED
          BY <2>1, <2>5, <2>6, <4>1, <4>2, <5>2, <5>5 DEF AppliesInOrder
      <4>3. CASE op.then # "applied"
        <5>1. Untouched' = {}
          BY <2>1, <4>1, <4>3 DEF Untouched, At
        <5> QED
          BY <2>1, <4>1, <4>3, <5>1 DEF AppliesInOrder
      <4> QED
        BY <4>2, <4>3
    <3> QED
      BY <3>3, <3>4 DEF BytesKnown
  <2> QED
    BY <2>7, <2>8
<1> QED
  BY <1>2, <1>3

\* The next operation is applied to paths that are still as they were sealed.
LEMMA KnownApply == StepsInv /\ ProjectInv /\ BytesKnown /\ Apply => BytesKnown'
<1> SUFFICES ASSUME StepsInv, ProjectInv, BytesKnown, Apply PROVE BytesKnown'
  OBVIOUS
<1>1. op.pc = "apply" /\ UNCHANGED <<files, late>> /\ op.kind = "commit"
  BY DEF Apply, At, disk, history, StepsInv, AloneInv, Kinds, SaveSteps, CommitSteps,
         RecoverSteps, RollbackSteps
<1>2. op.m \in Mutation /\ op.done \in 0 .. Len(Plan[op.m])
  BY <1>1 DEF ProjectInv, Writing, StepsInv, CommitSteps
<1>3. CASE op.done = Len(Plan[op.m])
  <2>1. op'.pc = "verify"
    BY <1>3, GoesOnTo DEF Apply
  <2> QED
    BY <2>1, EaseKnowsThen DEF AtEase
<1>4. CASE op.done # Len(Plan[op.m])
  <2> DEFINE todo == Writes(Plan[op.m][op.done + 1], op.m, Before)
             paths == OperationPaths(Plan[op.m][op.done + 1])
  <2>1. /\ op'.pc = "write" /\ op'.kind = op.kind /\ op'.m = op.m /\ op'.journal = op.journal
        /\ op'.todo = todo /\ op'.then = "applied" /\ op'.onfail = "compensate"
        /\ op'.done = op.done
    BY <1>4, GoesOnTo DEF Apply
  <2>2. /\ op.done + 1 \in 1 .. Len(Plan[op.m])
        /\ paths \subseteq WriteSet(op.m) \ WriteSetOf(op.done, op.m)
        /\ WriteSetOf(op.done, op.m) \subseteq WriteSetOf(op.done + 1, op.m)
    BY <1>2, <1>4, NextOperation
  <2>3. \A k \in DOMAIN todo : todo[k][1] \in paths /\ todo[k][2] = After[todo[k][1]]
    <3>1. PICK i \in 1 .. Len(Plan[op.m]) : i = op.done + 1
      BY <2>2
    <3>2. \A k \in DOMAIN Writes(Plan[op.m][i], op.m, Before) :
            LET write == Writes(Plan[op.m][i], op.m, Before)[k]
            IN /\ write[1] \in OperationPaths(Plan[op.m][i])
               /\ write[2] = Outcome(op.m, Before)[write[1]]
      BY <1>2, WritesOutcome
    <3> QED
      BY <3>1, <3>2 DEF After
  <2>4. Untouched = WriteSet(op.m) \ WriteSetOf(op.done, op.m)
    BY <1>1 DEF Untouched, At
  <2>5. \A p \in Untouched : files[p] = Before[p] \/ p \in late
    BY <1>1 DEF BytesKnown, AppliesInOrder
  <2>6. Before' = Before /\ After' = After
    BY <2>1 DEF Before, After
  <2>7. TargetsOf(todo) \subseteq paths
    BY <2>3 DEF TargetsOf
  <2>8. Untouched' = WriteSet(op.m) \ WriteSetOf(op.done + 1, op.m)
    BY <2>1 DEF Untouched, At
  <2>9. Untouched' \subseteq Untouched
    BY <2>2, <2>4, <2>8
  <2> HIDE DEF todo, paths
  <2>10. WritesKnown'
    BY <1>1, <2>1, <2>2, <2>3, <2>4, <2>5, <2>6 DEF WritesKnown, Known
  <2>11. TargetsOf(op'.todo) \subseteq OperationPaths(Plan[op'.m][op'.done + 1])
    BY <2>1, <2>7 DEF paths
  <2>12. AppliesInOrder'
    BY <1>1, <2>1, <2>5, <2>6, <2>9, <2>11 DEF AppliesInOrder
  <2> QED
    BY <2>10, <2>12 DEF BytesKnown
<1> QED
  BY <1>3, <1>4

\* It is done with them then.
LEMMA KnownApplied == StepsInv /\ ProjectInv /\ BytesKnown /\ OperationApplied => BytesKnown'
<1> SUFFICES ASSUME StepsInv, ProjectInv, BytesKnown, OperationApplied PROVE BytesKnown'
  OBVIOUS
<1>1. /\ op.pc = "applied" /\ UNCHANGED <<files, late>> /\ op'.pc = "apply"
      /\ op'.kind = op.kind /\ op'.m = op.m /\ op'.journal = op.journal
      /\ op'.done = op.done + 1
  BY DEF OperationApplied, StepsInv, AloneInv, Shape, At, disk, history
<1>2. op.kind = "commit"
  BY <1>1 DEF StepsInv, AloneInv, Kinds, SaveSteps, CommitSteps, RecoverSteps, RollbackSteps
<1>3. op.onfail = "compensate" /\ \A p \in Untouched : files[p] = Before[p] \/ p \in late
  BY <1>1, <1>2 DEF BytesKnown, AppliesInOrder
<1>4. Untouched' = Untouched
  BY <1>1, <1>3 DEF Untouched, At
<1>5. Before' = Before
  BY <1>1 DEF Before
<1> QED
  BY <1>1, <1>3, <1>4, <1>5 DEF BytesKnown, WritesKnown, AppliesInOrder

\* Decisions that write a journal next, or go elsewhere without a write.
LEMMA KnownDecisions ==
  /\ StepsInv /\ ProjectInv
  /\ \/ Verify \/ Inventory \/ RollBack \/ Scan \/ RecoverReceipt
     \/ FileFails /\ op.onfail # "end"
  => BytesKnown'
<1> SUFFICES ASSUME StepsInv, ProjectInv,
                    \/ Verify \/ Inventory \/ RollBack \/ Scan \/ RecoverReceipt
                    \/ FileFails /\ op.onfail # "end"
             PROVE  BytesKnown'
  OBVIOUS
<1>1. CASE RequireRecovery
  BY <1>1, RecoveryKnown
<1>2. CASE \E pc \in {"inventory", "compensate", "scan"} : Goto(pc)
  <2>1. op'.pc \in {"inventory", "compensate", "scan"}
    BY <1>2, GoesOnTo
  <2> QED
    BY <2>1, EaseKnowsThen DEF AtEase
<1>3. CASE Verify
  BY <1>1, <1>2, <1>3 DEF Verify
<1>4. CASE Inventory
  <2>1. Journal("Committed", op.journal.seen, Revision).state = "Committed"
    BY DEF Journal
  <2> QED
    BY <1>2, <1>4, <2>1, RecordsKnown DEF Inventory
<1>5. CASE RollBack
  <2>1. [op.journal EXCEPT !.state = "RolledBack"].state = "RolledBack"
    BY DEF StepsInv, JournalShape, IsJournal
  <2> QED
    BY <1>5, <2>1, RecordsKnown DEF RollBack
<1>6. CASE Scan
  <2>1. op'.pc \in {"classify", "receipt"} /\ op'.kind = "recover"
    <3>1. PICK m \in Unresolved :
            op' = [op EXCEPT !.m = m, !.journal = journals[m],
                             !.pc = IF Incomplete(m) THEN "classify" ELSE "receipt"]
      BY <1>6 DEF Scan
    <3>2. op.kind = "recover"
      BY <1>6 DEF Scan, At, StepsInv, AloneInv, Kinds
    <3> QED
      BY <3>1, <3>2 DEF StepsInv, AloneInv, Shape
  <2> QED
    BY <2>1, EaseKnowsThen DEF AtEase
<1>7. CASE RecoverReceipt
  <2>1. op' = NoOp \/ Goto("scan")
    BY <1>7 DEF RecoverReceipt, End
  <2>2. CASE op' = NoOp
    BY <2>2, EaseKnowsThen DEF AtEase, NoOp
  <2> QED
    BY <1>2, <2>1, <2>2
<1>8. CASE FileFails /\ op.onfail # "end"
  <2>1. op.pc \in {"write", "swap"}
    BY <1>8 DEF FileFails, WriteCutOff, At
  <2>2. op.onfail \in {"mark", "compensate"}
    BY <1>8, <2>1 DEF StepsInv, AloneInv, Kinds, SaveSteps, CommitSteps, RecoverSteps,
                      RollbackSteps
  <2>3. RequireRecovery \/ Goto("compensate")
    BY <1>8, <2>2 DEF FileFails, OnFailure
  <2> QED
    BY <1>1, <1>2, <2>3
<1> QED
  BY <1>3, <1>4, <1>5, <1>6, <1>7, <1>8

\* Decisions to restore.
LEMMA KnownRestores ==
  /\ StepsInv /\ ProjectInv
  /\ Compensate \/ Classify \/ Recheck \/ Finalize \/ Revise
  => BytesKnown'
<1> SUFFICES ASSUME StepsInv, ProjectInv,
                    Compensate \/ Classify \/ Recheck \/ Finalize \/ Revise
             PROVE  BytesKnown'
  OBVIOUS
<1>1. CASE RequireRecovery
  BY <1>1, RecoveryKnown
<1>2. /\ op.pc \in Deciding /\ op.kind # "save" /\ UNCHANGED files
      /\ op.pc \in {"compensate", "classify", "recheck", "finalize", "revise"}
  BY DEF Compensate, Classify, Recheck, Finalize, Revise, At, disk, Deciding, AtWork, StepsInv,
         AloneInv, SaveSteps
<1>3. op.m \in Mutation
  BY <1>2, DecidingWorks DEF ProjectInv, JournalInHand
<1>4. CASE \/ \E state \in {"RolledBack", "Aborted"} : Record([op.journal EXCEPT !.state = state])
           \/ Record(Journal("Committed", op.journal.seen, Revision))
  <2>1. \A state \in {"RolledBack", "Aborted"} : [op.journal EXCEPT !.state = state].state = state
    BY DEF StepsInv, JournalShape, IsJournal
  <2>2. Journal("Committed", op.journal.seen, Revision).state = "Committed"
    BY DEF Journal
  <2>3. CASE \E state \in {"RolledBack", "Aborted"} : Record([op.journal EXCEPT !.state = state])
    <3>1. PICK state \in {"RolledBack", "Aborted"} : Record([op.journal EXCEPT !.state = state])
      BY <2>3
    <3> QED
      BY <2>1, <3>1, RecordsKnown
  <2> QED
    BY <1>4, <2>2, <2>3, RecordsKnown
<1>5. WriteSet(op.m) \in SUBSET WriteSet(op.m) /\ ExactAfter \in SUBSET WriteSet(op.m)
  BY DEF ExactAfter
<1>6. CASE Compensate
  <2>1. CASE Holds(Applied(op.done, op.m, Before))
    <3>1. op.kind = "commit"
      BY <1>2, <1>6 DEF Compensate, At, StepsInv, AloneInv, Kinds, RecoverSteps, RollbackSteps
    <3>2. op.done \in 0 .. Len(Plan[op.m])
      BY <3>1 DEF ProjectInv, Writing
    <3>3. \A p \in WriteSet(op.m) : files[p] \in {Before[p], After[p]}
      BY <1>3, <2>1, <3>2, AppliedPart DEF Holds, After
    <3>4. Restore(WriteSet(op.m), Before, "rollBack", "end")
      BY <1>6, <2>1 DEF Compensate
    <3> QED
      BY <1>2, <1>5, <3>3, <3>4, RestoreKnown
  <2> QED
    BY <1>1, <1>6, <2>1 DEF Compensate
<1>7. CASE Classify
  <2>1. CASE Record([op.journal EXCEPT !.state = "Aborted"])
    BY <1>4, <2>1
  <2>2. ASSUME NEW todo \in Restoring(ExactAfter, Before),
               op' = [op EXCEPT !.todo = todo, !.all = (ExactAfter = WriteSet(op.m)),
                                !.then = "recheck", !.onfail = "mark", !.pc = "write"]
        PROVE  BytesKnown'
    <3>1. /\ op'.pc = "write" /\ op'.m = op.m /\ op'.todo = todo /\ op'.then = "recheck"
          /\ op'.onfail = "mark" /\ op'.journal = op.journal
      BY <2>2 DEF StepsInv, AloneInv, Shape
    <3>2. Before' = Before /\ After' = After
      BY <3>1 DEF Before, After
    <3>3. Before \in Contents
      BY <1>2, DecidingWorks DEF ProjectInv, JournalInHand
    <3>4. \A p \in ExactAfter : files[p] \in {Before[p], After[p]}
      BY DEF ExactAfter
    <3> QED
      BY <1>2, <1>3, <1>5, <3>1, <3>2, <3>3, <3>4, RestoresKnown
  <2> QED
    BY <1>1, <1>7, <2>1, <2>2 DEF Classify
<1>8. CASE Recheck
  <2>1. CASE Holds(Before) /\ Restore(WriteSet(op.m), After, "finalize", "mark")
    <3>1. \A p \in WriteSet(op.m) : files[p] \in {Before[p], After[p]}
      BY <2>1 DEF Holds
    <3> QED
      BY <1>2, <1>5, <2>1, <3>1, RestoreKnown
  <2>2. CASE Goto("rollBack")
    <3>1. op'.pc = "rollBack"
      BY <2>2, GoesOnTo
    <3> QED
      BY <3>1, EaseKnowsThen DEF AtEase
  <2> QED
    BY <1>1, <1>8, <2>1, <2>2 DEF Recheck
<1>9. CASE Finalize
  <2>1. CASE Record(Journal("Committed", op.journal.seen, Revision))
    BY <1>4, <2>1
  <2>2. CASE KnownBytes /\ Restore(ExactAfter, Before, "rollBack", "end")
    <3>1. \A p \in ExactAfter : files[p] \in {Before[p], After[p]}
      BY DEF ExactAfter
    <3> QED
      BY <1>2, <1>5, <2>2, <3>1, RestoreKnown
  <2> QED
    BY <1>1, <1>9, <2>1, <2>2 DEF Finalize
<1>10. CASE Revise
  <2>1. CASE Record([op.journal EXCEPT !.state = "RolledBack"])
    BY <1>4, <2>1
  <2>2. CASE Holds(Before) /\ Restore(WriteSet(op.m), After, "end", "end")
    <3>1. \A p \in WriteSet(op.m) : files[p] \in {Before[p], After[p]}
      BY <2>2 DEF Holds
    <3> QED
      BY <1>2, <1>5, <2>2, <3>1, RestoreKnown
  <2>3. CASE End
    BY <2>3, EaseKnowsThen DEF AtEase, End, NoOp
  <2> QED
    BY <1>10, <2>1, <2>2, <2>3 DEF Revise
<1> QED
  BY <1>6, <1>7, <1>8, <1>9, <1>10

\* Every step of the operation at work preserves it.
LEMMA KnownStep ==
  StepsInv /\ ProjectInv /\ BytesKnown /\ OperationStep => BytesKnown'
<1> SUFFICES ASSUME StepsInv, ProjectInv, BytesKnown, OperationStep PROVE BytesKnown'
  OBVIOUS
<1>1. CASE op' = NoOp
  BY <1>1, EaseKnowsThen DEF AtEase, NoOp
<1>2. CASE \/ JournalFails \/ CommitReceipt \/ Recovered \/ RolledBack \/ DocumentSaved \/ Return
           \/ ReadFails \/ Die
           \/ FileFails /\ op.onfail = "end"
  BY <1>1, <1>2 DEF JournalFails, CommitReceipt, Recovered, RolledBack, DocumentSaved, Return,
                    ReadFails, Die, FileFails, OnFailure, Fail, End
<1> QED
  BY <1>2, KnownJournals, KnownWrites, KnownApply, KnownApplied, KnownDecisions, KnownRestores
     DEF OperationStep

\* So does every other step.
LEMMA KnownNext == StepsInv /\ ProjectInv /\ BytesKnown /\ [Next]_vars => BytesKnown'
<1> SUFFICES ASSUME StepsInv, ProjectInv, BytesKnown, [Next]_vars PROVE BytesKnown'
  OBVIOUS
<1>1. CASE OperationStep
  BY <1>1, KnownStep
<1>2. ASSUME NEW c \in Process, NEW m \in Mutation, BeginCommit(c, m) PROVE BytesKnown'
  <2>1. /\ UNCHANGED files /\ op'.pc = "journal" /\ op'.kind = "commit" /\ op'.m = m
        /\ op'.journal.seen = Revision
    BY <1>2 DEF BeginCommit, NoOp, Journal
  <2>2. Before' = files
    BY <2>1 DEF Before, Revision
  <2> QED
    BY <2>1, <2>2 DEF BytesKnown, WritesKnown, AppliesInOrder
<1>3. ASSUME NEW c \in Process, NEW m \in Mutation, BeginRollback(c, m) PROVE BytesKnown'
  <2>1. PICK todo \in Restoring(WriteSet(m), journals[m].seen.files) :
          op' = [NoOp EXCEPT !.kind = "rollback", !.by = c, !.m = m,
                             !.journal = journals[m], !.todo = todo,
                             !.then = "revise", !.onfail = "mark", !.pc = "write"]
    BY <1>3 DEF BeginRollback
  <2>2. /\ op'.kind = "rollback" /\ op'.pc = "write" /\ op'.m = m /\ op'.todo = todo
        /\ op'.onfail = "mark" /\ op'.journal = journals[m] /\ UNCHANGED files
    BY <1>3, <2>1 DEF BeginRollback, NoOp, disk
  <2>3. journals[m].seen.files \in Contents
    BY <1>3, AtRest DEF BeginRollback, ProjectInv, StandingSealed
  <2>4. \A p \in WriteSet(m) : files[p] = Outcome(m, journals[m].seen.files)[p]
    BY <1>3 DEF BeginRollback
  <2>5. Before' = journals[m].seen.files /\ After' = Outcome(m, journals[m].seen.files)
    BY <2>2 DEF Before, After
  <2>6. WriteSet(m) \in SUBSET WriteSet(m)
    OBVIOUS
  <2> QED
    BY <2>2, <2>3, <2>4, <2>5, <2>6, RestoresKnown
<1>4. ASSUME NEW c \in Process, NEW p \in Document, BeginSave(c, p) PROVE BytesKnown'
  <2>1. op'.kind = "save"
    BY <1>4 DEF BeginSave, NoOp
  <2> QED
    BY <2>1 DEF BytesKnown, WritesKnown, AppliesInOrder
<1>5. ASSUME NEW c \in Process, BeginOpen(c) PROVE BytesKnown'
  <2>1. op'.kind = "recover" /\ op'.pc = "scan"
    BY <1>5 DEF BeginOpen, NoOp
  <2> QED
    BY <2>1, EaseKnowsThen DEF AtEase
<1>6. ASSUME NEW p \in Path, ExternalWrite(p) PROVE BytesKnown'
  <2>1. /\ UNCHANGED op /\ files' = [files EXCEPT ![p] = External]
        /\ late' = late \cup ({p} \cap Trusted)
    BY <1>6 DEF ExternalWrite
  <2>2. \A q \in Path : q # p => files'[q] = files[q]
    BY <2>1 DEF ProjectInv, ProjectTyped, Contents
  <2>3. Before' = Before /\ After' = After /\ Target' = Target /\ Untouched' = Untouched
    BY <2>1 DEF Before, After, Target, Untouched, At
  <2>4. op.todo \in Seq(Path \X Bytes)
    BY DEF ProjectInv, Writing
  <2>5. \A i \in DOMAIN op.todo : op.todo[i][1] \in Path /\ op.todo[i][1] \in Trusted
    <3> TAKE i \in DOMAIN op.todo
    <3>1. op.todo[i] \in Path \X Bytes
      BY <2>4
    <3> QED
      BY <3>1 DEF Trusted
  <2>6. op.kind = "commit" => Untouched \subseteq Trusted /\ Untouched \subseteq Path
    <3> SUFFICES ASSUME op.kind = "commit"
                 PROVE  Untouched \subseteq Trusted /\ Untouched \subseteq Path
      OBVIOUS
    <3>1. Untouched \subseteq WriteSet(op.m)
      BY DEF Untouched, At
    <3>2. WriteSet(op.m) \subseteq Path
      BY PathsOfMutation DEF StepsInv, CommitSteps
    <3> QED
      BY <3>1, <3>2 DEF Trusted
  <2>7. \A q \in Path : q \in Trusted => files'[q] = files[q] \/ q \in late'
    BY <2>1, <2>2
  <2>8. WritesKnown'
    <3> SUFFICES ASSUME op.kind # "save", op.pc \in {"write", "swap"}, NEW i \in DOMAIN op.todo
                 PROVE  LET q == op.todo[i][1]
                        IN /\ op.todo[i][2] \in {Before[q], After[q]}
                           /\ \/ files'[q] \in {Before[q], After[q]}
                              \/ q \in late'
                              \/ op.pc = "swap" /\ q = Target /\ files'[q] = Missing
      BY <2>1, <2>3 DEF WritesKnown, Known
    <3>1. LET q == op.todo[i][1]
          IN /\ op.todo[i][2] \in {Before[q], After[q]}
             /\ Known(q) \/ (op.pc = "swap" /\ q = Target /\ files[q] = Missing)
      BY DEF BytesKnown, WritesKnown
    <3> QED
      BY <2>1, <2>5, <2>7, <3>1 DEF Known
  <2>9. AppliesInOrder'
    BY <2>1, <2>3, <2>6, <2>7 DEF BytesKnown, AppliesInOrder
  <2> QED
    BY <2>8, <2>9 DEF BytesKnown
<1>7. CASE UNCHANGED vars \/ \E c \in Process : Refresh(c) \/ FinishRefresh(c) \/ Close(c)
  <2>1. UNCHANGED <<files, op, late>>
    BY <1>7 DEF Refresh, FinishRefresh, Close, vars, disk, history
  <2>2. Before' = Before /\ After' = After /\ Target' = Target /\ Untouched' = Untouched
    BY <2>1 DEF Before, After, Target, Untouched, At
  <2> QED
    BY <2>1, <2>2 DEF BytesKnown, WritesKnown, AppliesInOrder, Known
<1> QED
  BY <1>1, <1>2, <1>3, <1>4, <1>5, <1>6, <1>7 DEF Next

\* Bytes of an outsider or of a saved document are replaced by nothing but a
\* save, unless the operation at work sealed them or they arrived after it had
\* last looked: every path that is going to be written was compared with its
\* sealed states, in the code right before the write or in that of the commit.
THEOREM ForeignBytesAlwaysKept == Spec => ForeignBytesKept
<1>1. Init => BytesKnown
  BY EaseKnows DEF Init, AtEase, NoOp
<1>2. StepsInv /\ ProjectInv /\ BytesKnown /\ [Next]_vars
      => \A p \in Path :
           files[p] \in {External, Saved} /\ files'[p] # files[p] =>
             \/ files'[p] = External
             \/ op.kind = "save"
             \/ files[p] \in {Before[p], After[p]}
             \/ p \in late
  <2> SUFFICES ASSUME StepsInv, ProjectInv, BytesKnown, [Next]_vars, NEW p \in Path,
                      files[p] \in {External, Saved}, files'[p] # files[p],
                      files'[p] # External, op.kind # "save"
               PROVE  files[p] \in {Before[p], After[p]} \/ p \in late
    OBVIOUS
  <2>1. files = [q \in Path |-> files[q]]
    BY DEF ProjectInv, ProjectTyped, Contents
  <2>2. FileAway \/ FileIn \/ WriteCutOff \/ (op.pc = "swap" /\ SetFile(op.kept))
    <3>1. ~\E q \in Path : ExternalWrite(q)
      BY <2>1 DEF ExternalWrite
    <3>2. ~UNCHANGED files
      OBVIOUS
    <3>3. OperationStep
      BY <3>1, <3>2 DEF Next, vars, disk, BeginCommit, BeginRollback, BeginSave, BeginOpen,
                        Refresh, FinishRefresh, Close
    <3> QED
      BY <3>2, <3>3 DEF OperationStep, JournalAway, JournalIn, JournalFails, WritesDone,
           FileFails, Apply, OperationApplied, Verify, Inventory, Compensate, RollBack,
           CommitReceipt, Scan, Recovered, Classify, Recheck, Finalize, RecoverReceipt, Revise,
           RolledBack, DocumentSaved, Return, ReadFails, Die, disk, At
  <2>3. /\ op.pc \in {"write", "swap"} /\ op.todo # << >>
        /\ \E v : files' = [files EXCEPT ![Target] = v]
    <3>1. CASE FileAway
      BY <3>1 DEF FileAway, SetFile, At
    <3>2. CASE FileIn
      BY <3>2 DEF FileIn, SetFile, At, ProjectInv, Writing
    <3>3. CASE WriteCutOff \/ (op.pc = "swap" /\ SetFile(op.kept))
      BY <3>3, CutOffTyped
    <3> QED
      BY <2>2, <3>1, <3>2, <3>3
  <2>4. p = Target
    BY <2>1, <2>3
  <2>5. Head(op.todo) = op.todo[1] /\ 1 \in DOMAIN op.todo
    BY <2>3, TailFacts DEF ProjectInv, Writing
  <2>6. Known(p) \/ files[p] = Missing
    BY <2>3, <2>4, <2>5 DEF BytesKnown, WritesKnown, Target
  <2>7. files[p] # Missing
    BY DEF Missing, External, Saved
  <2> QED
    BY <2>6, <2>7 DEF Known
<1> QED
  BY <1>1, <1>2, KnownNext, ProjectInvAlways, PTL DEF Spec, ForeignBytesKept
=============================================================================

------------------------- MODULE AuthoringMutation -------------------------
(***************************************************************************)
(* Multi-file mutations of an authoring project                            *)
(* (authoring_project_context/src/mutation.rs): a journal per mutation, a  *)
(* non-blocking OS lock held by the one operation that runs, and the       *)
(* recovery every open begins with.  Files and journals are replaced by    *)
(* two renames, old file away and new file in, and a process may die, or a *)
(* call of the file system fail, before, between and after them.           *)
(*                                                                         *)
(* All paths are canonical sources, and so is what a failed or interrupted *)
(* write leaves beside them: a revision is all of that.  Tampered control  *)
(* files are left out, and so are the manifest and the limits of a         *)
(* mutation, but for a project found unqualified after it.                 *)
(***************************************************************************)
EXTENDS Naturals, Sequences, FiniteSets, Functions

CONSTANTS
  Process,       \* processes, each with one context of the project
  Path,          \* canonical source paths, numbered in the order of their names
  Document,      \* the paths that are saved as documents
  Present,       \* the paths that hold a file at first
  Mutation,      \* mutation ids, numbered in the order of their names
  Plan,          \* the operations of each mutation, a sequence
  MaxTrouble,    \* bound: failing calls, dying processes and outside writes
  MaxSave        \* bound: documents saved

Operation == [kind : {"CreateOrReplace", "Delete"}, path : Path]
               \cup [kind : {"Move"}, path : Path, from : Path]

OperationPaths(o) == {o.path} \cup (IF o.kind = "Move" THEN {o.from} ELSE {})

ASSUME NumberedAssumption == Present \cup Document \subseteq Path /\ Path \subseteq Nat /\ Mutation \subseteq Nat

\* ProjectMutation::validate: one operation per path.
ASSUME PlanAssumption ==
  /\ Plan \in [Mutation -> Seq(Operation) \ {<< >>}]
  /\ \A m \in Mutation : \A i, j \in DOMAIN Plan[m] :
       /\ i # j => OperationPaths(Plan[m][i]) \cap OperationPaths(Plan[m][j]) = {}
       /\ Plan[m][i].kind = "Move" => Plan[m][i].from # Plan[m][i].path

ASSUME FaultAssumption ==
  MaxTrouble \in Nat /\ MaxSave \in Nat

\* What a path holds.
Missing == <<"missing">>
External == <<"external">>
Saved == <<"saved">>
Old(p) == <<"old", p>>
New(m) == <<"new", m>>

\* A revision that is not known.
NoRevision == << >>

\* A context that is not open.
Shut == [seen |-> NoRevision, refreshing |-> FALSE]

VARIABLES
  files,      \* the project: what each path holds
  strays,     \* how many temporary and backup files were left in it for good
  journals,   \* the journal.json of each mutation
  receipts,   \* mutations whose receipt is on disk
  used,       \* mutations whose transaction directory exists
  contexts,   \* per process, the revision its context last saw, if it is open,
              \* and whether an open or a save is on its way to see it anew
  op,         \* the operation that holds the lock
  faults, externals, saves,
  late,       \* history: paths an outsider wrote after the operation had checked them
  torn        \* history: an operation ended half done and no journal tells so

disk == <<files, strays, journals, receipts, used>>
bounds == <<faults, externals, saves>>
history == <<late, torn>>
vars == <<disk, contexts, op, bounds, history>>

\* CanonicalSourceInventory::capture
Revision == [files |-> files, strays |-> strays]

-----------------------------------------------------------------------------
(* Mutations *)

WriteSetOf(n, m) == UNION {OperationPaths(Plan[m][i]) : i \in 1 .. n}
WriteSet(m) == WriteSetOf(Len(Plan[m]), m)

\* apply_operation: a move writes its target and then removes its source.
Writes(o, m, before) ==
  CASE o.kind = "CreateOrReplace" -> << <<o.path, New(m)>> >>
    [] o.kind = "Delete" -> << <<o.path, Missing>> >>
    [] o.kind = "Move" -> << <<o.path, before[o.from]>>, <<o.from, Missing>> >>

\* expected_after_states, of the first n operations
Applied(n, m, before) ==
  [p \in Path |->
     IF p \notin WriteSetOf(n, m) THEN before[p]
     ELSE LET o == Plan[m][CHOOSE i \in 1 .. n : p \in OperationPaths(Plan[m][i])]
          IN CASE o.kind = "CreateOrReplace" -> New(m)
               [] o.kind = "Move" /\ o.path = p -> before[o.from]
               [] OTHER -> Missing]

Outcome(m, before) == Applied(Len(Plan[m]), m, before)

-----------------------------------------------------------------------------
(* Journals *)

NoJournal == [state |-> "None", seen |-> NoRevision, after |-> NoRevision]

\* seen is before_revision; its files are the before material.
Journal(state, seen, after) == [state |-> state, seen |-> seen, after |-> after]

Incomplete(m) == journals[m].state \in {"Prepared", "Applying"}
Blocked(m) == journals[m].state = "RecoveryRequired"

\* reject_nonterminal_journal
NonterminalJournal == \E m \in Mutation : Incomplete(m) \/ Blocked(m)

NoOp == [kind |-> "none", by |-> "none", m |-> 0, pc |-> "idle", todo |-> << >>,
         then |-> "end", onfail |-> "end", done |-> 0, all |-> FALSE,
         kept |-> Missing, journal |-> NoJournal, prior |-> NoJournal]

Idle == op.pc = "idle"
At(pc) == op.pc = pc
Goto(pc) == op' = [op EXCEPT !.pc = pc]

\* The operation the lock holder works on, and its sealed states.
Before == op.journal.seen.files
After == Outcome(op.m, Before)
Holds(expected) == \A p \in WriteSet(op.m) : files[p] = expected[p]

Init ==
  /\ files = [p \in Path |-> IF p \in Present THEN Old(p) ELSE Missing]
  /\ strays = 0
  /\ journals = [m \in Mutation |-> NoJournal]
  /\ receipts = {}
  /\ used = {}
  /\ contexts = [c \in Process |-> Shut]
  /\ op = NoOp
  /\ faults = 0 /\ externals = 0 /\ saves = 0
  /\ late = {} /\ torn = FALSE

MayGoWrong == faults + externals < MaxTrouble

IsOpen(c) == contexts[c].seen # NoRevision /\ ~contexts[c].refreshing

\* current_revision
Publish(c, revision) ==
  contexts' = [contexts EXCEPT ![c] = [seen |-> revision, refreshing |-> FALSE]]

-----------------------------------------------------------------------------
(* The end of an operation: the lock is released, by Drop or by the death  *)
(* of the process.                                                         *)

Target == Head(op.todo)[1]
Value == Head(op.todo)[2]

\* A rollback gave back files under a journal that reads committed.
HalfRolledBack ==
  /\ op.kind = "rollback"
  /\ journals'[op.m].state = "Committed"
  /\ \E p \in WriteSet(op.m) : files'[p] \notin {After[p], External}

\* A recovery_required record was lost between its two renames.
LostRecord == op.journal.state = "RecoveryRequired" /\ journals'[op.m] = NoJournal

\* A document was lost between its own.
LostDocument == op.kind = "save" /\ At("swap") /\ files'[Target] = Missing

EndsTorn == HalfRolledBack \/ LostRecord \/ LostDocument

End ==
  /\ op' = NoOp
  /\ torn' = (torn \/ EndsTorn)
  /\ late' = {}

\* The lock is released and the call goes on, to refresh its context.
LeaveToRefresh ==
  contexts' = [contexts EXCEPT ![op.by] = [seen |-> @.seen, refreshing |-> TRUE]]

\* The operation returns an error; its context stays as it was.
Fail ==
  /\ End
  /\ UNCHANGED contexts

-----------------------------------------------------------------------------
(* write_json_atomic, for journals *)

Record(journal) ==
  op' = [op EXCEPT !.journal = journal, !.prior = NoJournal, !.pc = "journal"]

\* mark_recovery_required, and the same three lines elsewhere
RequireRecovery == Record([op.journal EXCEPT !.state = "RecoveryRequired"])

\* What follows a journal that was written.
AfterJournal ==
  LET state == op.journal.state
  IN CASE state = "Prepared" -> Record([op.journal EXCEPT !.state = "Applying"])
       [] state = "Applying" -> Goto("apply")
       [] state = "Committed" -> Goto("receipt")
       [] state = "RolledBack" /\ op.kind = "rollback" -> Goto("rolledBack")
       [] state \in {"RolledBack", "Aborted"} /\ op.kind = "recover" -> Goto("scan")
       [] OTHER -> Goto("end")

JournalAway ==
  /\ At("journal")
  /\ journals[op.m] # NoJournal
  /\ journals' = [journals EXCEPT ![op.m] = NoJournal]
  /\ op' = [op EXCEPT !.pc = "journalSwap", !.prior = journals[op.m]]
  /\ UNCHANGED <<files, strays, receipts, used, contexts, bounds, history>>

JournalIn ==
  /\ \/ At("journalSwap")
     \/ At("journal") /\ journals[op.m] = NoJournal
  /\ journals' = [journals EXCEPT ![op.m] = op.journal]
  /\ AfterJournal
  /\ UNCHANGED <<files, strays, receipts, used, contexts, bounds, history>>

\* The old journal is given back, if that does not fail as well.
JournalFails ==
  /\ MayGoWrong /\ faults' = faults + 1
  /\ \/ At("journal") /\ UNCHANGED journals
     \/ At("journalSwap") /\ journals' = [journals EXCEPT ![op.m] = op.prior]
     \/ At("journalSwap") /\ UNCHANGED journals
  /\ UNCHANGED <<files, strays, receipts, used, externals, saves>>
  /\ Fail

-----------------------------------------------------------------------------
(* write_project_file_atomic, remove_project_file, restore_states *)

\* The writes of todo, then the next step; onfail is where an error leads.
WriteAll(todo, then, onfail) ==
  op' = [op EXCEPT !.todo = todo, !.then = then, !.onfail = onfail, !.pc = "write"]

\* restore_states: the paths in descending order, of which there is one
Descending(paths) ==
  {order \in [1 .. Cardinality(paths) -> paths] :
     /\ Range(order) = paths
     /\ \A i, j \in DOMAIN order : i < j => order[i] > order[j]}

Restoring(paths, state) ==
  {[i \in DOMAIN order |-> <<order[i], state[order[i]]>>] : order \in Descending(paths)}

Restore(paths, state, then, onfail) ==
  \E todo \in Restoring(paths, state) : WriteAll(todo, then, onfail)

SetFile(value) == files' = [files EXCEPT ![Target] = value]
NextWrite == op' = [op EXCEPT !.todo = Tail(@), !.pc = "write", !.kept = Missing]

WritesDone ==
  /\ At("write") /\ op.todo = << >>
  /\ Goto(op.then)
  /\ UNCHANGED <<disk, contexts, bounds, history>>

\* The old file goes away under another name.
FileAway ==
  /\ At("write") /\ op.todo # << >>
  /\ Value # Missing /\ files[Target] # Missing
  /\ SetFile(Missing)
  /\ op' = [op EXCEPT !.pc = "swap", !.kept = files[Target]]
  /\ UNCHANGED <<strays, journals, receipts, used, contexts, bounds, history>>

\* The new file comes in, or the file is removed.
FileIn ==
  /\ \/ At("swap")
     \/ At("write") /\ op.todo # << >> /\ (Value = Missing \/ files[Target] = Missing)
  /\ SetFile(Value)
  /\ NextWrite
  /\ UNCHANGED <<strays, journals, receipts, used, contexts, bounds, history>>

OnFailure ==
  IF op.onfail = "end" THEN Fail
  ELSE /\ IF op.onfail = "mark" THEN RequireRecovery ELSE Goto(op.onfail)
       /\ UNCHANGED <<contexts, history>>

LeavesStray == strays' = strays + 1

\* What a write that does not end well leaves: nothing or its temporary file
\* before the first rename, the old file as a backup after it, and beside the
\* new file if only the removal of the backup is missing.
WriteCutOff ==
  \/ /\ At("write") /\ op.todo # << >> /\ UNCHANGED files
     /\ UNCHANGED strays \/ (Value # Missing /\ LeavesStray)
  \/ At("swap") /\ (UNCHANGED files \/ SetFile(Value)) /\ LeavesStray

\* An error gives the old file back, if that does not fail as well; that a
\* backup cannot be removed is an error although the new file is in place.
FileFails ==
  /\ MayGoWrong /\ faults' = faults + 1
  /\ \/ WriteCutOff
     \/ At("swap") /\ SetFile(op.kept) /\ UNCHANGED strays
  /\ UNCHANGED <<journals, receipts, used, externals, saves>>
  /\ OnFailure

-----------------------------------------------------------------------------
(* commit_mutation *)

\* Faulty variant: nonterminal journals are not looked for.
BeginCommitOverJournal(c, m) ==
  /\ Idle
  /\ IsOpen(c)
  /\ m \notin used
  /\ contexts[c].seen = Revision   \* expected_revision_id, verify_expected_before
  /\ \A i \in DOMAIN Plan[m] :
       Plan[m][i].kind = "Move" => files[Plan[m][i].from] # Missing
  /\ used' = used \cup {m}
  /\ op' = [NoOp EXCEPT !.kind = "commit", !.by = c, !.m = m, !.pc = "journal",
                        !.journal = Journal("Prepared", Revision, NoRevision)]
  /\ UNCHANGED <<files, strays, journals, receipts, contexts, bounds, history>>

BeginCommit(c, m) ==
  /\ Idle
  /\ IsOpen(c)
  /\ m \notin used
  /\ ~NonterminalJournal
  /\ contexts[c].seen = Revision   \* expected_revision_id, verify_expected_before
  /\ \A i \in DOMAIN Plan[m] :
       Plan[m][i].kind = "Move" => files[Plan[m][i].from] # Missing
  /\ used' = used \cup {m}
  /\ op' = [NoOp EXCEPT !.kind = "commit", !.by = c, !.m = m, !.pc = "journal",
                        !.journal = Journal("Prepared", Revision, NoRevision)]
  /\ UNCHANGED <<files, strays, journals, receipts, contexts, bounds, history>>

Apply ==
  /\ At("apply")
  /\ IF op.done = Len(Plan[op.m]) THEN Goto("verify")
     ELSE WriteAll(Writes(Plan[op.m][op.done + 1], op.m, Before),
                   "applied", "compensate")
  /\ UNCHANGED <<disk, contexts, bounds, history>>

OperationApplied ==
  /\ At("applied")
  /\ op' = [op EXCEPT !.done = @ + 1, !.pc = "apply"]
  /\ UNCHANGED <<disk, contexts, bounds, history>>

Verify ==
  /\ At("verify")
  /\ IF Holds(After) THEN Goto("inventory") ELSE RequireRecovery
  /\ UNCHANGED <<disk, contexts, bounds, history>>

UnknownChanges ==
  \/ strays # op.journal.seen.strays
  \/ \E p \in Path \ WriteSet(op.m) : files[p] # Before[p]

\* The second disjunct is also what happens to a project found unqualified.
Inventory ==
  /\ At("inventory")
  /\ \/ ~UnknownChanges /\ Record(Journal("Committed", op.journal.seen, Revision))
     \/ Goto("compensate")
  /\ UNCHANGED <<disk, contexts, bounds, history>>

\* Faulty variant: restores without looking.
CompensateUnchecked ==
  /\ At("compensate")
  /\ Restore(WriteSet(op.m), Before, "rollBack", "end")
  /\ UNCHANGED <<disk, contexts, bounds, history>>

\* compensate_or_require_recovery
Compensate ==
  /\ At("compensate")
  /\ IF Holds(Applied(op.done, op.m, Before))
       THEN Restore(WriteSet(op.m), Before, "rollBack", "end")
       ELSE RequireRecovery
  /\ UNCHANGED <<disk, contexts, bounds, history>>

RollBack ==
  /\ At("rollBack")
  /\ Record([op.journal EXCEPT !.state = "RolledBack"])
  /\ UNCHANGED <<disk, contexts, bounds, history>>

\* The receipt of the commit itself needs no further check.
CommitReceipt ==
  /\ At("receipt") /\ op.kind = "commit"
  /\ receipts' = receipts \cup {op.m}
  /\ Publish(op.by, op.journal.after)
  /\ UNCHANGED <<files, strays, journals, used, bounds>>
  /\ End

-----------------------------------------------------------------------------
(* recover_project *)

Receiptless(m) == journals[m].state = "Committed" /\ m \notin receipts

\* Faulty variant: recovery_required is not refused.
BeginOpenBlocked(c) ==
  /\ Idle
  /\ contexts[c] = Shut
  /\ \A m, n \in Mutation :
       m # n /\ Incomplete(m) /\ Incomplete(n) => WriteSet(m) \cap WriteSet(n) = {}
  /\ op' = [NoOp EXCEPT !.kind = "recover", !.by = c, !.pc = "scan"]
  /\ UNCHANGED <<disk, contexts, bounds, history>>

\* A journal that is being replaced when its process dies is no journal: the
\* directory is skipped.
BeginOpen(c) ==
  /\ Idle
  /\ contexts[c] = Shut
  /\ \A m \in Mutation : ~Blocked(m)
  /\ \A m, n \in Mutation :
       m # n /\ Incomplete(m) /\ Incomplete(n) => WriteSet(m) \cap WriteSet(n) = {}
  /\ op' = [NoOp EXCEPT !.kind = "recover", !.by = c, !.pc = "scan"]
  /\ UNCHANGED <<disk, contexts, bounds, history>>

Unresolved == {m \in Mutation : Incomplete(m) \/ Receiptless(m)}

\* Faulty variant: a committed mutation without a receipt counts as incomplete.
ScanReclassifying ==
  /\ At("scan")
  /\ \E m \in Unresolved :
       /\ \A n \in Unresolved : m <= n
       /\ op' = [op EXCEPT !.m = m, !.journal = journals[m],
                          !.pc = "classify"]
  /\ UNCHANGED <<disk, contexts, bounds, history>>

Scan ==
  /\ At("scan")
  /\ \E m \in Unresolved :
       /\ \A n \in Unresolved : m <= n
       /\ op' = [op EXCEPT !.m = m, !.journal = journals[m],
                          !.pc = IF Incomplete(m) THEN "classify" ELSE "receipt"]
  /\ UNCHANGED <<disk, contexts, bounds, history>>

\* The lock goes before the manifest and the sources are read: FinishRefresh.
Recovered ==
  /\ At("scan")
  /\ Unresolved = {}
  /\ LeaveToRefresh
  /\ UNCHANGED <<disk, bounds>>
  /\ End

\* Paths that hold the sealed after state and not the before state.
ExactAfter == {p \in WriteSet(op.m) : files[p] = After[p] /\ files[p] # Before[p]}
KnownBytes == \A p \in WriteSet(op.m) : files[p] \in {Before[p], After[p]}

\* Faulty variant: a mutation that is not applied whole counts as not applied.
ClassifyHasty ==
  /\ At("classify")
  /\ \/ ~KnownBytes /\ RequireRecovery
     \/ /\ KnownBytes /\ ExactAfter # WriteSet(op.m)
        /\ Record([op.journal EXCEPT !.state = "Aborted"])
     \/ /\ KnownBytes /\ ExactAfter = WriteSet(op.m)
        /\ \E todo \in Restoring(ExactAfter, Before) :
             op' = [op EXCEPT !.todo = todo, !.all = (ExactAfter = WriteSet(op.m)),
                              !.then = "recheck", !.onfail = "mark", !.pc = "write"]
  /\ UNCHANGED <<disk, contexts, bounds, history>>

\* recover_incomplete_journal, restore_recovery_states
Classify ==
  /\ At("classify")
  /\ \/ ~KnownBytes /\ RequireRecovery
     \/ /\ KnownBytes /\ ExactAfter = {}
        /\ Record([op.journal EXCEPT !.state = "Aborted"])
     \/ /\ KnownBytes /\ ExactAfter # {}
        /\ \E todo \in Restoring(ExactAfter, Before) :
             op' = [op EXCEPT !.todo = todo, !.all = (ExactAfter = WriteSet(op.m)),
                              !.then = "recheck", !.onfail = "mark", !.pc = "write"]
  /\ UNCHANGED <<disk, contexts, bounds, history>>

\* A mutation that was applied whole is applied again to the content it was
\* prepared from, if that is what is left.
Recheck ==
  /\ At("recheck")
  /\ \/ ~Holds(Before) /\ RequireRecovery
     \/ /\ Holds(Before) /\ op.all /\ Revision = op.journal.seen
        /\ Restore(WriteSet(op.m), After, "finalize", "mark")
     \/ Holds(Before) /\ ~(op.all /\ Revision = op.journal.seen) /\ Goto("rollBack")
  /\ UNCHANGED <<disk, contexts, bounds, history>>

Finalize ==
  /\ At("finalize")
  /\ \/ /\ ~UnknownChanges /\ Holds(After)
        /\ Record(Journal("Committed", op.journal.seen, Revision))
     \/ KnownBytes /\ Restore(ExactAfter, Before, "rollBack", "end")
     \/ ~KnownBytes /\ RequireRecovery
  /\ UNCHANGED <<disk, contexts, bounds, history>>

\* Faulty variant: the receipt is proved and not written.
RecoverReceiptUnwritten ==
  /\ At("receipt") /\ op.kind = "recover"
  /\ UNCHANGED <<disk, contexts, bounds>>
  /\ IF Revision = op.journal.after /\ Holds(After)
       THEN Goto("scan") /\ UNCHANGED history
       ELSE End

\* ensure_committed_receipt: provable only while the project is what it was.
RecoverReceipt ==
  /\ At("receipt") /\ op.kind = "recover"
  /\ UNCHANGED <<files, strays, journals, used, contexts, bounds>>
  /\ IF Revision = op.journal.after /\ Holds(After)
       THEN /\ receipts' = receipts \cup {op.m}
            /\ Goto("scan")
            /\ UNCHANGED history
       ELSE End /\ UNCHANGED receipts

-----------------------------------------------------------------------------
(* rollback_mutation *)

BeginRollback(c, m) ==
  /\ Idle
  /\ IsOpen(c)
  /\ ~NonterminalJournal
  /\ m \in receipts
  /\ journals[m].state = "Committed"
  /\ Revision = journals[m].after
  /\ \A p \in WriteSet(m) : files[p] = Outcome(m, journals[m].seen.files)[p]
  /\ \E todo \in Restoring(WriteSet(m), journals[m].seen.files) :
       op' = [NoOp EXCEPT !.kind = "rollback", !.by = c, !.m = m,
                          !.journal = journals[m], !.todo = todo,
                          !.then = "revise", !.onfail = "mark", !.pc = "write"]
  /\ UNCHANGED <<disk, contexts, bounds, history>>

\* The restored revision has to be the one before the mutation.
Revise ==
  /\ At("revise")
  /\ UNCHANGED <<disk, contexts, bounds>>
  /\ \/ /\ Revision = op.journal.seen
        /\ Record([op.journal EXCEPT !.state = "RolledBack"])
        /\ UNCHANGED history
     \/ /\ Revision # op.journal.seen /\ Holds(Before)
        /\ Restore(WriteSet(op.m), After, "end", "end")
        /\ UNCHANGED history
     \/ ~Holds(Before) /\ End

RolledBack ==
  /\ At("rolledBack")
  /\ Publish(op.by, op.journal.seen)
  /\ UNCHANGED <<disk, bounds>>
  /\ End

-----------------------------------------------------------------------------
(* save_document takes the lock and looks at no journal. *)

BeginSave(c, p) ==
  /\ Idle
  /\ IsOpen(c)
  /\ saves < MaxSave /\ saves' = saves + 1
  /\ op' = [NoOp EXCEPT !.kind = "save", !.by = c, !.pc = "write",
                        !.todo = IF files[p] = Saved THEN << >> ELSE << <<p, Saved>> >>,
                        !.then = "saved"]
  /\ UNCHANGED <<disk, contexts, faults, externals, history>>

DocumentSaved ==
  /\ At("saved")
  /\ LeaveToRefresh
  /\ UNCHANGED <<disk, bounds>>
  /\ End

-----------------------------------------------------------------------------
(* Everything else *)

\* An operation that gave up returns its error.
Return ==
  /\ At("end")
  /\ UNCHANGED <<disk, bounds>>
  /\ Fail

\* A read of the project, or the write of a receipt, fails.
ReadFails ==
  /\ op.pc \in {"verify", "inventory", "compensate", "scan", "classify", "recheck",
                "finalize", "receipt", "revise", "rolledBack"}
  /\ MayGoWrong /\ faults' = faults + 1
  /\ UNCHANGED <<disk, externals, saves>>
  /\ Fail

\* The process of the operation dies, in the middle of a write or not.
Die ==
  /\ ~Idle
  /\ MayGoWrong /\ faults' = faults + 1
  /\ WriteCutOff \/ (~At("swap") /\ UNCHANGED <<files, strays>>)
  /\ contexts' = [contexts EXCEPT ![op.by] = Shut]
  /\ UNCHANGED <<journals, receipts, used, externals, saves>>
  /\ End

\* refresh takes no lock and looks at no journal: what it captures may be the
\* half-done work of another process.
Refresh(c) ==
  /\ IsOpen(c) /\ contexts[c].seen # Revision
  /\ Idle \/ op.by # c
  /\ Publish(c, Revision)
  /\ UNCHANGED <<disk, op, bounds, history>>

\* The refresh at the end of open and save_document.  An open that fails here,
\* or at the manifest it reads first, leaves no context; a save that fails here
\* leaves the one there was.
FinishRefresh(c) ==
  /\ contexts[c].refreshing
  /\ \/ Publish(c, Revision) /\ UNCHANGED bounds
     \/ /\ MayGoWrong /\ faults' = faults + 1
        /\ Publish(c, contexts[c].seen)
        /\ UNCHANGED <<externals, saves>>
  /\ UNCHANGED <<disk, op, history>>

\* Also the death of a process that holds no lock.
Close(c) ==
  /\ contexts[c] # Shut
  /\ Idle \/ op.by # c
  /\ contexts' = [contexts EXCEPT ![c] = Shut]
  /\ UNCHANGED <<disk, op, bounds, history>>

\* Paths the operation is going to write without looking at them again: what
\* it is restoring, and what a commit checked before its journal was written.
Untouched ==
  CASE op.pc \in {"journal", "journalSwap"} /\ op.journal.state \in {"Prepared", "Applying"} ->
         WriteSet(op.m)
    [] At("apply") -> WriteSet(op.m) \ WriteSetOf(op.done, op.m)
    [] op.pc \in {"write", "swap", "applied"} /\ op.onfail = "compensate" ->
         WriteSet(op.m) \ WriteSetOf(op.done + 1, op.m)
    [] OTHER -> {}

Trusted ==
  {op.todo[i][1] : i \in DOMAIN op.todo} \cup (IF op.kind = "commit" THEN Untouched ELSE {})

ExternalWrite(p) ==
  /\ MayGoWrong /\ externals' = externals + 1
  /\ files' = [files EXCEPT ![p] = External]
  /\ late' = late \cup ({p} \cap Trusted)
  /\ UNCHANGED <<strays, journals, receipts, used, contexts, op, faults, saves, torn>>

OperationStep ==
  \/ JournalAway \/ JournalIn \/ JournalFails
  \/ WritesDone \/ FileAway \/ FileIn \/ FileFails
  \/ Apply \/ OperationApplied \/ Verify \/ Inventory \/ Compensate \/ RollBack
  \/ CommitReceipt
  \/ Scan \/ Recovered \/ Classify \/ Recheck \/ Finalize
  \/ RecoverReceipt
  \/ Revise \/ RolledBack
  \/ DocumentSaved \/ Return \/ ReadFails \/ Die

Next ==
  \/ OperationStep
  \/ \E c \in Process :
       \/ \E m \in Mutation : BeginCommit(c, m) \/ BeginRollback(c, m)
       \/ \E p \in Document : BeginSave(c, p)
       \/ BeginOpen(c) \/ Refresh(c) \/ FinishRefresh(c) \/ Close(c)
  \/ \E p \in Path : ExternalWrite(p)

Spec == Init /\ [][Next]_vars

\* The process that holds the lock runs.
FairSpec == Spec /\ WF_vars(OperationStep)

-----------------------------------------------------------------------------
(* What the project promises *)

\* The journal a mutation has, also while it is being replaced.
Standing(m) ==
  IF op.m = m /\ At("journalSwap") THEN op.prior
  ELSE IF op.m = m /\ op.kind = "commit" /\ journals[m] = NoJournal THEN op.journal
  ELSE journals[m]

Undecided(m) ==
  LET journal == Standing(m)
  IN \/ journal.state \in {"Prepared", "Applying"}
     \/ journal.state = "RecoveryRequired" /\ journal.after = NoRevision

InEffect(m) ==
  LET journal == Standing(m)
  IN \/ journal.state = "Committed"
     \/ journal.state = "RecoveryRequired" /\ journal.after # NoRevision

Undoing(m) ==
  /\ InEffect(m)
  /\ \/ op.kind = "rollback" /\ op.m = m
     \/ Standing(m).state = "RecoveryRequired"

\* Undecided mutations have not happened and unfinished rollbacks have not
\* begun, whatever the files hold.
Content ==
  LET undecided == {m \in Mutation : Undecided(m)}
      undoing == {m \in Mutation : Undoing(m)}
  IN [p \in Path |->
        IF \E m \in undecided : p \in WriteSet(m) THEN
          Standing(CHOOSE m \in undecided : p \in WriteSet(m)).seen.files[p]
        ELSE IF \E m \in undoing : p \in WriteSet(m) THEN
          LET m == CHOOSE n \in undoing : p \in WriteSet(n)
          IN Outcome(m, Standing(m).seen.files)[p]
        ELSE IF op.kind = "save" /\ At("swap") /\ p = Target THEN op.kept
        ELSE files[p]]

Log == [m \in Mutation |-> IF InEffect(m) THEN Standing(m).seen.files ELSE NoRevision]

Project == INSTANCE AtomicProject
             WITH content <- Content, log <- Log, NoContent <- NoRevision

\* Whatever crashes, fails or is written from outside in between, a mutation
\* happens whole or not at all, and a rollback gives the content it
\* was prepared from back, but for the three ways to tear a project.
ImplementsAtomicProject == Project!Spec

\* At most one mutation is unfinished, so that recovery never has to choose
\* between two (recovery_journals_conflict) and no commit builds on a change
\* that recovery may still take back.
AtMostOneUnfinished ==
  \A m, n \in Mutation :
    (Incomplete(m) \/ Blocked(m)) /\ (Incomplete(n) \/ Blocked(n)) => m = n

\* Bytes of an outsider or of a saved document are replaced by nothing but a
\* save, unless the operation at work knows them: it sealed them, or they
\* arrived after it had last looked.
ForeignBytesKept ==
  [][\A p \in Path :
       files[p] \in {External, Saved} /\ files'[p] # files[p] =>
         \/ files'[p] = External
         \/ op.kind = "save"
         \/ files[p] \in {Before[p], After[p]}
         \/ p \in late]_vars

\* What has been decided of a mutation stays so, while its journal is kept:
\* aborted and rolled back are final, and only a rollback undoes a commit.
OutcomeIsFinal ==
  [][\A m \in Mutation :
       /\ journals[m].state \in {"Aborted", "RolledBack"} => journals'[m] = journals[m]
       /\ InEffect(m) => InEffect(m)' \/ journals'[m] = NoJournal \/ op.kind = "rollback"]_vars

\* An open that gets past its recovery has settled all there was: when it gives
\* the lock back no undecided mutation hides in the files, and no unfinished
\* rollback, but one that a journal knows nothing of.  What it then reads
\* without the lock, another process may have begun to change again.
RecoverySettlesAll ==
  [][\A c \in Process :
       op.kind = "recover" /\ ~contexts[c].refreshing /\ contexts'[c].refreshing
         => files = Content]_vars

\* An operation ends, and its lock with it.
OperationEnds == ~Idle ~> Idle

-----------------------------------------------------------------------------
(* What the design says and the code does not do *)

\* Whoever opens a project after a crash finds a mutation committed, undone
\* or in need of recovery, never half undone without a word.
NoSilentHalfRollback ==
  \A m \in Mutation :
    Idle /\ journals[m].state = "Committed" /\ (\E c \in Process : contexts[c].seen = Revision)
      => LET before == journals[m].seen.files
             after == Outcome(m, before)
         IN ~\E p, q \in WriteSet(m) :
               /\ files[p] = before[p] /\ files[p] # after[p]
               /\ files[q] = after[q] /\ files[q] # before[q]
=============================================================================

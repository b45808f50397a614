-------------------------- MODULE DirectoryPublish --------------------------
(***************************************************************************)
(* atomic_directory_publish of engine_content: a directory is written      *)
(* beside the output, the old output is moved to a backup, the new one     *)
(* takes its name and the backup is removed.  Each rename is one step of   *)
(* the file system; removing a tree is not, and an interrupted removal     *)
(* leaves a torn directory.  Any operation may fail and the process may    *)
(* die between any two; the next attempt recovers first.  One attempt runs *)
(* at a time: the lock refuses a second publisher before it has changed    *)
(* anything, and the operating system releases it when its owner dies.     *)
(*                                                                         *)
(* Attempts are numbered; a directory is known by the attempt that wrote   *)
(* it and by whether it is whole.  A validator rejects what is torn; of    *)
(* what is whole it may reject what its own attempt did not plan, and it   *)
(* may fail to read it.  The recovery does not tell these apart.           *)
(***************************************************************************)
EXTENDS Naturals

CONSTANTS
  MaxAttempt,   \* bound: attempts ever made
  Accepts,      \* <<n, m>>: the validator of attempt n accepts what m wrote
  Misreads      \* a validator may fail to read what recovery shows it

Attempt == 1 .. MaxAttempt

ASSUME AttemptAssumption == MaxAttempt \in Nat
\* write_staging and validate of one attempt agree
ASSUME AcceptsAssumption == /\ Accepts \subseteq Attempt \X Attempt
                            /\ \A n \in Attempt : <<n, n>> \in Accepts
ASSUME MisreadsAssumption == Misreads \in BOOLEAN

VARIABLES
  final,       \* final_dir
  backup,      \* backup_dir
  staging,     \* staging directories on disk, by attempt
  attempt,     \* the latest attempt
  pc,
  had_final,
  error,       \* the Err that waits for the staging directory to be removed
  outcome,     \* what the latest attempt that ended returned, by error code
  before,      \* history: the output the attempt found
  base         \* history: the output its recovery settled on

diskVars == <<final, backup, staging>>
vars == <<diskVars, attempt, pc, had_final, error, outcome, before, base>>

Directory == [version : 0 .. MaxAttempt, whole : BOOLEAN]
Absent == [version |-> 0, whole |-> FALSE]
Exists(dir) == dir # Absent

Content(dir) == IF dir.whole THEN dir.version ELSE 0

\* The attempt whose content is published, in its place or in the backup.
Output == IF final.whole THEN final.version ELSE Content(backup)

Init ==
  /\ final = Absent
  /\ backup = Absent
  /\ staging = {}
  /\ attempt = 0
  /\ pc = "idle"
  /\ had_final = FALSE
  /\ error = "none"
  /\ outcome = "none"
  /\ before = 0
  /\ base = 0

Goto(next) == pc' = next /\ UNCHANGED <<error, outcome>>
Return(result) == pc' = "idle" /\ outcome' = result /\ error' = "none"
\* the closure failed: its staging directory goes, then the error is returned
Fail(result) == pc' = "abandon" /\ error' = result /\ UNCHANGED outcome

\* The lock is acquired.
Begin ==
  /\ pc = "idle"
  /\ attempt < MaxAttempt
  /\ attempt' = attempt + 1
  /\ before' = Output
  /\ base' = Output
  /\ Goto("recover")
  /\ UNCHANGED <<diskVars, had_final>>

-----------------------------------------------------------------------------
(* recover_publish_orphan *)

Accepted(dir) == dir.whole /\ <<attempt, dir.version>> \in Accepts

JudgeFinalUnread == Goto("dropBackup") /\ UNCHANGED base

\* Both directories exist: the validator of this attempt decides.  A final
\* directory it does not accept, whole or not, makes place for the backup.
JudgeFinal ==
  \/ Accepted(final) /\ Goto("dropBackup") /\ UNCHANGED base
  \/ /\ ~Accepted(final) \/ Misreads
     /\ Goto("dropFinal")
     /\ base' = Content(backup)

Recover ==
  /\ pc = "recover"
  /\ \/ ~Exists(backup) /\ Goto("stage") /\ UNCHANGED base
     \/ Exists(backup) /\ ~Exists(final) /\ Goto("restore") /\ UNCHANGED base
     \/ Exists(backup) /\ Exists(final) /\ JudgeFinal
  /\ UNCHANGED <<diskVars, attempt, had_final, before>>

\* remove_dir_all takes the entries away one by one and may fail before any.
Torn(dir) == [dir EXCEPT !.whole = FALSE]

\* The error is that of any failed cleanup, though nothing was published.
DropBackup ==
  /\ pc = "dropBackup"
  /\ \/ backup' = Torn(backup) /\ UNCHANGED <<pc, error, outcome>>
     \/ UNCHANGED backup /\ Return("cleanup_failed")
     \/ backup' = Absent /\ Goto("stage")
  /\ UNCHANGED <<final, staging, attempt, had_final, before, base>>

DropFinal ==
  /\ pc = "dropFinal"
  /\ \/ final' = Torn(final) /\ UNCHANGED <<pc, error, outcome>>
     \/ UNCHANGED final /\ Return("final_cleanup_failed")
     \/ final' = Absent /\ Goto("restore")
  /\ UNCHANGED <<backup, staging, attempt, had_final, before, base>>

Restored == final' = backup /\ backup' = Absent

Restore ==
  /\ pc = "restore"
  /\ \/ Restored /\ Goto("stage")
     \/ UNCHANGED <<final, backup>> /\ Return("restore_failed")
  /\ UNCHANGED <<staging, attempt, had_final, before, base>>

-----------------------------------------------------------------------------
(* Staging *)

CreateStaging ==
  /\ pc = "stage"
  /\ \/ staging' = staging \cup {attempt} /\ Goto("write")
     \/ Return("failed") /\ UNCHANGED staging
  /\ UNCHANGED <<final, backup, attempt, had_final, before, base>>

\* written and validated, or an error or a cancellation on the way
WriteStaging ==
  /\ pc = "write"
  /\ Goto("swap") \/ Fail("failed")
  /\ UNCHANGED <<diskVars, attempt, had_final, before, base>>

-----------------------------------------------------------------------------
(* The two renames *)

StageBackup ==
  /\ pc = "swap"
  /\ had_final' = Exists(final)
  /\ \/ ~Exists(final) /\ Goto("publish") /\ UNCHANGED <<final, backup>>
     \/ /\ Exists(final) /\ ~Exists(backup)
        /\ backup' = final
        /\ final' = Absent
        /\ Goto("publish")
     \/ Exists(final) /\ Fail("failed") /\ UNCHANGED <<final, backup>>
  /\ UNCHANGED <<staging, attempt, before, base>>

PublishStaging ==
  /\ pc = "publish"
  /\ \/ /\ ~Exists(final)
        /\ final' = [version |-> attempt, whole |-> TRUE]
        /\ staging' = staging \ {attempt}
        /\ Goto("check")
     \/ Goto("rollback") /\ UNCHANGED <<final, staging>>
  /\ UNCHANGED <<backup, attempt, had_final, before, base>>

CheckFinalLeavingBackup ==
  /\ pc = "check"
  /\ Return("ok") \/ Goto("rollback")
  /\ UNCHANGED <<diskVars, attempt, had_final, before, base>>

\* validate(final_dir), then the backup goes if there is one
CheckFinal ==
  /\ pc = "check"
  /\ \/ Accepted(final) /\ Exists(backup) /\ Goto("cleanup")
     \/ Accepted(final) /\ ~Exists(backup) /\ Return("ok")
     \/ Goto("rollback")
  /\ UNCHANGED <<diskVars, attempt, had_final, before, base>>

Cleanup ==
  /\ pc = "cleanup"
  /\ \/ backup' = Torn(backup) /\ UNCHANGED <<pc, error, outcome>>
     \/ UNCHANGED backup /\ Return("cleanup_failed")
     \/ backup' = Absent /\ Return("ok")
  /\ UNCHANGED <<final, staging, attempt, had_final, before, base>>

-----------------------------------------------------------------------------
(* restore_last_good *)

RollbackFinal ==
  /\ pc = "rollback"
  /\ \/ ~Exists(final) /\ Goto("giveBack") /\ UNCHANGED final
     \/ Exists(final) /\ final' = Torn(final) /\ UNCHANGED <<pc, error, outcome>>
     \/ Exists(final) /\ UNCHANGED final /\ Fail("rollback_failed")
     \/ Exists(final) /\ final' = Absent /\ Goto("giveBack")
  /\ UNCHANGED <<backup, staging, attempt, had_final, before, base>>

GiveBackNothing ==
  /\ pc = "giveBack"
  /\ Fail("failed")
  /\ UNCHANGED <<diskVars, attempt, had_final, before, base>>

\* back in place if there was an output
GiveBack ==
  /\ pc = "giveBack"
  /\ \/ had_final /\ Restored /\ Fail("failed")
     \/ had_final /\ UNCHANGED <<final, backup>> /\ Fail("rollback_failed")
     \/ ~had_final /\ UNCHANGED <<final, backup>> /\ Fail("failed")
  /\ UNCHANGED <<staging, attempt, had_final, before, base>>

\* The staging directory is removed if that is possible.
Abandon ==
  /\ pc = "abandon"
  /\ staging' \in {staging, staging \ {attempt}}
  /\ Return(error)
  /\ UNCHANGED <<final, backup, attempt, had_final, before, base>>

\* The process dies; nothing but the lock is undone.
Crash ==
  /\ pc # "idle"
  /\ Return("crashed")
  /\ UNCHANGED <<diskVars, attempt, had_final, before, base>>

Finished == pc = "idle" /\ attempt = MaxAttempt /\ UNCHANGED vars

Next ==
  \/ Begin \/ Recover \/ DropBackup \/ DropFinal \/ Restore
  \/ CreateStaging \/ WriteStaging \/ StageBackup \/ PublishStaging
  \/ CheckFinal \/ Cleanup \/ RollbackFinal \/ GiveBack \/ Abandon
  \/ Crash \/ Finished

Spec == Init /\ [][Next]_vars

-----------------------------------------------------------------------------
(* Properties *)

Pc == {"idle", "recover", "dropBackup", "dropFinal", "restore", "stage", "write",
       "swap", "publish", "check", "cleanup", "rollback", "giveBack", "abandon"}
Error == {"none", "failed", "rollback_failed"}
Outcome == Error \cup {"ok", "cleanup_failed", "final_cleanup_failed",
                       "restore_failed", "crashed"}

\* Every variable has its type.
TypeOK ==
  /\ final \in Directory /\ backup \in Directory
  /\ staging \subseteq Attempt
  /\ attempt \in 0 .. MaxAttempt
  /\ pc \in Pc
  /\ had_final \in BOOLEAN
  /\ error \in Error
  /\ outcome \in Outcome
  /\ before \in 0 .. MaxAttempt
  /\ base \in 0 .. MaxAttempt

WholeOf(n) == [version |-> n, whole |-> TRUE]
New == WholeOf(attempt)

\* The directory holds this output, or nothing if there was none.
Holds(dir, n) == IF n = 0 THEN ~dir.whole ELSE dir = WholeOf(n)

\* recover_publish_orphan: no rename of an attempt meets a directory in its way.
RenameTargetsFree ==
  /\ pc \in {"stage", "write", "swap"} => ~Exists(backup)
  /\ pc \in {"publish", "giveBack"} => ~Exists(final)
  /\ pc = "restore" => ~Exists(final)

\* 236:1003: an error before the new directory took the name, or after it was
\* taken back, leaves the last good output in its place.
FailureKeepsLastGood ==
  pc = "idle" /\ outcome = "failed" /\ before # 0 => final = WholeOf(before)

\* What the code gives instead: such a failure leaves in its place the output
\* the recovery settled on, and takes every backup away, so that the next
\* attempt has nothing to judge.  The recovery settles on what the attempt
\* found, or on the backup where its validator rejected a whole final.
FailureKeepsRecovered ==
  pc = "idle" /\ outcome = "failed" =>
    /\ Holds(final, base)
    /\ ~Exists(backup)

\* The error code tells what became of the two directories.  A failed cleanup
\* alone does not: it may be that of a recovery, before anything was staged, or
\* that of the backup of the new output; the output is whole in either case.
OutcomeTellsTheOutput ==
  pc = "idle" =>
    /\ outcome = "ok" => final = New /\ ~Exists(backup)
    /\ outcome = "cleanup_failed" =>
         \/ final = New
         \/ before # 0 /\ final = WholeOf(before)
    /\ outcome = "rollback_failed" => Holds(backup, base)
    /\ outcome = "restore_failed" => Holds(backup, base) /\ ~Exists(final)
    /\ outcome = "final_cleanup_failed" =>
         /\ Content(backup) = base
         /\ final.whole => final.version = before

-----------------------------------------------------------------------------
(* Attempts, recoveries and crashes together are an atomic replacement, with *)
(* one exception the abstract specification names: Doubt.                    *)

Clean == outcome \in {"none", "ok", "failed"}

Service == INSTANCE AtomicOutput WITH
  output <- Output, candidate <- attempt, fallback <- base,
  running <- pc # "idle",
  result <- IF Clean THEN outcome ELSE "unclean"

ImplementsAtomicOutput == Service!Spec

\* publish, recover, restore: whatever failed or died, the output that can be
\* found again is the one the attempt found, the one its recovery settled on,
\* or the one it brought; and a recovery settles on another output than it
\* found, an older one, only after an attempt that did not end cleanly.
LastGoodSurvives ==
  /\ Output \in {before, base, attempt}
  /\ base # before => base < before /\ (pc # "idle" => ~Clean)

\* At every step and after every ending it is known which directory holds the
\* old output and which the new one.
PublishInv ==
  /\ TypeOK
  /\ before < attempt \/ (before = 0 /\ attempt = 0)
  /\ base <= before
  /\ pc # "idle" => attempt # 0
  /\ final.whole => final.version # 0
  /\ backup.whole => backup.version # 0
  /\ final.whole /\ backup.whole => backup.version < final.version
  /\ RenameTargetsFree
  /\ LastGoodSurvives
  \* recovery
  /\ pc \in {"recover", "dropBackup"} => Output = before /\ base = before
  /\ pc = "dropBackup" => final = WholeOf(before)
  /\ pc = "dropFinal" => Output \in {before, base} /\ Content(backup) = base
  /\ pc = "restore" => Holds(backup, base)
  /\ pc = "recover" /\ Exists(backup) => ~Clean
  /\ pc \in {"dropBackup", "dropFinal"} => ~Clean
  \* staging and the two renames
  /\ pc \notin {"idle", "recover", "dropBackup", "dropFinal"} => Output \in {base, attempt}
  /\ pc \in {"stage", "write", "swap"} => Holds(final, base)
  /\ pc \in {"publish", "check", "rollback", "giveBack"} =>
       Holds(backup, base) /\ (had_final <=> Exists(backup))
  /\ pc \in {"check", "cleanup"} => final = New
  \* endings
  /\ error = "none" <=> pc # "abandon"
  /\ error = "failed" => Holds(final, base) /\ ~Exists(backup)
  /\ error = "rollback_failed" => Holds(backup, base)
  /\ OutcomeTellsTheOutput
  /\ FailureKeepsRecovered
  /\ pc = "idle" /\ Clean => ~Exists(backup)
=============================================================================

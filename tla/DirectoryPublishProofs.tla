------------------------ MODULE DirectoryPublishProofs ------------------------
(***************************************************************************)
(* For every number of attempts, and for validators that reject or fail to *)
(* read any directory, a publication is an atomic replacement, whatever    *)
(* fails and however often the process dies; and only after an attempt     *)
(* that ended uncleanly does a recovery give up the output it found.       *)
(***************************************************************************)
EXTENDS DirectoryPublish, TLAPS

\* Absent, torn and whole directories are told apart by their two fields.
LEMMA DirectoryFacts ==
  /\ Absent \in Directory /\ Absent.version = 0 /\ Absent.whole = FALSE
  /\ \A dir \in Directory :
       /\ dir.version \in 0 .. MaxAttempt /\ dir.whole \in BOOLEAN
       /\ Torn(dir) \in Directory
       /\ Torn(dir).whole = FALSE /\ Torn(dir).version = dir.version
       /\ dir.whole => dir = WholeOf(dir.version)
  /\ \A n \in 0 .. MaxAttempt :
       /\ WholeOf(n) \in Directory
       /\ WholeOf(n).version = n /\ WholeOf(n).whole = TRUE
<1>1. Absent \in Directory /\ Absent.version = 0 /\ Absent.whole = FALSE
  BY AttemptAssumption DEF Absent, Directory
<1>2. ASSUME NEW dir \in Directory
      PROVE  /\ dir.version \in 0 .. MaxAttempt /\ dir.whole \in BOOLEAN
             /\ Torn(dir) \in Directory
             /\ Torn(dir).whole = FALSE /\ Torn(dir).version = dir.version
             /\ dir.whole => dir = WholeOf(dir.version)
  BY DEF Directory, Torn, WholeOf
<1>3. ASSUME NEW n \in 0 .. MaxAttempt
      PROVE  /\ WholeOf(n) \in Directory
             /\ WholeOf(n).version = n /\ WholeOf(n).whole = TRUE
  BY DEF Directory, WholeOf
<1> QED
  BY <1>1, <1>2, <1>3

\* the published version is a version
LEMMA OutputType == TypeOK => Output \in 0 .. MaxAttempt
BY DirectoryFacts, AttemptAssumption DEF TypeOK, Output, Content

\* atomic_directory_publish_controlled: taking the lock starts an attempt newer
\* than the output it finds.
LEMMA BeginKeeps ==
  ASSUME PublishInv, Begin
  PROVE  PublishInv'
<1>1. TypeOK'
  BY DirectoryFacts, OutputType, AttemptAssumption
  DEF PublishInv, TypeOK, Exists, Pc, Outcome, Error, vars, diskVars, Begin, Goto, Return,
      Fail, Content, JudgeFinal, Restored, New, WholeOf
<1> QED
  BY <1>1, DirectoryFacts, AttemptAssumption
  DEF PublishInv, TypeOK, LastGoodSurvives, RenameTargetsFree, Holds, New, Output, Content,
      Clean, OutcomeTellsTheOutput, FailureKeepsRecovered, Error, Accepted,
      Exists, vars, diskVars, Begin, Goto, Return, Fail, JudgeFinal, Restored

\* recover_publish_orphan: the choice sees both directories and touches neither;
\* a rejected final is left for the backup, which is older.
LEMMA RecoverKeeps ==
  ASSUME PublishInv, Recover
  PROVE  PublishInv'
<1>1. TypeOK'
  BY DirectoryFacts, OutputType, AttemptAssumption
  DEF PublishInv, TypeOK, Exists, Pc, Outcome, Error, vars, diskVars, Recover, Goto, Return,
      Fail, Content, JudgeFinal, Restored, New, WholeOf
<1> QED
  BY <1>1, DirectoryFacts, AttemptAssumption
  DEF PublishInv, TypeOK, LastGoodSurvives, RenameTargetsFree, Holds, New, Output, Content,
      Clean, OutcomeTellsTheOutput, FailureKeepsRecovered, Error, Accepted,
      Exists, vars, diskVars, Recover, Goto, Return, Fail, JudgeFinal, Restored

\* recover_publish_orphan: a backup is only removed beside a whole output.
LEMMA DropBackupKeeps ==
  ASSUME PublishInv, DropBackup
  PROVE  PublishInv'
<1>1. /\ pc = "dropBackup" /\ error = "none" /\ final = WholeOf(before)
      /\ UNCHANGED <<final, staging, attempt, had_final, before, base>>
      /\ final.whole = TRUE /\ final.version = before /\ before # 0 /\ base = before
      /\ final \in Directory /\ backup \in Directory /\ before \in 0 .. MaxAttempt
  BY DirectoryFacts DEF DropBackup, PublishInv, TypeOK, Output
<1>2. Output' = before
  BY <1>1 DEF Output
<1>3. /\ backup' \in Directory
      /\ backup'.whole => backup' = backup
      /\ \/ pc' = "dropBackup" /\ UNCHANGED <<error, outcome>> /\ backup' = Torn(backup)
         \/ pc' = "idle" /\ outcome' = "cleanup_failed" /\ error' = "none"
         \/ pc' = "stage" /\ UNCHANGED <<error, outcome>> /\ backup' = Absent
  BY <1>1, DirectoryFacts DEF DropBackup, Goto, Return
<1>4. TypeOK'
  BY <1>1, <1>3 DEF PublishInv, TypeOK, Pc, Outcome, Error
<1>5. /\ LastGoodSurvives' /\ RenameTargetsFree'
      /\ OutcomeTellsTheOutput' /\ FailureKeepsRecovered'
  BY <1>1, <1>2, <1>3
  DEF LastGoodSurvives, RenameTargetsFree, OutcomeTellsTheOutput, FailureKeepsRecovered,
      Exists, Clean
<1>6. /\ (backup'.whole => backup'.version # 0)
      /\ (final'.whole /\ backup'.whole => backup'.version < final'.version)
  BY <1>1, <1>3 DEF PublishInv
<1>7. pc' = "dropBackup" => ~Clean'
  BY <1>1, <1>3 DEF PublishInv, Clean
<1>8. pc' = "stage" => Holds(final, base)'
  BY <1>1 DEF Holds
<1> QED
  BY <1>1, <1>2, <1>3, <1>4, <1>5, <1>6, <1>7, <1>8
  DEF PublishInv, Clean, Exists, Holds

\* recover_publish_orphan: a rejected final goes, the backup stays what it was.
LEMMA DropFinalKeeps ==
  ASSUME PublishInv, DropFinal
  PROVE  PublishInv'
<1>1. /\ pc = "dropFinal" /\ error = "none" /\ Content(backup) = base
      /\ UNCHANGED <<backup, staging, attempt, had_final, before, base>>
      /\ Output \in {before, base}
      /\ final \in Directory /\ backup \in Directory
      /\ base \in 0 .. MaxAttempt /\ before \in 0 .. MaxAttempt
      /\ backup.whole => backup.version # 0
  BY DEF DropFinal, PublishInv, TypeOK
<1>2. /\ final' \in Directory
      /\ final'.whole => final' = final
      /\ \/ pc' = "dropFinal" /\ UNCHANGED <<error, outcome>> /\ final' = Torn(final)
         \/ pc' = "idle" /\ outcome' = "final_cleanup_failed" /\ error' = "none"
         \/ pc' = "restore" /\ UNCHANGED <<error, outcome>> /\ final' = Absent
  BY <1>1, DirectoryFacts DEF DropFinal, Goto, Return
<1>3. /\ Output' \in {before, base}
      /\ final'.whole => final'.version = before
  <2>1. Output' = IF final'.whole THEN final'.version ELSE base
    BY <1>1 DEF Output
  <2>2. final.whole => Output = final.version /\ final.version # 0
    BY DEF Output, PublishInv
  <2>3. final.whole /\ backup.whole => backup.version < final.version
    BY DEF PublishInv
  <2>4. final.whole => final.version = before
    BY <1>1, <2>2, <2>3, DirectoryFacts DEF Content
  <2> QED
    BY <1>1, <1>2, <2>1, <2>4
<1>4. Holds(backup, base)
  BY <1>1, DirectoryFacts DEF Content, Holds
<1>5. TypeOK'
  BY <1>1, <1>2 DEF PublishInv, TypeOK, Pc, Outcome, Error
<1>6. Content(backup)' = base'
  BY <1>1
<1>7. OutcomeTellsTheOutput' /\ FailureKeepsRecovered' /\ RenameTargetsFree'
  BY <1>1, <1>2, <1>3, <1>6
  DEF OutcomeTellsTheOutput, FailureKeepsRecovered, RenameTargetsFree, Exists
<1>8. LastGoodSurvives'
  BY <1>1, <1>2, <1>3 DEF PublishInv, LastGoodSurvives, Clean
<1>9. /\ (final'.whole => final'.version # 0)
      /\ (final'.whole /\ backup'.whole => backup'.version < final'.version)
  BY <1>1, <1>2 DEF PublishInv
<1>10. pc' = "dropFinal" => ~Clean'
  BY <1>1, <1>2 DEF PublishInv, Clean
<1>11. pc' = "restore" => Output' = base'
  BY <1>1, <1>2, DirectoryFacts DEF Output
<1> QED
  BY <1>1, <1>2, <1>3, <1>4, <1>5, <1>6, <1>7, <1>8, <1>9, <1>10, <1>11
  DEF PublishInv, Clean, Exists, Holds

\* recover_publish_orphan: the backup takes the free place of the output.
LEMMA RestoreKeeps ==
  ASSUME PublishInv, Restore
  PROVE  PublishInv'
<1>1. TypeOK'
  BY DirectoryFacts, OutputType, AttemptAssumption
  DEF PublishInv, TypeOK, Exists, Pc, Outcome, Error, vars, diskVars, Restore, Goto, Return,
      Fail, Content, JudgeFinal, Restored, New, WholeOf
<1> QED
  BY <1>1, DirectoryFacts, AttemptAssumption
  DEF PublishInv, TypeOK, LastGoodSurvives, RenameTargetsFree, Holds, New, Output, Content,
      Clean, OutcomeTellsTheOutput, FailureKeepsRecovered, Error, Accepted,
      Exists, vars, diskVars, Restore, Goto, Return, Fail, JudgeFinal, Restored

\* Creating the staging directory, or failing to, leaves the output alone.
LEMMA CreateStagingKeeps ==
  ASSUME PublishInv, CreateStaging
  PROVE  PublishInv'
<1>1. TypeOK'
  BY DirectoryFacts, OutputType, AttemptAssumption
  DEF PublishInv, TypeOK, Attempt, Exists, Pc, Outcome, Error, vars, diskVars, CreateStaging, Goto, Return,
      Fail, Content, JudgeFinal, Restored, New, WholeOf
<1> QED
  BY <1>1, DirectoryFacts, AttemptAssumption
  DEF PublishInv, TypeOK, LastGoodSurvives, RenameTargetsFree, Holds, New, Output, Content,
      Clean, OutcomeTellsTheOutput, FailureKeepsRecovered, Error, Accepted,
      Exists, vars, diskVars, CreateStaging, Goto, Return, Fail, JudgeFinal, Restored

\* Writing and validating the staging directory leaves the output alone.
LEMMA WriteStagingKeeps ==
  ASSUME PublishInv, WriteStaging
  PROVE  PublishInv'
<1>1. TypeOK'
  BY DirectoryFacts, OutputType, AttemptAssumption
  DEF PublishInv, TypeOK, Exists, Pc, Outcome, Error, vars, diskVars, WriteStaging, Goto, Return,
      Fail, Content, JudgeFinal, Restored, New, WholeOf
<1> QED
  BY <1>1, DirectoryFacts, AttemptAssumption
  DEF PublishInv, TypeOK, LastGoodSurvives, RenameTargetsFree, Holds, New, Output, Content,
      Clean, OutcomeTellsTheOutput, FailureKeepsRecovered, Error, Accepted,
      Exists, vars, diskVars, WriteStaging, Goto, Return, Fail, JudgeFinal, Restored

\* The rename to the backup finds its name free and moves the old output whole.
LEMMA StageBackupKeeps ==
  ASSUME PublishInv, StageBackup
  PROVE  PublishInv'
<1>1. TypeOK'
  BY DirectoryFacts, OutputType, AttemptAssumption
  DEF PublishInv, TypeOK, Exists, Pc, Outcome, Error, vars, diskVars, StageBackup, Goto, Return,
      Fail, Content, JudgeFinal, Restored, New, WholeOf
<1> QED
  BY <1>1, DirectoryFacts, AttemptAssumption
  DEF PublishInv, TypeOK, LastGoodSurvives, RenameTargetsFree, Holds, New, Output, Content,
      Clean, OutcomeTellsTheOutput, FailureKeepsRecovered, Error, Accepted,
      Exists, vars, diskVars, StageBackup, Goto, Return, Fail, JudgeFinal, Restored

\* The rename to the output finds its name free; the old output is in the backup.
LEMMA PublishStagingKeeps ==
  ASSUME PublishInv, PublishStaging
  PROVE  PublishInv'
<1>1. TypeOK'
  BY DirectoryFacts, OutputType, AttemptAssumption
  DEF PublishInv, TypeOK, Exists, Pc, Outcome, Error, vars, diskVars, PublishStaging, Goto, Return,
      Fail, Content, JudgeFinal, Restored, New, WholeOf
<1> QED
  BY <1>1, DirectoryFacts, AttemptAssumption
  DEF PublishInv, TypeOK, LastGoodSurvives, RenameTargetsFree, Holds, New, Output, Content,
      Clean, OutcomeTellsTheOutput, FailureKeepsRecovered, Error, Accepted,
      Exists, vars, diskVars, PublishStaging, Goto, Return, Fail, JudgeFinal, Restored

\* The published directory is judged, neither directory is touched.
LEMMA CheckFinalKeeps ==
  ASSUME PublishInv, CheckFinal
  PROVE  PublishInv'
<1>1. TypeOK'
  BY DirectoryFacts, OutputType, AttemptAssumption
  DEF PublishInv, TypeOK, Exists, Pc, Outcome, Error, vars, diskVars, CheckFinal, Goto, Return,
      Fail, Content, JudgeFinal, Restored, New, WholeOf
<1> QED
  BY <1>1, DirectoryFacts, AttemptAssumption
  DEF PublishInv, TypeOK, LastGoodSurvives, RenameTargetsFree, Holds, New, Output, Content,
      Clean, OutcomeTellsTheOutput, FailureKeepsRecovered, Error, Accepted,
      Exists, vars, diskVars, CheckFinal, Goto, Return, Fail, JudgeFinal, Restored

\* The backup is removed when the new output is in place; a failure to remove it
\* leaves the new output.
LEMMA CleanupKeeps ==
  ASSUME PublishInv, Cleanup
  PROVE  PublishInv'
<1>1. TypeOK'
  BY DirectoryFacts, OutputType, AttemptAssumption
  DEF PublishInv, TypeOK, Exists, Pc, Outcome, Error, vars, diskVars, Cleanup, Goto, Return,
      Fail, Content, JudgeFinal, Restored, New, WholeOf
<1> QED
  BY <1>1, DirectoryFacts, AttemptAssumption
  DEF PublishInv, TypeOK, LastGoodSurvives, RenameTargetsFree, Holds, New, Output, Content,
      Clean, OutcomeTellsTheOutput, FailureKeepsRecovered, Error, Accepted,
      Exists, vars, diskVars, Cleanup, Goto, Return, Fail, JudgeFinal, Restored

\* restore_last_good: removing the new directory, wholly or partly, leaves the
\* backup as it was.
LEMMA RollbackFinalKeeps ==
  ASSUME PublishInv, RollbackFinal
  PROVE  PublishInv'
<1>1. TypeOK'
  BY DirectoryFacts, OutputType, AttemptAssumption
  DEF PublishInv, TypeOK, Exists, Pc, Outcome, Error, vars, diskVars, RollbackFinal, Goto, Return,
      Fail, Content, JudgeFinal, Restored, New, WholeOf
<1> QED
  BY <1>1, DirectoryFacts, AttemptAssumption
  DEF PublishInv, TypeOK, LastGoodSurvives, RenameTargetsFree, Holds, New, Output, Content,
      Clean, OutcomeTellsTheOutput, FailureKeepsRecovered, Error, Accepted,
      Exists, vars, diskVars, RollbackFinal, Goto, Return, Fail, JudgeFinal, Restored

\* restore_last_good: the backup is renamed back exactly if there was an output.
LEMMA GiveBackKeeps ==
  ASSUME PublishInv, GiveBack
  PROVE  PublishInv'
<1>1. TypeOK'
  BY DirectoryFacts, OutputType, AttemptAssumption
  DEF PublishInv, TypeOK, Exists, Pc, Outcome, Error, vars, diskVars, GiveBack, Goto, Return,
      Fail, Content, JudgeFinal, Restored, New, WholeOf
<1> QED
  BY <1>1, DirectoryFacts, AttemptAssumption
  DEF PublishInv, TypeOK, LastGoodSurvives, RenameTargetsFree, Holds, New, Output, Content,
      Clean, OutcomeTellsTheOutput, FailureKeepsRecovered, Error, Accepted,
      Exists, vars, diskVars, GiveBack, Goto, Return, Fail, JudgeFinal, Restored

\* Removing the staging directory of a failed attempt leaves the output alone.
LEMMA AbandonKeeps ==
  ASSUME PublishInv, Abandon
  PROVE  PublishInv'
<1>1. TypeOK'
  BY DirectoryFacts, OutputType, AttemptAssumption
  DEF PublishInv, TypeOK, Exists, Pc, Outcome, Error, vars, diskVars, Abandon, Goto, Return,
      Fail, Content, JudgeFinal, Restored, New, WholeOf
<1> QED
  BY <1>1, DirectoryFacts, AttemptAssumption
  DEF PublishInv, TypeOK, LastGoodSurvives, RenameTargetsFree, Holds, New, Output, Content,
      Clean, OutcomeTellsTheOutput, FailureKeepsRecovered, Error, Accepted,
      Exists, vars, diskVars, Abandon, Goto, Return, Fail, JudgeFinal, Restored

\* A process that dies between two operations leaves the directories to be found.
LEMMA CrashKeeps ==
  ASSUME PublishInv, Crash
  PROVE  PublishInv'
<1>1. TypeOK'
  BY DirectoryFacts, OutputType, AttemptAssumption
  DEF PublishInv, TypeOK, Exists, Pc, Outcome, Error, vars, diskVars, Crash, Goto, Return,
      Fail, Content, JudgeFinal, Restored, New, WholeOf
<1> QED
  BY <1>1, DirectoryFacts, AttemptAssumption
  DEF PublishInv, TypeOK, LastGoodSurvives, RenameTargetsFree, Holds, New, Output, Content,
      Clean, OutcomeTellsTheOutput, FailureKeepsRecovered, Error, Accepted,
      Exists, vars, diskVars, Crash, Goto, Return, Fail, JudgeFinal, Restored

\* The bound on attempts adds no step that changes a directory.
LEMMA FinishedKeeps ==
  ASSUME PublishInv, Finished
  PROVE  PublishInv'
<1>1. TypeOK'
  BY DirectoryFacts, OutputType, AttemptAssumption
  DEF PublishInv, TypeOK, Exists, Pc, Outcome, Error, vars, diskVars, Finished, Goto, Return,
      Fail, Content, JudgeFinal, Restored, New, WholeOf
<1> QED
  BY <1>1, DirectoryFacts, AttemptAssumption
  DEF PublishInv, TypeOK, LastGoodSurvives, RenameTargetsFree, Holds, New, Output, Content,
      Clean, OutcomeTellsTheOutput, FailureKeepsRecovered, Error, Accepted,
      Exists, vars, diskVars, Finished, Goto, Return, Fail, JudgeFinal, Restored

\* Before the first attempt there is no directory and nothing to lose.
LEMMA PublishInit == Init => PublishInv
<1>1. Init => TypeOK
  BY AttemptAssumption, DirectoryFacts DEF Init, TypeOK, Pc, Outcome, Error
<1>2. Init => Output = 0
  BY DirectoryFacts DEF Init, Output, Content
<1> QED
  BY <1>1, <1>2, DirectoryFacts
  DEF Init, PublishInv, LastGoodSurvives, RenameTargetsFree, OutcomeTellsTheOutput,
      FailureKeepsRecovered, Clean, Exists

\* Every operation of atomic_directory_publish_controlled, its failures and the
\* death of the process preserve the inductive invariant.
LEMMA PublishNext ==
  ASSUME PublishInv, [Next]_vars
  PROVE  PublishInv'
<1>1. CASE UNCHANGED vars
  BY <1>1, FinishedKeeps
  DEF PublishInv, TypeOK, LastGoodSurvives, RenameTargetsFree, Holds, New, Output,
      Content, Clean, OutcomeTellsTheOutput, FailureKeepsRecovered, Exists, vars, diskVars
<1>2. CASE Next
  BY <1>2, BeginKeeps, RecoverKeeps, DropBackupKeeps, DropFinalKeeps, RestoreKeeps,
    CreateStagingKeeps, WriteStagingKeeps, StageBackupKeeps, PublishStagingKeeps,
    CheckFinalKeeps, CleanupKeeps, RollbackFinalKeeps, GiveBackKeeps, AbandonKeeps,
    CrashKeeps, FinishedKeeps
  DEF Next
<1> QED
  BY <1>1, <1>2

\* At every step of publish, recover and restore, and after every ending, it is
\* known which directory holds the old output and which the new one.
THEOREM PublishInvAlways == Spec => []PublishInv
BY PublishInit, PublishNext, PTL DEF Spec

\* Whatever failed or died, the output that can be found again is the one the
\* attempt found, the one its recovery settled on, or the one it brought; and a
\* recovery settles on an older output than it found only after an attempt that
\* did not end cleanly.
THEOREM LastGoodAlwaysSurvives == Spec => []LastGoodSurvives
<1>1. PublishInv => LastGoodSurvives
  BY DEF PublishInv
<1> QED
  BY <1>1, PublishInvAlways, PTL

\* A plain failure leaves in its place the output the recovery settled on, and
\* no backup for the next attempt to judge.
THEOREM FailureAlwaysKeepsRecovered == Spec => []FailureKeepsRecovered
<1>1. PublishInv => FailureKeepsRecovered
  BY DEF PublishInv
<1> QED
  BY <1>1, PublishInvAlways, PTL

\* What each error code says of the two directories is true of them.
THEOREM OutcomeAlwaysTellsTheOutput == Spec => []OutcomeTellsTheOutput
<1>1. PublishInv => OutcomeTellsTheOutput
  BY DEF PublishInv
<1> QED
  BY <1>1, PublishInvAlways, PTL

\* An attempt ends, by itself or by a crash, without touching the output, and
\* what it returns agrees with it.
LEMMA EndIsTold ==
  ASSUME PublishInv, PublishInv', Next, pc # "idle", pc' = "idle"
  PROVE  /\ Output' = Output
         /\ UNCHANGED <<attempt, before, base>>
         /\ outcome' \in Outcome \ {"none"}
         /\ outcome' = "ok" => Output' = attempt
         /\ outcome' = "failed" => Output' = base
<1>1. UNCHANGED <<attempt, before, base>> /\ outcome' \in Outcome \ {"none"}
  BY DEF Next, Begin, Recover, JudgeFinal, DropBackup, DropFinal, Restore, CreateStaging,
    WriteStaging, StageBackup, PublishStaging, CheckFinal, Cleanup, RollbackFinal,
    GiveBack, Abandon, Crash, Finished, Goto, Return, Fail, vars, Outcome, Error,
    PublishInv, TypeOK
<1>2. Output' = Output
  <2>1. UNCHANGED final
    BY DEF Next, Begin, Recover, JudgeFinal, DropBackup, DropFinal, Restore,
      CreateStaging, WriteStaging, StageBackup, PublishStaging, CheckFinal, Cleanup,
      RollbackFinal, GiveBack, Abandon, Crash, Finished, Goto, Return, Fail, vars,
      diskVars, Restored
  <2>2. UNCHANGED backup \/ (pc = "cleanup" /\ final = New)
    BY DEF Next, Begin, Recover, JudgeFinal, DropBackup, DropFinal, Restore,
      CreateStaging, WriteStaging, StageBackup, PublishStaging, CheckFinal, Cleanup,
      RollbackFinal, GiveBack, Abandon, Crash, Finished, Goto, Return, Fail, vars,
      diskVars, Restored, PublishInv
  <2> QED
    BY <2>1, <2>2, DirectoryFacts DEF Output, Content, PublishInv, TypeOK, New
<1>3. outcome' = "ok" => Output' = attempt
  <2>1. ASSUME outcome' = "ok"
        PROVE  final' = WholeOf(attempt)
    BY <1>1, <2>1 DEF PublishInv, OutcomeTellsTheOutput, New
  <2> QED
    BY <1>1, <2>1, DirectoryFacts DEF Output, PublishInv, TypeOK
<1>4. outcome' = "failed" => Output' = base
  <2>1. ASSUME outcome' = "failed"
        PROVE  Holds(final, base)' /\ ~Exists(backup)'
    BY <1>1, <2>1 DEF PublishInv, FailureKeepsRecovered
  <2> QED
    BY <1>1, <2>1, DirectoryFacts DEF Output, Content, Holds, Exists, PublishInv, TypeOK
<1> QED
  BY <1>1, <1>2, <1>3, <1>4

\* Every step of an attempt is a step of the atomic replacement or invisible.
LEMMA PublishStep ==
  ASSUME PublishInv, PublishInv', [Next]_vars
  PROVE  [Service!Next]_(Service!outputVars)
<1>1. CASE UNCHANGED vars
  BY <1>1 DEF vars, diskVars, Output, Content, Clean, Service!outputVars
<1>2. CASE Begin
  <2>1. Output' = Output
    BY <1>2 DEF Begin, diskVars, Output, Content
  <2> QED
    BY <1>2, <2>1 DEF Begin, Goto, Clean, Service!Next, Service!Begin
<1>3. CASE Next /\ pc # "idle" /\ pc' = "idle"
  BY <1>3, EndIsTold DEF Service!Next, Service!End, Clean, Outcome, Error
<1>4. CASE Next /\ pc # "idle" /\ pc' # "idle" /\ base' = base
  <2>1. UNCHANGED <<attempt, outcome>>
    BY <1>4
    DEF Next, Begin, Recover, JudgeFinal, DropBackup, DropFinal, Restore, CreateStaging,
        WriteStaging, StageBackup, PublishStaging, CheckFinal, Cleanup, RollbackFinal,
        GiveBack, Abandon, Crash, Finished, Goto, Return, Fail, vars
  <2>2. Output' = Output \/ Output' \in {base, attempt}
    <3>1. CASE pc' \notin {"idle", "recover", "dropBackup", "dropFinal"}
      BY <1>4, <2>1, <3>1 DEF PublishInv
    <3>2. CASE DropFinal
      <4>1. backup' = backup /\ Content(backup) = base
        BY <3>2 DEF DropFinal, PublishInv
      <4>2. final'.whole => final' = final
        BY <1>4, <3>2, DirectoryFacts DEF DropFinal, PublishInv, TypeOK
      <4> QED
        BY <4>1, <4>2 DEF Output
    <3>3. CASE pc' \in {"recover", "dropBackup", "dropFinal"} /\ ~DropFinal
      <4>1. pc \in {"recover", "dropBackup"} /\ UNCHANGED before
        BY <1>4, <3>3
        DEF Next, Begin, Recover, JudgeFinal, DropBackup, DropFinal, Restore,
            CreateStaging, WriteStaging, StageBackup, PublishStaging, CheckFinal,
            Cleanup, RollbackFinal, GiveBack, Abandon, Crash, Finished, Goto, Return,
            Fail, vars
      <4>2. Output = base
        BY <4>1 DEF PublishInv
      <4>3. Output' \in {before', base'}
        BY <3>3 DEF PublishInv
      <4> QED
        BY <1>4, <4>1, <4>2, <4>3 DEF PublishInv
    <3> QED
      BY <1>4, <3>1, <3>2, <3>3
  <2> QED
    BY <1>4, <2>1, <2>2 DEF Service!Next, Service!Decide, Service!outputVars, Clean
<1>5. CASE Next /\ pc # "idle" /\ pc' # "idle" /\ base' # base
  <2>1. /\ pc = "recover" /\ pc' = "dropFinal" /\ base' = Content(backup)
        /\ UNCHANGED <<final, backup, attempt, outcome>>
        /\ Exists(backup)
    BY <1>5
    DEF Next, Begin, Recover, JudgeFinal, DropBackup, DropFinal, Restore, CreateStaging,
        WriteStaging, StageBackup, PublishStaging, CheckFinal, Cleanup, RollbackFinal,
        GiveBack, Abandon, Crash, Finished, Goto, diskVars, vars
  <2>2. Output' = Output /\ Output = base /\ ~Clean
    BY <2>1 DEF PublishInv, Output, Content
  <2>3. base' \in 0 .. Output
    BY <2>1, <2>2, AttemptAssumption DEF PublishInv, TypeOK
  <2> QED
    BY <1>5, <2>1, <2>2, <2>3
    DEF Service!Next, Service!Doubt, Clean
<1>6. CASE Next /\ ~Begin /\ pc = "idle"
  BY <1>1, <1>6
  DEF Next, Recover, DropBackup, DropFinal, Restore, CreateStaging, WriteStaging,
      StageBackup, PublishStaging, CheckFinal, Cleanup, RollbackFinal, GiveBack,
      Abandon, Crash, Finished
<1> QED
  BY <1>1, <1>2, <1>3, <1>4, <1>5, <1>6 DEF Next

\* Attempts, recoveries and crashes together are an atomic replacement.
THEOREM PublishIsAtomic == Spec => ImplementsAtomicOutput
<1>1. Init => Service!Init
  BY DEF Init, Service!Init, Output, Content, Clean, Absent
<1>2. PublishInv /\ PublishInv' /\ [Next]_vars
        => [Service!Next]_(Service!outputVars)
  BY PublishStep
<1> QED
  BY <1>1, <1>2, PublishInvAlways, PTL DEF Spec, ImplementsAtomicOutput, Service!Spec
=============================================================================

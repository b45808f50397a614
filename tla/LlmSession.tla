---------------------------- MODULE LlmSession ----------------------------
(***************************************************************************)
(* The editor session's use of the request controller                      *)
(* (editor_core/src/services/ai_service.rs): submit, cancel, the pump of   *)
(* every frame, the decision on a joined attempt, shutdown_llm, and the    *)
(* request report those keep.  The session calls the controller from one   *)
(* thread; a joined attempt is decided within the pump that received it.   *)
(*                                                                         *)
(* Left out: the import and validation of a candidate (a decision is any   *)
(* of the outcomes the handler has), panel texts and messages.             *)
(***************************************************************************)
EXTENDS LlmController

VARIABLES
  session,    \* active_llm_patch_request: its request id, or 0
  deciding,   \* the request whose joined attempt the pump is handling, or 0
  report      \* last_llm_patch_report: status fields, and the request it is about

sessionVars == <<session, deciding, report>>
allVars == <<vars, sessionVars>>

NoReport == [request |-> 0, terminal |-> "none", credential |-> "Held", local |-> "NotStarted"]

SessionInit ==
  /\ Init
  /\ session = 0
  /\ deciding = 0
  /\ report = NoReport

\* The session's thread is between two calls.
Free == deciding = 0 /\ main = "Idle"

\* The report of a request that reached a joined terminal.
Settled(terminalStatus, localStatus) ==
  [report EXCEPT !.terminal = terminalStatus, !.credential = "Released", !.local = localStatus]

-----------------------------------------------------------------------------
\* The report is opened before the controller is asked, with the id of a new
\* generation: a refused start leaves it behind (its request is then 0 here).
OpenReport(request) == [NoReport EXCEPT !.request = request, !.local = "Running"]

Submit ==
  /\ Free
  /\ session = 0
  /\ lifecycle \notin Busy
  /\ Start
  /\ session' = requests + 1
  /\ report' = OpenReport(requests + 1)
  /\ UNCHANGED deciding

SubmitRefused ==
  /\ Free
  /\ session = 0
  /\ lifecycle = "ShutdownJoinTimedOut"
  /\ report' = OpenReport(0)
  /\ UNCHANGED <<vars, session, deciding>>

CancelRequest ==
  /\ Free
  /\ session # 0
  /\ active.request = session
  /\ Cancel
  /\ UNCHANGED sessionVars

-----------------------------------------------------------------------------
\* pump_llm_patch_request: one poll, of which only the first event is looked at.
PumpQuiet ==
  /\ Free
  /\ Poll
  /\ returned' = <<>>
  /\ UNCHANGED sessionVars

PumpTerminal ==
  /\ Free
  /\ Poll
  /\ returned' # <<>>
  /\ returned'[1].kind # "AttemptJoined"
  /\ session' = 0
  /\ report' = Settled(IF returned'[1].kind = "CancelledJoined" THEN "Cancelled" ELSE "Failed",
                       "Stopped")
  /\ UNCHANGED deciding

\* handle_joined_llm_attempt takes the session's request (and would panic if
\* there was none) and resolves the attempt in one of the ways below.
PumpAttempt ==
  /\ Free
  /\ Poll
  /\ returned' # <<>>
  /\ returned'[1].kind = "AttemptJoined"
  /\ deciding' = returned'[1].request
  /\ UNCHANGED <<session, report>>

Deciding == deciding # 0 /\ session = deciding
Decided == session' = 0 /\ deciding' = 0

AcceptCandidate ==
  /\ Deciding
  /\ ResolveTerminal("Completed")
  /\ report' = Settled("Completed", "Completed")
  /\ Decided

\* An invalid candidate, a repair outside its scope, or a failed attempt.
RejectCandidate ==
  /\ Deciding
  /\ ResolveTerminal("Failed")
  /\ report' = Settled("Failed", "Stopped")
  /\ Decided

\* The project changed while the request ran: as above, but the report's local
\* execution status is left as it was.
RejectStaleContext ==
  /\ Deciding
  /\ ResolveTerminal("Failed")
  /\ report' = Settled("Failed", report.local)
  /\ Decided

\* The one repair of an invalid first candidate; the session keeps its request.
RepairCandidate ==
  /\ Deciding
  /\ active.attempt = 0
  /\ ResolveRepair
  /\ deciding' = 0
  /\ report' = [report EXCEPT !.local = "Running"]
  /\ UNCHANGED session

-----------------------------------------------------------------------------
ShutdownStart ==
  /\ Free
  /\ ShutdownBegin
  /\ UNCHANGED sessionVars

ShutdownWait ==
  /\ ShutdownJoined \/ ShutdownJoinFailed \/ ShutdownTimedOut
  /\ UNCHANGED sessionVars

ShutdownKeepingRequest ==
  /\ ShutdownDrain
  /\ UNCHANGED sessionVars

\* shutdown_llm takes the receipt: the report says Released and Stopped whatever
\* the receipt says.
ShutdownReport ==
  /\ ShutdownDrain
  /\ session' = 0
  /\ report' = IF report = NoReport THEN report
               ELSE Settled(IF receipt'.state = "ShutdownJoinTimedOut"
                            THEN "ShutdownJoinTimedOut"
                            ELSE IF report.terminal = "none" THEN "Cancelled"
                            ELSE report.terminal, "Stopped")
  /\ UNCHANGED deciding

\* The session is dropped with its controller; the next one starts afresh.
DropSession ==
  \/ Free /\ DropBegin /\ session' = 0 /\ UNCHANGED <<deciding, report>>
  \/ DropEnd /\ UNCHANGED sessionVars
  \/ Reopen /\ report' = NoReport /\ UNCHANGED <<session, deciding>>

TasksAndClock ==
  /\ (\E t \in TaskIds : TaskStep(t)) \/ CancelOverdue
  /\ UNCHANGED sessionVars

Pump == PumpQuiet \/ PumpTerminal \/ PumpAttempt
Decide == AcceptCandidate \/ RejectCandidate \/ RejectStaleContext \/ RepairCandidate

SessionNext ==
  \/ Submit
  \/ SubmitRefused
  \/ CancelRequest
  \/ Pump
  \/ Decide
  \/ ShutdownStart
  \/ ShutdownWait
  \/ ShutdownReport
  \/ DropSession
  \/ TasksAndClock

SessionSpec == SessionInit /\ [][SessionNext]_allVars

\* The window pumps every frame, decides within the pump and waits with a
\* deadline; time passes; the executor runs every ready task, so an ended future
\* completes and one that was cancelled or aborted meets an await point.  A task
\* nobody cancelled may wait for its provider for ever.
SessionFairness ==
  /\ WF_allVars(Pump)
  /\ WF_allVars(Decide)
  /\ WF_allVars(ShutdownWait)
  /\ WF_allVars(ShutdownReport)
  /\ WF_allVars(DropSession /\ main = "DropJoin")
  /\ WF_allVars(CancelOverdue /\ UNCHANGED sessionVars)
  /\ \A t \in TaskIds :
       /\ WF_allVars(TaskEnd(t) /\ UNCHANGED sessionVars)
       /\ WF_allVars(TaskAborted(t) /\ UNCHANGED sessionVars)

FairSessionSpec == SessionSpec /\ SessionFairness

-----------------------------------------------------------------------------
(* Properties. *)

\* Between calls the session's request is the one its controller runs: no poll,
\* cancel, decision or shutdown leaves one of the two with a request of its own.
SessionAgreesWithController ==
  Free => session = active.request

\* run_llm_patch_request accepts the next request.
AcceptsRequest == main = "Idle" /\ session = 0 /\ lifecycle \notin Busy

\* The controller is done for: its shutdown could not join the task, because
\* the deadline passed or because the task had panicked or been aborted, or
\* the session itself was dropped.
GivenUp == receipt.state = "ShutdownJoinTimedOut" \/ main = "Dropped"

\* A cancelled request settles however long the provider stays silent: the
\* session lets go of it and accepts the next one, unless a shutdown or a drop
\* gave the controller up.
CancelSettles ==
  \A r \in RequestIds :
    (session = r /\ r \in cancelled) ~> (session # r /\ (AcceptsRequest \/ GivenUp))

-----------------------------------------------------------------------------
(* The invariant the proofs rest on. *)

\* Within a pump the joined attempt is still the controller's request, and nothing
\* runs for it.
DecidingRequest ==
  deciding # 0 => /\ main = "Idle"
                  /\ session = deciding
                  /\ active.request = deciding
                  /\ active.task = 0

\* Every joined attempt was decided before the next call, so that a cancel always
\* finds a task to join and never leaves an event behind.
NothingUndecided ==
  /\ pending = <<>>
  /\ Free /\ active.task = 0 => active = NoRequest

DroppedSession ==
  main \in {"DropJoin", "Dropped"} => session = 0

SessionInv ==
  /\ SessionAgreesWithController
  /\ DecidingRequest
  /\ NothingUndecided
  /\ DroppedSession

=============================================================================

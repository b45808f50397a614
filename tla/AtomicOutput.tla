---------------------------- MODULE AtomicOutput ----------------------------
(***************************************************************************)
(* What publishing a directory promises: the output is always the complete *)
(* content of one attempt; it changes only while an attempt runs, and then *)
(* from what was there to what the attempt brings or back.  Success means  *)
(* the new output, a plain failure the one to fall back on; after any      *)
(* other ending it is one of those that were possible before it.           *)
(*                                                                         *)
(* What an attempt falls back on is the output it found, unless the        *)
(* attempt before it ended uncleanly: then it may doubt that output and    *)
(* fall back on an older one, or on none.                                  *)
(***************************************************************************)
EXTENDS Naturals

VARIABLES
  output,      \* the attempt whose content is the output, 0 for none
  candidate,   \* the latest attempt
  fallback,    \* the output to keep if the attempt fails
  running,
  result       \* how the latest attempt that ended did: none, ok, failed, unclean

outputVars == <<output, candidate, fallback, running, result>>

Init ==
  /\ output = 0
  /\ candidate = 0
  /\ fallback = 0
  /\ ~running
  /\ result = "none"

Begin ==
  /\ ~running
  /\ candidate' = candidate + 1
  /\ fallback' = output
  /\ running'
  /\ UNCHANGED <<output, result>>

Doubt ==
  /\ running
  /\ result = "unclean"
  /\ output = fallback
  /\ fallback' \in 0 .. output
  /\ UNCHANGED <<output, candidate, running, result>>

Decide ==
  /\ running
  /\ output' \in {fallback, candidate}
  /\ UNCHANGED <<candidate, fallback, running, result>>

End ==
  /\ running
  /\ ~running'
  /\ \/ result' = "ok" /\ output = candidate
     \/ result' = "failed" /\ output = fallback
     \/ result' = "unclean"
  /\ UNCHANGED <<output, candidate, fallback>>

Next == Begin \/ Doubt \/ Decide \/ End

Spec == Init /\ [][Next]_outputVars
=============================================================================

---------------------------- MODULE OpaqueStore ----------------------------
(***************************************************************************)
(* What a running project is promised about its stored bytes: requests     *)
(* take effect one after the other in the order they were accepted, each   *)
(* at most once and only while the namespace is held; an answer tells what *)
(* happened, or says that it does not know.  A session that is lost never  *)
(* answers and changes nothing any more.                                   *)
(***************************************************************************)
EXTENDS Naturals

CONSTANTS Key,
          Request,  \* ids, and the bytes a request writes
          Missing,  \* what a key holds that was never written, or deleted
          Other     \* what another owner of the namespace writes

VARIABLES
  store,    \* what each key holds
  asked,    \* per request, the operation, or NoOperation
  effect,   \* per request, what it found or wrote, or NoEffect
  answer,   \* per request, "none", the commit state it was told, or "Lost"
  held      \* whether this session owns the namespace

NoEffect == 0
NoOperation == [kind |-> "None", key |-> 0]
Operation == [kind : {"Read", "Write", "Delete"}, key : Key]

Open(r) == asked[r] # NoOperation /\ answer[r] = "none"
IsRead(r) == asked[r].kind = "Read"

Init ==
  /\ store = [k \in Key |-> Missing]
  /\ asked = [r \in Request |-> NoOperation]
  /\ effect = [r \in Request |-> NoEffect]
  /\ answer = [r \in Request |-> "none"]
  /\ held = FALSE

\* The ids of a session ascend.
Accept(r) ==
  /\ \A s \in Request : asked[s] # NoOperation => s < r
  /\ \E operation \in Operation : asked' = [asked EXCEPT ![r] = operation]
  /\ UNCHANGED <<store, effect, answer, held>>

\* No request overtakes another: all before it were answered.
Perform(r) ==
  LET key == asked[r].key
      found == store[key] # Missing
  IN /\ held
     /\ Open(r) /\ effect[r] = NoEffect
     /\ \A s \in Request : s < r => ~Open(s)
     /\ \/ IsRead(r) /\ found /\ effect' = [effect EXCEPT ![r] = store[key]] /\ UNCHANGED store
        \/ /\ effect' = [effect EXCEPT ![r] = r]
           /\ \/ asked[r].kind = "Write" /\ store' = [store EXCEPT ![key] = r]
              \/ asked[r].kind = "Delete" /\ found /\ store' = [store EXCEPT ![key] = Missing]
     /\ UNCHANGED <<asked, answer, held>>

Truth(r) ==
  {"Lost"} \cup CASE IsRead(r) -> {"NotCommitted"}
                  [] ~IsRead(r) /\ effect[r] = NoEffect -> {"NotCommitted", "Unknown"}
                  [] ~IsRead(r) /\ effect[r] # NoEffect -> {"Committed", "Unknown"}

Settle ==
  /\ \A r \in Request : answer'[r] = answer[r] \/ (Open(r) /\ answer'[r] \in Truth(r))
  /\ held' => held
  /\ UNCHANGED <<store, asked, effect>>

TakeNamespace == ~held /\ held' /\ UNCHANGED <<store, asked, effect, answer>>

OtherOwner ==
  /\ ~held
  /\ \E k \in Key : store' = [store EXCEPT ![k] = Other]
  /\ UNCHANGED <<asked, effect, answer, held>>

Next ==
  \/ \E r \in Request : Accept(r) \/ Perform(r)
  \/ Settle \/ TakeNamespace \/ OtherOwner

Spec == Init /\ [][Next]_<<store, asked, effect, answer, held>>
=============================================================================

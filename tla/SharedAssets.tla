----------------------------- MODULE SharedAssets -----------------------------
(***************************************************************************)
(* What the asset loader promises to those that hold tickets: a ticket     *)
(* settles once, as ready or failed; while it is ready every payload of    *)
(* its closure is there, whatever the others do; and a payload nobody has  *)
(* or waits for is not kept.                                               *)
(***************************************************************************)
EXTENDS Naturals

CONSTANTS Ticket, Key

VARIABLES state, needs, resident

vars == <<state, needs, resident>>

In(s) == {t \in Ticket : state[t] = s}
KeysFor(T) == UNION {needs[t] : t \in T}
HeldNext == UNION {needs'[t] : t \in {u \in Ticket : state'[u] = "Ready"}}

Init ==
  /\ state = [t \in Ticket |-> "None"]
  /\ needs = [t \in Ticket |-> {}]
  /\ resident = {}

Make(t, outcome, K) ==
  /\ state' = [state EXCEPT ![t] = outcome]
  /\ needs' = [needs EXCEPT ![t] = K]

\* A request waits for what is not there; nothing is read.
Ask(t, K) == Make(t, "Loading", K) /\ UNCHANGED resident

\* A synchronous load brings what it needs; a retained ticket finds it there.
Grant(t, K) == Make(t, "Ready", K) /\ resident' = resident \cup K

\* A payload comes for those that wait for it.
Arrive(k) ==
  /\ k \in KeysFor(In("Loading"))
  /\ resident' = resident \cup {k}
  /\ UNCHANGED <<state, needs>>

\* Tickets settle or end; no more goes than what nobody ready holds.
Turn(ready, failed, ended) ==
  /\ ended = {} \/ ready \cup failed = {}
  /\ state' = [t \in Ticket |-> IF t \in ended THEN "Released" ELSE IF t \in failed THEN "Failed"
                                ELSE IF t \in ready THEN "Ready" ELSE state[t]]
  /\ needs' = [t \in Ticket |-> IF t \in failed \cup ended THEN {} ELSE needs[t]]
  /\ resident' \subseteq resident
  /\ HeldNext \subseteq resident'
  /\ resident' \subseteq UNION {needs'[t] : t \in Ticket}

Next ==
  \/ \E ready \in SUBSET In("Loading") :
       \E failed \in SUBSET (In("Loading") \ ready),
          ended \in SUBSET {t \in Ticket : state[t] \notin {"None", "Released"}} :
            Turn(ready, failed, ended)
  \/ \E k \in Key : Arrive(k)
  \/ \E t \in In("None"), K \in SUBSET Key : Ask(t, K) \/ Grant(t, K)

Spec == Init /\ [][Next]_vars
===============================================================================

------------------------ MODULE MCAuthoringMutation ------------------------
(* Instances of AuthoringMutation for TLC. *)
EXTENDS AuthoringMutation

Put(p) == [kind |-> "CreateOrReplace", path |-> p]
Drop(p) == [kind |-> "Delete", path |-> p]
MoveTo(p, q) == [kind |-> "Move", path |-> q, from |-> p]

\* The second mutation moves what the first one put.
MCPlan == <<<<Put(1), Drop(2)>>, <<MoveTo(1, 3)>>>>

MCPlanOfOne == <<MCPlan[1]>>
=============================================================================

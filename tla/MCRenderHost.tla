---------------------------- MODULE MCRenderHost ----------------------------
(* Small instances of the host loop for TLC. *)
EXTENDS RenderHost

\* the steps of the host never read an index
MCFrameIndexes == [n \in 1 .. MaxFrame |-> {n}]

\* flush never names a target frame
MCNoTarget == {0}
=============================================================================

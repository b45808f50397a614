--------------------------- MODULE MCRenderWorker ---------------------------
(* Small instances of the render worker for TLC. *)
EXTENDS RenderWorkerInvariant

\* the second frame's index falls back or skips two
MCFrameIndexes == <<{2}, {1, 5}>>

\* fences that ask for an index between; those of a shutdown ask for none
MCFenceTargets == {3}
=============================================================================

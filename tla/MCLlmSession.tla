--------------------------- MODULE MCLlmSession ---------------------------
(* Small instances of the session and its request controller for TLC. *)
EXTENDS LlmSession

=============================================================================

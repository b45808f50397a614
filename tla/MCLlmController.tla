-------------------------- MODULE MCLlmController --------------------------
(* Small instances of the request controller for TLC. *)
EXTENDS LlmController

=============================================================================

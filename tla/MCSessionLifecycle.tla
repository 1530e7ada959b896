-------------------------- MODULE MCSessionLifecycle --------------------------
(* TLC instances of SessionLifecycle. *)
EXTENDS SessionLifecycle

=============================================================================

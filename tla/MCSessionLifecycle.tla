------------------------- MODULE MCSessionLifecycle --------------------------
(* Instances of SessionLifecycle for TLC: one template and encoder each.   *)
EXTENDS SessionLifecycle

=============================================================================

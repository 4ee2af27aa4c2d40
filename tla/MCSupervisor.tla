---------------------------- MODULE MCSupervisor ----------------------------
(* Instantiation of Supervisor for TLC: two worker slots, a small archive, *)
(* one shader module the engine may implicate.                            *)
EXTENDS Supervisor

CONSTANTS m1

MCModules == {m1}

=============================================================================

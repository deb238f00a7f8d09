-------------------------- MODULE MCEventPublisher --------------------------
(* Instance of EventPublisher for TLC: orders stand for positions as well, *)
(* whose task and manager do the same.                                     *)
EXTENDS EventPublisher

MCKinds == <<"order", "stop_order">>
=============================================================================

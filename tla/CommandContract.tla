-------------------------- MODULE CommandContract --------------------------
(***************************************************************************)
(* What the gateway's command path promises a strategy runtime about the   *)
(* entries of the commands stream, whatever crashes and redeliveries       *)
(* happen in between.  An entry goes through sets that only grow:          *)
(*                                                                         *)
(*   published   it was added to the commands stream                       *)
(*   poison      no gateway can decode it                                  *)
(*   taken       it was delivered to a gateway at least once               *)
(*   executed    the broker acted on it                                    *)
(*   answered    an acknowledgement for it is in the acks stream           *)
(*   accepted    one of those acknowledgements says Accepted               *)
(*   retired     it left the pending list for good (XACK)                  *)
(*                                                                         *)
(* The promise lies in the guards: nothing is retired before it has been   *)
(* answered, nothing is accepted before the broker has acted, and the      *)
(* broker acts only on what was taken.  Undecodable entries (poison) are   *)
(* never executed or answered, and are retired without an answer.          *)
(***************************************************************************)
CONSTANT Entries   \* entries of the commands stream

VARIABLES published, poison, taken, executed, answered, accepted, retired

vars == <<published, poison, taken, executed, answered, accepted, retired>>

Init ==
  /\ published = {}
  /\ poison = {}
  /\ taken = {}
  /\ executed = {}
  /\ answered = {}
  /\ accepted = {}
  /\ retired = {}

Publish(e) ==
  /\ e \notin published
  /\ published' = published \cup {e}
  /\ poison' \in {poison, poison \cup {e}}
  /\ UNCHANGED <<taken, executed, answered, accepted, retired>>

Take(e) ==
  /\ e \in published
  /\ taken' = taken \cup {e}
  /\ UNCHANGED <<published, poison, executed, answered, accepted, retired>>

Execute(e) ==
  /\ e \in taken \ poison
  /\ executed' = executed \cup {e}
  /\ UNCHANGED <<published, poison, taken, answered, accepted, retired>>

(* Any status other than Accepted.                                         *)
Refuse(e) ==
  /\ e \in taken \ poison
  /\ answered' = answered \cup {e}
  /\ UNCHANGED <<published, poison, taken, executed, accepted, retired>>

Accept(e) ==
  /\ e \in executed
  /\ answered' = answered \cup {e}
  /\ accepted' = accepted \cup {e}
  /\ UNCHANGED <<published, poison, taken, executed, retired>>

Retire(e) ==
  /\ e \in answered
  /\ retired' = retired \cup {e}
  /\ UNCHANGED <<published, poison, taken, executed, answered, accepted>>

(* Delivery, diversion to the dead letter stream and XACK of an entry that *)
(* cannot be decoded; either of the last two may fail silently.            *)
Divert(e) ==
  /\ e \in published \cap poison
  /\ taken' = taken \cup {e}
  /\ retired' \in {retired, retired \cup {e}}
  /\ UNCHANGED <<published, poison, executed, answered, accepted>>

Next ==
  \E e \in Entries :
    Publish(e) \/ Take(e) \/ Execute(e) \/ Refuse(e) \/ Accept(e) \/ Retire(e) \/ Divert(e)

Spec == Init /\ [][Next]_vars
=============================================================================

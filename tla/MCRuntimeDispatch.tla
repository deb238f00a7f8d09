-------------------------- MODULE MCRuntimeDispatch --------------------------
(* An acknowledgement is late at the next bar, a fill at the one after it.      *)
EXTENDS RuntimeDispatch

MCNoBar == -1
MCCount == [acks |-> 10, positions |-> 10, bars |-> 100]
MCAckTimeout == [p \in {"PendingEntry", "PendingExit"} |-> 0]
MCFillTimeout == [p \in {"PendingEntry", "PendingExit"} |-> 1]
=============================================================================

---------------------------- MODULE MCCommandPath ----------------------------
(* Constants of the command path for model checking: a limit order under   *)
(* the control path policy, a market order, a command with a deadline, one *)
(* whose payload is invalid, one that cannot be decoded, and a cancel of   *)
(* the first order the broker may create.                                  *)
EXTENDS CommandPath

CONSTANTS place, market, other, wrong, bad, cancel, g1, g2

MCCancels == {cancel} \cap Requests
MCCancelTarget == [r \in MCCancels |-> 1]
MCDeadline == [r \in Requests |-> IF r = other THEN 0 ELSE NoDeadline]
MCInvalid == {wrong} \cap Requests
MCUndecodable == {bad} \cap Requests
MCHardened == {place} \cap Requests
=============================================================================

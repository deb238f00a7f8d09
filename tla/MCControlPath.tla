---------------------------- MODULE MCControlPath ----------------------------
(***************************************************************************)
(* Instance of ControlPath.tla: an entry, two exits and a cancellation.    *)
(***************************************************************************)
EXTENDS ControlPath

CONSTANTS Entry, Exit1, Exit2, Cancel

MCCommands == {Entry, Exit1, Exit2, Cancel}
MCClass == Entry :> "entry" @@ Exit1 :> "exit" @@ Exit2 :> "exit" @@ Cancel :> "other"
=============================================================================

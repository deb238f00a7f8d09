-------------------------- MODULE MCUsdrubfHybrid --------------------------
(* Entries of two lots; a day of two bars and the first of the next.      *)
EXTENDS UsdrubfHybrid
=============================================================================

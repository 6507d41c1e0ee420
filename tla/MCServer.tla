------------------------------ MODULE MCServer ------------------------------
(***************************************************************************)
(* Server for TLC.  The blocks that requests ask for can be mixed into a   *)
(* block that nobody asks for.                                             *)
(***************************************************************************)
EXTENDS Server

Two == 1..2
AllButOne == Block \ {[span |-> 2, kind |-> 2]}
=============================================================================

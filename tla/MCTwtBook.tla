------------------------------ MODULE MCTwtBook ------------------------------
(* One position of two shares; the plan's two raises are to levels 2 and 3. *)
EXTENDS TwtBook

MCRaiseTo == [raiseA |-> 2, raiseB |-> 3]
=============================================================================

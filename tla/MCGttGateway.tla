---------------------------- MODULE MCGttGateway ----------------------------
(* Small instances of GttGateway for TLC. *)
EXTENDS GttGateway, TLC

\* With a tick of 2: rests at 2; rounds up to the price and is refused; rests at 4.
MCRequests == {<<2, 4>>, <<3, 4>>, <<3, 5>>}

CallSymmetry == Permutations(Calls)
=============================================================================

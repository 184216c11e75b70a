--------------------------- MODULE MCOrderGateway ---------------------------
(* Small instances of OrderGateway for TLC. *)
EXTENDS OrderGateway, TLC

CallSymmetry == Permutations(Calls)
==========================================================================

----------------------------- MODULE MCPlayer -----------------------------
(* A folder of two songs for Player.                                       *)
EXTENDS Player

MCListing == [f \in Folders |-> <<"s1", "s2">>]
=============================================================================

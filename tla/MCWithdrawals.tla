--------------------------- MODULE MCWithdrawals ----------------------------
(* Withdrawals with two requests of one member. *)
EXTENDS Withdrawals, TLC

CONSTANTS w1, w2

MCOneOwner == [w \in Requests |-> "m1"]
MCAmount == [w \in Requests |-> IF w = w1 THEN 1 ELSE 2]
MCOpening == ("m1" :> 6)

=============================================================================

-------------------------- MODULE MCReconciliation --------------------------
(* Reconciliation with two requests of one member, of the same amount. *)
EXTENDS Reconciliation, TLC

MCOneOwner == [w \in Requests |-> "m1"]
MCAmount == [w \in Requests |-> 1]
MCOpening == ("m1" :> 3)
AnyRequest == Permutations(Requests)

\* The locals of a handler that has returned are never read again: Begin sets them.
LiveLocals ==
    <<rowVars, provider, cached, pc, summaryVars,
      [p \in Procs |-> IF pc[p] = "idle" THEN None ELSE <<target[p], outcome[p], via[p], found[p]>>]>>

=============================================================================

-------------------------- MODULE MCScheduledOrders --------------------------
(***************************************************************************)
(* Small instances of ScheduledOrders for TLC.                             *)
(***************************************************************************)
EXTENDS ScheduledOrders, TLC

CONSTANTS c1, v1

(* One canteen, one dish. *)
MCCanteen == c1 :> v1

MCCarts == {[need |-> c1 :> 1, line |-> c1 :> 1]}

MCSymmetry == Permutations(Jobs) \cup Permutations(Passes)
                \cup Permutations(Http) \cup Permutations(OrderIds)

=============================================================================

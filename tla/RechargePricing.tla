--------------------------- MODULE RechargePricing ---------------------------
(***************************************************************************)
(* The price of a recharge (payments/pricing/recharge-pricing.ts): tickets *)
(* to FCFA, and FCFA back to tickets, by a table of five tiers.  Both ways *)
(* are offered by the same route, so they must agree on every amount.      *)
(***************************************************************************)
EXTENDS Integers

CONSTANT MaxAsked   \* bound on the number a client asks a quote for

ASSUME MaxAskedAssumption == MaxAsked \in Nat

Tiers ==
    {[minTickets |->   500, maxTickets |->   999, fee |-> 100],
     [minTickets |->  1000, maxTickets |->  2999, fee |-> 200],
     [minTickets |->  3000, maxTickets |->  4999, fee |-> 250],
     [minTickets |->  5000, maxTickets |->  9999, fee |-> 300],
     [minTickets |-> 10000, maxTickets |-> 10000, fee |-> 500]}

MinTickets == 500
MaxTickets == 10000
MinAmount  == 600
MaxAmount  == 10500

Refused == -1     \* BadRequestException

InTierMutant(tier, tickets) == tier.minTickets <= tickets /\ tickets < tier.maxTickets

(* The test of tierForTickets. *)
InTier(tier, tickets) == tier.minTickets <= tickets /\ tickets <= tier.maxTickets

(* computeRechargeAmountFcfa *)
AmountFor(tickets) ==
    IF /\ MinTickets <= tickets /\ tickets <= MaxTickets
       /\ \E tier \in Tiers : InTier(tier, tickets)
    THEN tickets + (CHOOSE tier \in Tiers : InTier(tier, tickets)).fee
    ELSE Refused

(* The tier an amount paid would belong to, its fee included. *)
PaysFor(tier, amount) ==
    /\ tier.minTickets <= amount - tier.fee
    /\ amount - tier.fee <= tier.maxTickets

(* quoteRechargeFromAmountFcfa *)
TicketsFor(amount) ==
    IF /\ MinAmount <= amount /\ amount <= MaxAmount
       /\ \E tier \in Tiers : PaysFor(tier, amount)
    THEN amount - (CHOOSE tier \in Tiers : PaysFor(tier, amount)).fee
    ELSE Refused

VARIABLE asked      \* the number of tickets, or of FCFA, a client asks about

Init == asked = 0

(* Clients ask about every number in turn. *)
Next == asked < MaxAsked /\ asked' = asked + 1

Spec == Init /\ [][Next]_asked

-----------------------------------------------------------------------------

(* Whichever way the quote is asked for, the same recharge costs the same: *)
(* the two computations, which look the table up by different columns, are *)
(* inverse of each other and refuse what the other never yields.           *)
QuotesAgree ==
    /\ AmountFor(asked) # Refused => TicketsFor(AmountFor(asked)) = asked
    /\ TicketsFor(asked) # Refused => AmountFor(TicketsFor(asked)) = asked

(* More tickets always cost more: no tier boundary makes it cheaper to ask *)
(* for more than one wants, and every number of tickets between the        *)
(* minimum and the maximum has a price.                                    *)
DearerByTheTicket ==
    [][/\ asked' \in MinTickets..MaxTickets => AmountFor(asked') # Refused
       /\ AmountFor(asked) # Refused /\ AmountFor(asked') # Refused
            => AmountFor(asked) < AmountFor(asked')]_asked

=============================================================================

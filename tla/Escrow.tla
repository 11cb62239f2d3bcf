------------------------------- MODULE Escrow -------------------------------
(***************************************************************************)
(* What the order core promises about money, and nothing else.  The        *)
(* tickets of an order leave the wallet of its student once, are held      *)
(* while the order is open, and are then either released to the canteen    *)
(* or returned to the student: once, in full and for good.                 *)
(***************************************************************************)
EXTENDS Naturals

CONSTANTS Students, Vendors, OrderIds, Amounts, InitialWallet, NoEscrow

VARIABLES wallet, balance, escrow

escrowVars == <<wallet, balance, escrow>>

Init ==
    /\ wallet = [s \in Students |-> InitialWallet]
    /\ balance = [v \in Vendors |-> 0]
    /\ escrow = [o \in OrderIds |-> NoEscrow]

(* The student pays; the wallet is never overdrawn. *)
Hold(o, s, v, amount) ==
    /\ escrow[o] = NoEscrow
    /\ wallet[s] >= amount
    /\ wallet' = [wallet EXCEPT ![s] = @ - amount]
    /\ escrow' = [escrow EXCEPT ![o] =
            [payer |-> s, payee |-> v, amount |-> amount, state |-> "HELD"]]
    /\ UNCHANGED balance

Release(o) ==
    /\ escrow[o] # NoEscrow
    /\ escrow[o].state = "HELD"
    /\ balance' = [balance EXCEPT ![escrow[o].payee] = @ + escrow[o].amount]
    /\ escrow' = [escrow EXCEPT ![o].state = "RELEASED"]
    /\ UNCHANGED wallet

Return(o) ==
    /\ escrow[o] # NoEscrow
    /\ escrow[o].state = "HELD"
    /\ wallet' = [wallet EXCEPT ![escrow[o].payer] = @ + escrow[o].amount]
    /\ escrow' = [escrow EXCEPT ![o].state = "RETURNED"]
    /\ UNCHANGED balance

Next ==
    \E o \in OrderIds :
        \/ \E s \in Students, v \in Vendors, amount \in Amounts : Hold(o, s, v, amount)
        \/ Release(o)
        \/ Return(o)

Spec == Init /\ [][Next]_escrowVars

=============================================================================

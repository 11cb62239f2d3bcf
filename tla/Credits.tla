------------------------------ MODULE Credits ------------------------------
(***************************************************************************)
(* What recharges promise, and nothing else: a payment credits its student *)
(* once or never, and the first payment that a student completes also      *)
(* brings its referrer one bonus.                                          *)
(***************************************************************************)
EXTENDS Integers

CONSTANTS Students, PaymentIds, Tickets, Referrer, Reward, NoRow

VARIABLES wallet, ledger

creditVars == <<wallet, ledger>>

Init ==
    /\ wallet = [s \in Students |-> 0]
    /\ ledger = [p \in PaymentIds |-> NoRow]

Open(p, s, tickets) ==
    /\ ledger[p] = NoRow
    /\ ledger' = [ledger EXCEPT ![p] = [student |-> s, tickets |-> tickets, state |-> "OPEN"]]
    /\ UNCHANGED wallet

HasCredit(s) ==
    \E p \in PaymentIds :
        ledger[p] # NoRow /\ ledger[p].student = s /\ ledger[p].state = "CREDITED"

Credit(p) ==
    /\ ledger[p] # NoRow
    /\ ledger[p].state = "OPEN"
    /\ ledger' = [ledger EXCEPT ![p].state = "CREDITED"]
    /\ LET s == ledger[p].student IN
       wallet' = [u \in Students |->
            wallet[u] + (IF u = s THEN ledger[p].tickets ELSE 0)
                      + (IF u = Referrer[s] /\ ~ HasCredit(s) THEN Reward ELSE 0)]

Refuse(p) ==
    /\ ledger[p] # NoRow
    /\ ledger[p].state = "OPEN"
    /\ ledger' = [ledger EXCEPT ![p].state = "REFUSED"]
    /\ UNCHANGED wallet

Next ==
    \E p \in PaymentIds :
        \/ \E s \in Students, tickets \in Tickets : Open(p, s, tickets)
        \/ Credit(p)
        \/ Refuse(p)

Spec == Init /\ [][Next]_creditVars

=============================================================================

--------------------------- MODULE PaymentsProofs ---------------------------
(***************************************************************************)
(* Proofs about Payments, for any number of students, payments and         *)
(* handlers at work.                                                       *)
(***************************************************************************)
EXTENDS Payments, SumsProofs, TLAPS

(* What a call in flight holds, by its operation. *)
LEMMA CallShape ==
    ASSUME TypeOK, NEW c \in Callers
    PROVE  /\ call[c].op \in {"idle", "intent", "webhook", "sync"}
           /\ call[c].op = "intent" =>
                /\ call[c].of \in PaymentIds
                /\ call[c].student \in Students /\ call[c].tickets \in Tickets
           /\ call[c].op \in {"webhook", "sync"} =>
                call[c].of \in PaymentIds /\ call[c].outcome \in {"SUCCESS", "FAILED"}
           /\ Idle \in Call
<1>1. call[c] \in Call
    BY DEF TypeOK
<1>2. CASE call[c] \in [op : {"idle"}]
    BY <1>2 DEF Call, Idle
<1>3. CASE call[c] \in [op : {"intent"}, of : PaymentIds, student : Students, tickets : Tickets]
    BY <1>3 DEF Call, Idle
<1>4. CASE call[c] \in [op : {"webhook", "sync"}, of : PaymentIds, outcome : {"SUCCESS", "FAILED"}]
    BY <1>4 DEF Call, Idle
<1> QED
    BY <1>1, <1>2, <1>3, <1>4 DEF Call

LEMMA RowShape ==
    ASSUME TypeOK, NEW p \in PaymentIds, payments[p] # NoRow
    PROVE  /\ payments[p] \in PaymentRow
           /\ payments[p].student \in Students
           /\ payments[p].tickets \in Tickets /\ payments[p].tickets \in Nat
           /\ payments[p].status \in {"PENDING", "SUCCESS", "FAILED"}
<1>1. payments[p] \in PaymentRow
    BY DEF TypeOK
<1> QED
    BY <1>1, TicketsAssumption DEF PaymentRow

(* An outcome in flight is the one that FedaPay decided.  The row of an    *)
(* intent in flight is not there yet, and no other call is to insert it.   *)
CallsSound ==
    \A c \in Callers :
        /\ call[c].op \in {"webhook", "sync"} =>
            /\ payments[call[c].of] # NoRow
            /\ call[c].outcome = "SUCCESS" =>
                provider[call[c].of] = "approved" /\ charged[call[c].of] = "expected"
            /\ call[c].outcome = "FAILED" => provider[call[c].of] \in Refusals
        /\ call[c].op = "intent" =>
            /\ payments[call[c].of] = NoRow
            /\ provider[call[c].of] # "none"
            /\ \A d \in Callers \ {c} :
                    call[d].op = "intent" => call[d].of # call[c].of

(* A row exists only for a transaction that FedaPay opened. *)
RowsSound == \A p \in PaymentIds : payments[p] # NoRow => provider[p] # "none"

Inv == TypeOK /\ CallsSound /\ RowsSound /\ EndsAsFedapaySays /\ EventsOfSettled
        /\ RewardedIffRecharged

LEMMA InitInv == Init => Inv
<1> SUFFICES ASSUME Init PROVE Inv
    OBVIOUS
<1>1. TypeOK
    BY DEF Init, TypeOK, Call, Idle, Charged
<1>2. CallsSound
    BY DEF Init, CallsSound, Idle
<1>3. RowsSound /\ EndsAsFedapaySays /\ EventsOfSettled
    BY DEF Init, RowsSound, EndsAsFedapaySays, EventsOfSettled, Existing
<1>4. RewardedIffRecharged
    BY DEF Init, RewardedIffRecharged, Successful, Existing
<1> QED
    BY <1>1, <1>2, <1>3, <1>4 DEF Inv

-----------------------------------------------------------------------------
(***************************************************************************)
(* What one step may do.                                                   *)
(***************************************************************************)

(* FedaPay: a decision is final. *)
ProviderStep ==
    \A p \in PaymentIds :
        /\ provider[p] \in Final =>
                provider'[p] = provider[p] /\ charged'[p] = charged[p]
        /\ provider[p] # "none" => provider'[p] # "none"

(* One call commits, and every other call and payment stays as it was. *)
Inserts(c, p) ==
    /\ call[c].op = "intent" /\ call[c].of = p /\ payments[p] = NoRow
    /\ payments' = [payments EXCEPT ![p] =
            [student |-> call[c].student, tickets |-> call[c].tickets, status |-> "PENDING"]]
    /\ call' = [call EXCEPT ![c] = Idle]
    /\ UNCHANGED <<provider, charged, event, wallet, rewarded>>

Settles(c, p) ==
    /\ call[c].op \in {"webhook", "sync"} /\ call[c].of = p
    /\ payments[p] # NoRow /\ payments[p].status = "PENDING"
    /\ payments' = [payments EXCEPT ![p].status = call[c].outcome]
    /\ event'[p] \in {event[p], "processed"}
    /\ \A q \in PaymentIds \ {p} : event'[q] = event[q]
    /\ wallet' = IF call[c].outcome = "SUCCESS" THEN Credited(p) ELSE wallet
    /\ rewarded' = IF call[c].outcome = "SUCCESS" /\ Referrer[payments[p].student] # NoRow
                     THEN rewarded \cup {payments[p].student} ELSE rewarded
    /\ UNCHANGED <<provider, charged>>

Ignores(c, p) ==
    /\ call[c].op \in {"webhook", "sync"} /\ call[c].of = p
    /\ payments[p] # NoRow /\ payments[p].status # "PENDING"
    /\ \A q \in PaymentIds \ {p} : event'[q] = event[q]
    /\ UNCHANGED <<provider, charged, payments, wallet, rewarded>>

Quiet == UNCHANGED tables

TablesStep ==
    \/ Quiet
    \/ \E c \in Callers, p \in PaymentIds :
            Inserts(c, p) \/ Settles(c, p) \/ Ignores(c, p)

LEMMA ApplyCases ==
    ASSUME TypeOK, CallsSound, NEW c \in Callers, Apply(c)
    PROVE  \E p \in PaymentIds : Settles(c, p) \/ Ignores(c, p)
<1> DEFINE p == call[c].of
<1>1. p \in PaymentIds /\ payments[p] # NoRow /\ call[c].op \in {"webhook", "sync"}
    BY CallShape DEF Apply, CallsSound
<1>2. CASE ClaimHolds(p)
    <2>1. event'[p] \in {event[p], "processed"}
        BY <1>1, <1>2 DEF Apply, TypeOK
    <2>2. \A q \in PaymentIds \ {p} : event'[q] = event[q]
        BY <1>1, <1>2 DEF Apply, TypeOK
    <2>3. Settles(c, p)
        BY <1>1, <1>2, <2>1, <2>2 DEF Apply, Settles, ClaimHolds, Rewards, fedapay
    <2> QED BY <1>1, <2>3
<1>3. CASE ~ ClaimHolds(p)
    <2>1. \A q \in PaymentIds \ {p} : event'[q] = event[q]
        BY <1>1, <1>3 DEF Apply, TypeOK
    <2>2. Ignores(c, p)
        BY <1>1, <1>3, <2>1 DEF Apply, Ignores, ClaimHolds, fedapay
    <2> QED BY <1>1, <2>2
<1> QED
    BY <1>2, <1>3

LEMMA Steps ==
    ASSUME TypeOK, CallsSound, [Next]_vars
    PROVE  ProviderStep /\ TablesStep
<1>1. ASSUME NEW p \in PaymentIds, Push(p) PROVE ProviderStep /\ Quiet
    BY <1>1, RefusalsAssumption
       DEF Push, Charge, ProviderStep, Quiet, TypeOK, Final, SyncRefusals, WebhookRefusals
<1>2. ASSUME NEW p \in PaymentIds, NEW amount \in Charged, Approve(p, amount)
      PROVE  ProviderStep /\ Quiet
    BY <1>2, RefusalsAssumption
       DEF Approve, ProviderStep, Quiet, TypeOK, Final, SyncRefusals, WebhookRefusals
<1>3. ASSUME NEW p \in PaymentIds, NEW reason \in Refusals, Refuse(p, reason)
      PROVE  ProviderStep /\ Quiet
    BY <1>3, RefusalsAssumption
       DEF Refuse, ProviderStep, Quiet, TypeOK, Final, SyncRefusals, WebhookRefusals
<1>4. ASSUME NEW c \in Callers, NEW p \in PaymentIds, NEW s \in Students,
             NEW tickets \in Tickets, OpenTransaction(c, p, s, tickets)
      PROVE  ProviderStep /\ Quiet
    BY <1>4, RefusalsAssumption
       DEF OpenTransaction, CreateTransaction, ProviderStep, Quiet, TypeOK, Final, SyncRefusals,
           WebhookRefusals
<1>5. ASSUME NEW p \in PaymentIds, IgnoreWebhook(p) PROVE UNCHANGED fedapay /\ Quiet
    BY <1>5 DEF IgnoreWebhook, Quiet
<1>6. ASSUME NEW c \in Callers, NEW p \in PaymentIds, ReceiveWebhook(c, p) \/ ReadForSync(c, p)
      PROVE  UNCHANGED fedapay /\ Quiet
    BY <1>6 DEF ReceiveWebhook, ReadForSync, Quiet, tables
<1>7. ASSUME NEW c \in Callers, RefuseDuplicate(c) \/ Abort(c)
      PROVE  UNCHANGED fedapay /\ Quiet
    BY <1>7 DEF RefuseDuplicate, Abort, Quiet
<1>8. ASSUME NEW c \in Callers, CreatePayment(c)
      PROVE  UNCHANGED fedapay /\ \E p \in PaymentIds : Inserts(c, p)
    <2>1. Inserts(c, call[c].of) /\ call[c].of \in PaymentIds
        BY <1>8, CallShape DEF CreatePayment, Inserts, CallsSound, fedapay, End
    <2> QED BY <1>8, <2>1 DEF CreatePayment
<1>9. ASSUME NEW c \in Callers, Apply(c)
      PROVE  UNCHANGED fedapay /\ \E p \in PaymentIds : Settles(c, p) \/ Ignores(c, p)
    BY <1>9, ApplyCases DEF Apply
<1>11. UNCHANGED fedapay => ProviderStep
    BY DEF fedapay, ProviderStep
<1>12. CASE \E p \in PaymentIds :
                \/ Push(p)
                \/ \E amount \in Charged : Approve(p, amount)
                \/ \E reason \in Refusals : Refuse(p, reason)
                \/ IgnoreWebhook(p)
    BY <1>12, <1>1, <1>2, <1>3, <1>5, <1>11 DEF TablesStep
<1>13. CASE \E c \in Callers, p \in PaymentIds :
                \/ \E s \in Students, tickets \in Tickets : OpenTransaction(c, p, s, tickets)
                \/ ReceiveWebhook(c, p)
                \/ ReadForSync(c, p)
    BY <1>13, <1>4, <1>6, <1>11 DEF TablesStep
<1>14. CASE \E c \in Callers : CreatePayment(c) \/ RefuseDuplicate(c) \/ Apply(c) \/ Abort(c)
    BY <1>14, <1>7, <1>8, <1>9, <1>11 DEF TablesStep
<1>15. CASE UNCHANGED vars
    BY <1>15, <1>11 DEF vars, Quiet, TablesStep
<1> QED
    BY <1>12, <1>13, <1>14, <1>15 DEF Next

-----------------------------------------------------------------------------
(***************************************************************************)
(* The invariants.                                                         *)
(***************************************************************************)

(* The rows after a step of one call. *)
LEMMA InsertedRow ==
    ASSUME TypeOK, NEW c \in Callers, NEW p \in PaymentIds, Inserts(c, p)
    PROVE  /\ payments'[p] \in PaymentRow /\ payments'[p] # NoRow
           /\ payments'[p].student = call[c].student
           /\ payments'[p].tickets = call[c].tickets
           /\ payments'[p].status = "PENDING"
           /\ \A q \in PaymentIds \ {p} : payments'[q] = payments[q]
<1> DEFINE row == [student |-> call[c].student, tickets |-> call[c].tickets,
                   status |-> "PENDING"]
<1>1. row \in PaymentRow
    BY CallShape DEF Inserts, PaymentRow
<1>2. payments'[p] = row /\ \A q \in PaymentIds \ {p} : payments'[q] = payments[q]
    BY DEF Inserts, TypeOK
<1> QED
    BY <1>1, <1>2, NoRowAssumption

LEMMA SettledRow ==
    ASSUME TypeOK, NEW c \in Callers, NEW p \in PaymentIds, Settles(c, p)
    PROVE  /\ payments'[p] \in PaymentRow /\ payments'[p] # NoRow
           /\ payments'[p].student = payments[p].student
           /\ payments'[p].tickets = payments[p].tickets
           /\ payments'[p].status = call[c].outcome
           /\ call[c].outcome \in {"SUCCESS", "FAILED"}
           /\ \A q \in PaymentIds \ {p} : payments'[q] = payments[q]
<1>1. call[c].outcome \in {"SUCCESS", "FAILED"}
    BY CallShape DEF Settles
<1>2. payments[p] \in PaymentRow
    BY RowShape DEF Settles
<1>3. /\ payments'[p] = [payments[p] EXCEPT !.status = call[c].outcome]
      /\ \A q \in PaymentIds \ {p} : payments'[q] = payments[q]
    BY DEF Settles, TypeOK
<1>4. payments'[p] \in PaymentRow
    BY <1>1, <1>2, <1>3 DEF PaymentRow
<1> QED
    BY <1>1, <1>2, <1>3, <1>4, NoRowAssumption DEF PaymentRow

LEMMA CreditedTyped ==
    ASSUME TypeOK, NEW p \in PaymentIds, payments[p] # NoRow
    PROVE  Credited(p) \in [Students -> Nat]
<1>1. ASSUME NEW u \in Students
      PROVE  wallet[u] + (IF u = payments[p].student THEN payments[p].tickets ELSE 0)
                + (IF u = Referrer[payments[p].student] /\ FirstRecharge(payments[p].student)
                   THEN Reward ELSE 0) \in Nat
    <2>1. wallet[u] \in Nat /\ payments[p].tickets \in Nat /\ Reward \in Nat
        BY RowShape, TicketsAssumption DEF TypeOK
    <2> QED BY <2>1
<1> QED
    BY <1>1 DEF Credited

LEMMA TypeStep ==
    ASSUME TypeOK, CallsSound, [Next]_vars
    PROVE  TypeOK'
<1>1. UNCHANGED tables \/ \E c \in Callers, p \in PaymentIds :
            Inserts(c, p) \/ Settles(c, p) \/ Ignores(c, p)
    BY Steps DEF TablesStep, Quiet
<1>2. payments' \in [PaymentIds -> PaymentRow \cup {NoRow}]
    <2>1. ASSUME NEW c \in Callers, NEW p \in PaymentIds, Inserts(c, p)
          PROVE  payments' \in [PaymentIds -> PaymentRow \cup {NoRow}]
        BY <2>1, InsertedRow DEF Inserts, TypeOK
    <2>2. ASSUME NEW c \in Callers, NEW p \in PaymentIds, Settles(c, p)
          PROVE  payments' \in [PaymentIds -> PaymentRow \cup {NoRow}]
        BY <2>2, SettledRow DEF Settles, TypeOK
    <2> QED BY <1>1, <2>1, <2>2 DEF tables, Ignores, TypeOK
<1>3. wallet' \in [Students -> Nat]
    <2>1. ASSUME NEW c \in Callers, NEW p \in PaymentIds, Settles(c, p)
          PROVE  wallet' \in [Students -> Nat]
        BY <2>1, CreditedTyped DEF Settles, TypeOK
    <2> QED BY <1>1, <2>1 DEF tables, Inserts, Ignores, TypeOK
<1>4. rewarded' \subseteq Students
    <2>1. ASSUME NEW c \in Callers, NEW p \in PaymentIds, Settles(c, p)
          PROVE  rewarded' \subseteq Students
        BY <2>1, RowShape DEF Settles, TypeOK
    <2> QED BY <1>1, <2>1 DEF tables, Inserts, Ignores, TypeOK
<1>5. ASSUME NEW p \in PaymentIds,
             Push(p) \/ IgnoreWebhook(p) \/ (\E amount \in Charged : Approve(p, amount))
                \/ \E reason \in Refusals : Refuse(p, reason)
      PROVE  /\ provider' \in [PaymentIds -> {"none", "created", "pushed"} \cup Final]
             /\ charged' \in [PaymentIds -> Charged] /\ answered' \subseteq PaymentIds
             /\ event' = event /\ call' = call
    BY <1>5 DEF Push, Charge, IgnoreWebhook, Approve, Refuse, fedapay, tables, TypeOK, Final
<1>6. ASSUME NEW c \in Callers, NEW p \in PaymentIds, NEW s \in Students,
             NEW tickets \in Tickets, OpenTransaction(c, p, s, tickets)
      PROVE  TypeOK'
    <2>1. [op |-> "intent", of |-> p, student |-> s, tickets |-> tickets] \in Call
        BY DEF Call
    <2> QED BY <1>6, <2>1 DEF OpenTransaction, CreateTransaction, Begin, TypeOK, tables
<1>7. ASSUME NEW c \in Callers, NEW p \in PaymentIds, ReceiveWebhook(c, p)
      PROVE  TypeOK'
    <2> DEFINE out == IF provider[p] = "approved" THEN "SUCCESS" ELSE "FAILED"
    <2>1. [op |-> "webhook", of |-> p, outcome |-> out] \in Call
        BY DEF Call
    <2> QED BY <1>7, <2>1 DEF ReceiveWebhook, AnsweredEarly, tables, Begin, TypeOK, fedapay
<1>8. ASSUME NEW c \in Callers, NEW p \in PaymentIds, ReadForSync(c, p)
      PROVE  TypeOK'
    <2>1. SyncOutcome(p) \in {"SUCCESS", "FAILED"}
        BY <1>8 DEF ReadForSync, SyncOutcome
    <2>2. [op |-> "sync", of |-> p, outcome |-> SyncOutcome(p)] \in Call
        BY <2>1 DEF Call
    <2> QED BY <1>8, <2>2 DEF ReadForSync, Begin, TypeOK, fedapay, tables
<1>9. ASSUME NEW c \in Callers,
             CreatePayment(c) \/ RefuseDuplicate(c) \/ Apply(c) \/ Abort(c)
      PROVE  /\ call' \in [Callers -> Call] /\ answered' \subseteq PaymentIds
             /\ UNCHANGED fedapay
             /\ event' \in [PaymentIds -> {"none", "received", "processed"}]
    <2>1. CASE CreatePayment(c) \/ Abort(c)
        BY <2>1, CallShape DEF CreatePayment, Abort, End, TypeOK, fedapay, tables
    <2>2. CASE RefuseDuplicate(c)
        BY <2>2, CallShape DEF RefuseDuplicate, End, TypeOK, fedapay, tables
    <2>3. CASE Apply(c)
        <3>1. call[c].of \in PaymentIds /\ Idle \in Call
            BY <2>3, CallShape DEF Apply
        <3>2. call' \in [Callers -> Call] /\ UNCHANGED fedapay
            BY <2>3, <3>1 DEF Apply, End, TypeOK
        <3>3. answered' \subseteq PaymentIds
            BY <2>3, <3>1 DEF Apply, TypeOK
        <3>4. event' \in [PaymentIds -> {"none", "received", "processed"}]
            <4>1. event' \in {event, [event EXCEPT ![call[c].of] = "processed"],
                                     [event EXCEPT ![call[c].of] = "received"]}
                BY <2>3 DEF Apply
            <4> QED BY <4>1, <3>1 DEF TypeOK
        <3> QED BY <3>2, <3>3, <3>4
    <2> QED BY <1>9, <2>1, <2>2, <2>3
<1>10. CASE UNCHANGED vars
    BY <1>10 DEF vars, fedapay, tables, TypeOK
<1>11. CASE \E p \in PaymentIds :
                \/ Push(p)
                \/ \E amount \in Charged : Approve(p, amount)
                \/ \E reason \in Refusals : Refuse(p, reason)
                \/ IgnoreWebhook(p)
    BY <1>11, <1>5, <1>2, <1>3, <1>4 DEF TypeOK
<1>12. CASE \E c \in Callers, p \in PaymentIds :
                \/ \E s \in Students, tickets \in Tickets : OpenTransaction(c, p, s, tickets)
                \/ ReceiveWebhook(c, p)
                \/ ReadForSync(c, p)
    BY <1>12, <1>6, <1>7, <1>8
<1>13. CASE \E c \in Callers : CreatePayment(c) \/ RefuseDuplicate(c) \/ Apply(c) \/ Abort(c)
    BY <1>13, <1>9, <1>2, <1>3, <1>4 DEF TypeOK, fedapay
<1> QED
    BY <1>10, <1>11, <1>12, <1>13 DEF Next

(* A call under way: what it holds still holds. *)
LEMMA CallKeeps ==
    ASSUME Inv, [Next]_vars, NEW d \in Callers, call'[d] = call[d]
    PROVE  /\ call[d].op \in {"webhook", "sync"} =>
                /\ payments'[call[d].of] # NoRow
                /\ call[d].outcome = "SUCCESS" =>
                    provider'[call[d].of] = "approved" /\ charged'[call[d].of] = "expected"
                /\ call[d].outcome = "FAILED" => provider'[call[d].of] \in Refusals
           /\ call[d].op = "intent" =>
                payments'[call[d].of] = NoRow /\ provider'[call[d].of] # "none"
<1> USE DEF Inv
<1>1. ProviderStep /\ TablesStep
    BY Steps
<1>2. ASSUME call[d].op \in {"webhook", "sync"}
      PROVE  /\ payments'[call[d].of] # NoRow
             /\ call[d].outcome = "SUCCESS" =>
                    provider'[call[d].of] = "approved" /\ charged'[call[d].of] = "expected"
             /\ call[d].outcome = "FAILED" => provider'[call[d].of] \in Refusals
    <2>1. call[d].of \in PaymentIds /\ payments[call[d].of] # NoRow
        BY <1>2, CallShape DEF CallsSound
    <2>2. payments'[call[d].of] # NoRow
        <3>1. ASSUME NEW c \in Callers, NEW p \in PaymentIds, Inserts(c, p)
              PROVE  payments'[call[d].of] # NoRow
            BY <2>1, <3>1, InsertedRow
        <3>2. ASSUME NEW c \in Callers, NEW p \in PaymentIds, Settles(c, p)
              PROVE  payments'[call[d].of] # NoRow
            BY <2>1, <3>2, SettledRow
        <3> QED BY <1>1, <2>1, <3>1, <3>2 DEF TablesStep, Quiet, tables, Ignores
    <2> QED BY <1>1, <1>2, <2>1, <2>2 DEF ProviderStep, CallsSound, Final
<1>3. ASSUME call[d].op = "intent"
      PROVE  payments'[call[d].of] = NoRow /\ provider'[call[d].of] # "none"
    <2>1. call[d].of \in PaymentIds /\ payments[call[d].of] = NoRow
        BY <1>3, CallShape DEF CallsSound
    <2>2. payments'[call[d].of] = NoRow
        <3>1. ASSUME NEW c \in Callers, NEW p \in PaymentIds, Inserts(c, p)
              PROVE  payments'[call[d].of] = NoRow
            <4>1. c # d
                BY <1>3, <3>1 DEF Inserts, Idle, TypeOK
            <4>2. call[d].of # p
                BY <1>3, <3>1, <4>1 DEF Inserts, CallsSound
            <4> QED BY <2>1, <3>1, <4>2, InsertedRow
        <3>2. ASSUME NEW c \in Callers, NEW p \in PaymentIds, Settles(c, p)
              PROVE  payments'[call[d].of] = NoRow
            BY <2>1, <3>2, SettledRow DEF Settles
        <3> QED BY <1>1, <2>1, <3>1, <3>2 DEF TablesStep, Quiet, tables, Ignores
    <2> QED BY <1>1, <1>3, <2>1, <2>2 DEF ProviderStep, CallsSound
<1> QED
    BY <1>2, <1>3

LEMMA CallsStep ==
    ASSUME Inv, [Next]_vars
    PROVE  CallsSound'
<1> USE DEF Inv
<1>1. ASSUME \A d \in Callers : call'[d] = call[d] \/ call'[d].op = "idle" PROVE CallsSound'
    BY <1>1, CallKeeps DEF CallsSound
<1>2. ASSUME NEW c \in Callers, NEW p \in PaymentIds, NEW s \in Students,
             NEW tickets \in Tickets, OpenTransaction(c, p, s, tickets)
      PROVE  CallsSound'
    <2>1. /\ \A d \in Callers \ {c} : call'[d] = call[d]
          /\ call'[c].op = "intent" /\ call'[c].of = p
          /\ provider'[p] # "none" /\ payments' = payments
        BY <1>2 DEF OpenTransaction, CreateTransaction, Begin, TypeOK, tables
    <2>2. payments[p] = NoRow /\ provider[p] = "none"
        BY <1>2 DEF OpenTransaction, CreateTransaction, RowsSound
    <2>3. \A d \in Callers : call[d].op = "intent" => call[d].of # p
        BY <2>2 DEF CallsSound
    <2>4. \A d, e \in Callers : d # e /\ call'[d].op = "intent" /\ call'[e].op = "intent"
                => call'[d].of # call'[e].of
        BY <2>1, <2>3 DEF CallsSound
    <2> QED BY <2>1, <2>2, <2>4, CallKeeps DEF CallsSound
<1>3. ASSUME NEW c \in Callers, NEW p \in PaymentIds, ReceiveWebhook(c, p) \/ ReadForSync(c, p)
      PROVE  CallsSound'
    <2>1. /\ \A d \in Callers \ {c} : call'[d] = call[d]
          /\ call'[c].op \in {"webhook", "sync"} /\ call'[c].of = p
          /\ payments' = payments /\ provider' = provider /\ charged' = charged
        BY <1>3 DEF ReceiveWebhook, ReadForSync, Begin, TypeOK, tables, fedapay
    <2>2. payments[p] # NoRow
        BY <1>3 DEF ReceiveWebhook, Ignored, ReadForSync, Pending
    <2>3. call'[c].outcome = "SUCCESS" => provider[p] = "approved" /\ charged[p] = "expected"
        BY <1>3 DEF ReceiveWebhook, ReadForSync, Begin, SyncOutcome, AmountHolds, TypeOK
    <2>4. call'[c].outcome = "FAILED" => provider[p] \in Refusals
        <3>1. CASE ReceiveWebhook(c, p)
            BY <3>1 DEF ReceiveWebhook, Begin, TypeOK, Final
        <3>2. CASE ReadForSync(c, p)
            <4>1. call'[c].outcome = SyncOutcome(p)
                BY <3>2 DEF ReadForSync, Begin, TypeOK
            <4>2. provider[p] \in {"none", "created", "pushed", "approved"} \cup Refusals
                BY DEF TypeOK, Final
            <4> QED BY <4>1, <4>2 DEF SyncOutcome, SyncRefusals, WebhookRefusals
        <3> QED BY <1>3, <3>1, <3>2
    <2> QED BY <2>1, <2>2, <2>3, <2>4, CallKeeps DEF CallsSound
<1>4. ASSUME NEW p \in PaymentIds,
             Push(p) \/ IgnoreWebhook(p) \/ (\E amount \in Charged : Approve(p, amount))
                \/ \E reason \in Refusals : Refuse(p, reason)
      PROVE  call' = call
    BY <1>4 DEF Push, Charge, IgnoreWebhook, Approve, Refuse
<1>5. ASSUME NEW c \in Callers,
             CreatePayment(c) \/ RefuseDuplicate(c) \/ Apply(c) \/ Abort(c)
      PROVE  \A d \in Callers : call'[d] = call[d] \/ call'[d].op = "idle"
    BY <1>5 DEF CreatePayment, RefuseDuplicate, Apply, Abort, End, TypeOK, Idle
<1>6. CASE UNCHANGED vars
    BY <1>1, <1>6 DEF vars
<1>7. CASE \E p \in PaymentIds :
                \/ Push(p)
                \/ \E amount \in Charged : Approve(p, amount)
                \/ \E reason \in Refusals : Refuse(p, reason)
                \/ IgnoreWebhook(p)
    BY <1>7, <1>4, <1>1
<1>8. CASE \E c \in Callers, p \in PaymentIds :
                \/ \E s \in Students, tickets \in Tickets : OpenTransaction(c, p, s, tickets)
                \/ ReceiveWebhook(c, p)
                \/ ReadForSync(c, p)
    BY <1>8, <1>2, <1>3
<1>9. CASE \E c \in Callers : CreatePayment(c) \/ RefuseDuplicate(c) \/ Apply(c) \/ Abort(c)
    BY <1>9, <1>5, <1>1
<1> QED
    BY <1>6, <1>7, <1>8, <1>9 DEF Next

LEMMA SettledStep ==
    ASSUME Inv, [Next]_vars
    PROVE  RowsSound' /\ EndsAsFedapaySays' /\ EventsOfSettled'
<1> USE DEF Inv
<1>1. ProviderStep /\ TablesStep
    BY Steps
<1> SUFFICES ASSUME NEW p \in PaymentIds
             PROVE  /\ payments'[p] # NoRow =>
                        /\ provider'[p] # "none"
                        /\ payments'[p].status = "SUCCESS" =>
                                provider'[p] = "approved" /\ charged'[p] = "expected"
                        /\ payments'[p].status = "FAILED" => provider'[p] \in Refusals
                    /\ event'[p] # "none" =>
                        payments'[p] # NoRow /\ payments'[p].status # "PENDING"
    BY DEF RowsSound, EndsAsFedapaySays, EventsOfSettled, Existing, Pending
<1>2. ASSUME payments'[p] = payments[p]
      PROVE  payments'[p] # NoRow =>
                /\ provider'[p] # "none"
                /\ payments'[p].status = "SUCCESS" =>
                        provider'[p] = "approved" /\ charged'[p] = "expected"
                /\ payments'[p].status = "FAILED" => provider'[p] \in Refusals
    BY <1>1, <1>2 DEF ProviderStep, RowsSound, EndsAsFedapaySays, Existing, Final
<1>3. ASSUME payments'[p] = payments[p], event'[p] = event[p]
      PROVE  event'[p] # "none" => payments'[p] # NoRow /\ payments'[p].status # "PENDING"
    BY <1>3 DEF EventsOfSettled, Pending
<1>4. CASE Quiet
    BY <1>2, <1>3, <1>4 DEF Quiet, tables
<1>5. ASSUME NEW c \in Callers, NEW q \in PaymentIds, q # p,
             Inserts(c, q) \/ Settles(c, q) \/ Ignores(c, q)
      PROVE  payments'[p] = payments[p] /\ event'[p] = event[p]
    BY <1>5, InsertedRow, SettledRow DEF Inserts, Settles, Ignores
<1>6. ASSUME NEW c \in Callers, Inserts(c, p)
      PROVE  /\ payments'[p] # NoRow /\ payments'[p].status = "PENDING"
             /\ provider'[p] # "none" /\ event'[p] = "none"
    <2>1. provider[p] # "none"
        BY <1>6 DEF Inserts, CallsSound
    <2>2. event[p] = "none"
        BY <1>6 DEF Inserts, EventsOfSettled
    <2> QED BY <1>6, <2>1, <2>2, InsertedRow DEF Inserts
<1>7. ASSUME NEW c \in Callers, Settles(c, p)
      PROVE  /\ payments'[p] # NoRow /\ payments'[p].status = call[c].outcome
             /\ call[c].outcome \in {"SUCCESS", "FAILED"}
             /\ provider'[p] # "none"
             /\ call[c].outcome = "SUCCESS" =>
                    provider'[p] = "approved" /\ charged'[p] = "expected"
             /\ call[c].outcome = "FAILED" => provider'[p] \in Refusals
    <2>1. provider' = provider /\ charged' = charged /\ payments[p] # NoRow
        BY <1>7 DEF Settles
    <2>2. /\ payments'[p] # NoRow /\ payments'[p].status = call[c].outcome
          /\ call[c].outcome \in {"SUCCESS", "FAILED"}
        BY <1>7, SettledRow
    <2>3. /\ call[c].outcome = "SUCCESS" => provider[p] = "approved" /\ charged[p] = "expected"
          /\ call[c].outcome = "FAILED" => provider[p] \in Refusals
        BY <1>7 DEF Settles, CallsSound
    <2>4. provider[p] # "none"
        BY <2>1 DEF RowsSound
    <2> QED BY <2>1, <2>2, <2>3, <2>4
<1>8. ASSUME NEW c \in Callers, Ignores(c, p)
      PROVE  payments'[p] = payments[p] /\ payments[p] # NoRow /\ payments[p].status # "PENDING"
    BY <1>8 DEF Ignores
<1> QED
    BY <1>1, <1>2, <1>3, <1>4, <1>5, <1>6, <1>7, <1>8 DEF TablesStep

(* The students who have a successful payment change only when one settles *)
(* with SUCCESS, and then by the student of that payment alone.            *)
HasPaid(s) ==
    \E p \in PaymentIds :
        payments[p] # NoRow /\ payments[p].student = s /\ payments[p].status = "SUCCESS"

LEMMA HasPaidIsSuccessful == \A s : HasPaid(s) <=> Successful(s) # {}
BY DEF HasPaid, Successful, Existing

LEMMA InsertsKeepsPaid ==
    ASSUME TypeOK, NEW c \in Callers, NEW p \in PaymentIds, Inserts(c, p) \/ Ignores(c, p),
           NEW s \in Students
    PROVE  HasPaid(s)' <=> HasPaid(s)
<1>1. CASE Inserts(c, p)
    <2>1. payments[p] = NoRow /\ payments'[p].status = "PENDING"
        BY <1>1, InsertedRow DEF Inserts
    <2>2. \A q \in PaymentIds \ {p} : payments'[q] = payments[q]
        BY <1>1, InsertedRow
    <2> QED BY <2>1, <2>2 DEF HasPaid
<1>2. CASE Ignores(c, p)
    BY <1>2 DEF Ignores, HasPaid
<1> QED
    BY <1>1, <1>2

LEMMA SettlesPaid ==
    ASSUME TypeOK, NEW c \in Callers, NEW p \in PaymentIds, Settles(c, p), NEW s \in Students
    PROVE  HasPaid(s)' <=>
                HasPaid(s) \/ (s = payments[p].student /\ call[c].outcome = "SUCCESS")
<1>1. /\ payments[p] # NoRow /\ payments[p].status = "PENDING"
      /\ payments'[p] # NoRow /\ payments'[p].student = payments[p].student
      /\ payments'[p].status = call[c].outcome
      /\ \A q \in PaymentIds \ {p} : payments'[q] = payments[q]
    BY SettledRow, ZenonT(30) DEF Settles
<1> QED
    BY <1>1 DEF HasPaid

LEMMA RewardedStep ==
    ASSUME Inv, [Next]_vars
    PROVE  RewardedIffRecharged'
<1> USE DEF Inv
<1>1. TablesStep
    BY Steps
<1> SUFFICES ASSUME NEW s \in Students
             PROVE  s \in rewarded' <=> Referrer[s] # NoRow /\ HasPaid(s)'
    BY DEF RewardedIffRecharged, Successful, Existing, HasPaid
<1>2. s \in rewarded <=> Referrer[s] # NoRow /\ HasPaid(s)
    BY HasPaidIsSuccessful DEF RewardedIffRecharged
<1>3. CASE Quiet
    BY <1>2, <1>3 DEF Quiet, tables, HasPaid
<1>4. ASSUME NEW c \in Callers, NEW p \in PaymentIds, Inserts(c, p) \/ Ignores(c, p)
      PROVE  s \in rewarded' <=> Referrer[s] # NoRow /\ HasPaid(s)'
    <2>1. rewarded' = rewarded
        BY <1>4 DEF Inserts, Ignores
    <2> QED BY <1>2, <1>4, <2>1, InsertsKeepsPaid
<1>5. ASSUME NEW c \in Callers, NEW p \in PaymentIds, Settles(c, p)
      PROVE  s \in rewarded' <=> Referrer[s] # NoRow /\ HasPaid(s)'
    <2>1. HasPaid(s)' <=> HasPaid(s) \/ (s = payments[p].student /\ call[c].outcome = "SUCCESS")
        BY <1>5, SettlesPaid
    <2>2. rewarded' = IF call[c].outcome = "SUCCESS" /\ Referrer[payments[p].student] # NoRow
                        THEN rewarded \cup {payments[p].student} ELSE rewarded
        BY <1>5 DEF Settles
    <2> QED BY <1>2, <2>1, <2>2
<1> QED
    BY <1>1, <1>3, <1>4, <1>5 DEF TablesStep

LEMMA InvStep == Inv /\ [Next]_vars => Inv'
BY TypeStep, CallsStep, SettledStep, RewardedStep DEF Inv

THEOREM Invariance == Spec => []Inv
BY InitInv, InvStep, PTL DEF Spec

(* The tables, and what handlers hold of them, stay well typed. *)
THEOREM PaymentsTyped == Spec => []TypeOK
<1>1. Inv => TypeOK
    BY DEF Inv
<1> QED BY <1>1, Invariance, PTL

(* A payment ends as FedaPay decided, whatever webhooks and polls race. *)
THEOREM PaymentsEndAsFedapaySays == Spec => []EndsAsFedapaySays
<1>1. Inv => EndsAsFedapaySays
    BY DEF Inv
<1> QED BY <1>1, Invariance, PTL

(* A referral is rewarded exactly when its student has recharged. *)
THEOREM ReferralsRewarded == Spec => []RewardedIffRecharged
<1>1. Inv => RewardedIffRecharged
    BY DEF Inv
<1> QED BY <1>1, Invariance, PTL

(* No webhook is taken for a duplicate while its payment is pending. *)
THEOREM EventsConcernSettled == Spec => []EventsOfSettled
<1>1. Inv => EventsOfSettled
    BY DEF Inv
<1> QED BY <1>1, Invariance, PTL

-----------------------------------------------------------------------------
(***************************************************************************)
(* The wallets, against the table of payments.  The claim on the payment   *)
(* settles it once; the claim on the referral holds exactly when the       *)
(* student has not recharged yet, which RewardedIffRecharged says, so that *)
(* the bonus goes to the referrer in the step that adds the student to     *)
(* those brought.                                                          *)
(***************************************************************************)

(* What payment p counts for in the wallet of s. *)
Bore(p, s) == IF p \in Successful(s) THEN payments[p].tickets ELSE 0

(* The wallets are sums over finite tables of natural numbers. *)
PurchasesSound ==
    \A s \in Students :
        /\ IsFiniteSet(Successful(s)) /\ Successful(s) \subseteq PaymentIds
        /\ [p \in Successful(s) |-> payments[p].tickets] \in [Successful(s) -> Nat]
        /\ Bought(s) \in Nat /\ IsFiniteSet(Brought(s)) /\ Cardinality(Brought(s)) \in Nat
        /\ \A p : Bore(p, s) \in Nat

LEMMA PurchasesTyped == TypeOK => PurchasesSound
<1> SUFFICES ASSUME TypeOK, NEW s \in Students
             PROVE  PurchasesSound!(s)
    BY DEF PurchasesSound
<1> DEFINE f == [p \in Successful(s) |-> payments[p].tickets]
<1>1. IsFiniteSet(Successful(s)) /\ Successful(s) \subseteq PaymentIds
    <2>1. Successful(s) \in SUBSET PaymentIds
        BY DEF Successful, Existing
    <2> QED BY <2>1, TablesAssumption, FS_Subset
<1>2. \A p \in Successful(s) : payments[p].tickets \in Nat
    BY RowShape DEF Successful, Existing
<1>3. f \in [Successful(s) -> Nat]
    BY <1>2
<1>4. Bought(s) \in Nat
    <2>1. SumOf(f) \in Nat
        <3> HIDE DEF f
        <3> QED BY <1>1, <1>3, SumType
    <2> QED BY <2>1 DEF Bought
<1>5. IsFiniteSet(Brought(s)) /\ Cardinality(Brought(s)) \in Nat
    <2>1. Brought(s) \in SUBSET Students
        BY DEF Brought
    <2> QED BY <2>1, TablesAssumption, FS_Subset, FS_CardinalityType
<1>6. \A p : Bore(p, s) \in Nat
    BY <1>2 DEF Bore
<1> QED
    BY <1>1, <1>3, <1>4, <1>5, <1>6

(* When p alone counts for another amount, so does the sum, by as much. *)
LEMMA BoughtFollows ==
    ASSUME TypeOK, TypeOK', NEW s \in Students, NEW p,
           \A q \in PaymentIds \ {p} : Bore(q, s)' = Bore(q, s)
    PROVE  Bought(s)' + Bore(p, s) = Bought(s) + Bore(p, s)'
<1>1. PurchasesSound /\ PurchasesSound'
    BY PurchasesTyped, PTL
<1> DEFINE f == [q \in Successful(s) |-> payments[q].tickets]
           g == [q \in Successful(s)' |-> payments'[q].tickets]
<1>2. /\ f \in [Successful(s) -> Nat] /\ IsFiniteSet(Successful(s))
      /\ g \in [Successful(s)' -> Nat] /\ IsFiniteSet(Successful(s)')
    BY <1>1 DEF PurchasesSound
<1>3. \A q : PartOf(f, q) = Bore(q, s) /\ PartOf(g, q) = Bore(q, s)'
    BY DEF PartOf, Bore
<1>4. \A q \in (Successful(s) \cup Successful(s)') \ {p} : PartOf(f, q) = PartOf(g, q)
    BY <1>1, <1>3 DEF PurchasesSound
<1>5. SumOf(g) + PartOf(f, p) = SumOf(f) + PartOf(g, p)
    <2> HIDE DEF f, g
    <2> QED BY <1>2, <1>4, SumChange
<1> QED
    BY <1>3, <1>5 DEF Bought

(* Nothing that is counted changes: the wallets do not either. *)
LEMMA WalletsStill ==
    ASSUME TypeOK, TypeOK', WalletsAccounted, UNCHANGED wallet,
           \A p \in PaymentIds, s \in Students :
                /\ p \in Successful(s)' <=> p \in Successful(s)
                /\ p \in Successful(s) => payments'[p].tickets = payments[p].tickets
    PROVE  WalletsAccounted'
<1> SUFFICES ASSUME NEW s \in Students
             PROVE  wallet[s] = Bought(s)' + Reward * Cardinality(Brought(s)')
    BY DEF WalletsAccounted
<1>1. PurchasesSound /\ PurchasesSound'
    BY PurchasesTyped, PTL
<1>2. \A t \in Students : Successful(t)' = Successful(t)
    BY <1>1 DEF PurchasesSound
<1>3. Brought(s)' = Brought(s)
    BY <1>2 DEF Brought
<1>4. [p \in Successful(s)' |-> payments'[p].tickets]
            = [p \in Successful(s) |-> payments[p].tickets]
    BY <1>1, <1>2 DEF PurchasesSound
<1> QED
    BY <1>3, <1>4 DEF Bought, WalletsAccounted

(* A payment that settles without success, or does not settle. *)
LEMMA UnpaidStep ==
    ASSUME Inv, Inv', WalletsAccounted, NEW c \in Callers, NEW p \in PaymentIds,
           \/ Inserts(c, p) \/ Ignores(c, p)
           \/ Settles(c, p) /\ call[c].outcome = "FAILED"
    PROVE  WalletsAccounted'
<1> USE DEF Inv
<1>1. wallet' = wallet
    BY DEF Inserts, Ignores, Settles
<1>2. /\ \A q \in PaymentIds \ {p} : payments'[q] = payments[q]
      /\ \/ payments'[p] = payments[p]
         \/ /\ payments[p] = NoRow \/ payments[p].status = "PENDING"
            /\ payments'[p].status # "SUCCESS"
    BY InsertedRow, SettledRow DEF Inserts, Ignores, Settles
<1>3. \A q \in PaymentIds, s \in Students :
            /\ q \in Successful(s)' <=> q \in Successful(s)
            /\ q \in Successful(s) => payments'[q].tickets = payments[q].tickets
    BY <1>2 DEF Successful, Existing
<1> QED
    BY <1>1, <1>3, WalletsStill

(* A payment that settles with success: its tickets, and the bonus of the  *)
(* referrer when it is the first of its student.                           *)
LEMMA PaidStep ==
    ASSUME Inv, Inv', WalletsAccounted, NEW c \in Callers, NEW p \in PaymentIds,
           Settles(c, p), call[c].outcome = "SUCCESS"
    PROVE  WalletsAccounted'
<1> USE DEF Inv
<1>1. PICK u \in Students, n \in Nat : u = payments[p].student /\ n = payments[p].tickets
    BY RowShape DEF Settles
<1>2. /\ payments[p] # NoRow /\ payments[p].status = "PENDING"
      /\ payments'[p] # NoRow /\ payments'[p].status = "SUCCESS"
      /\ payments'[p].student = u /\ payments'[p].tickets = n
      /\ \A q \in PaymentIds \ {p} : payments'[q] = payments[q]
    BY <1>1, SettledRow, ZenonT(30) DEF Settles
<1>3. wallet' = Credited(p)
    BY DEF Settles
<1> SUFFICES ASSUME NEW s \in Students
             PROVE  wallet'[s] = Bought(s)' + Reward * Cardinality(Brought(s)')
    BY DEF WalletsAccounted
<1> DEFINE bonus == IF s = Referrer[u] /\ FirstRecharge(u) THEN 1 ELSE 0
<1>4. PurchasesSound /\ PurchasesSound'
    BY PurchasesTyped, PTL
<1>5. Bore(p, s) = 0 /\ Bore(p, s)' = IF s = u THEN n ELSE 0
    BY <1>1, <1>2 DEF Bore, Successful, Existing
<1>6. \A q \in PaymentIds \ {p} : Bore(q, s)' = Bore(q, s)
    BY <1>2 DEF Bore, Successful, Existing
<1>7. Bought(s)' = Bought(s) + (IF s = u THEN n ELSE 0)
    <2>1. Bought(s)' + Bore(p, s) = Bought(s) + Bore(p, s)'
        BY <1>6, BoughtFollows
    <2>2. Bought(s) \in Nat /\ Bought(s)' \in Nat
        BY <1>4 DEF PurchasesSound
    <2> QED BY <1>5, <2>1, <2>2
<1>8. \A t \in Students : Successful(t)' # {} <=> Successful(t) # {} \/ t = u
    <2>1. \A t \in Students : HasPaid(t)' <=> HasPaid(t) \/ t = u
        BY <1>1, SettlesPaid
    <2> QED BY <2>1 DEF HasPaid, Successful, Existing
<1>9. FirstRecharge(u) \/ Referrer[u] = NoRow <=> Successful(u) = {} \/ Referrer[u] = NoRow
    BY DEF FirstRecharge, RewardedIffRecharged
<1>10. Cardinality(Brought(s)') = Cardinality(Brought(s)) + bonus
    <2>1. Brought(s)' = IF s = Referrer[u] THEN Brought(s) \cup {u} ELSE Brought(s)
        BY <1>8 DEF Brought
    <2>2. u \in Brought(s) <=> s = Referrer[u] /\ ~ FirstRecharge(u)
        BY <1>9, ReferrerAssumption DEF Brought
    <2>3. IsFiniteSet(Brought(s)) /\ Cardinality(Brought(s)) \in Nat
        BY <1>4 DEF PurchasesSound
    <2>4. Cardinality(Brought(s) \cup {u}) =
                IF u \in Brought(s) THEN Cardinality(Brought(s))
                ELSE Cardinality(Brought(s)) + 1
        BY <2>3, FS_AddElement
    <2> QED BY <2>1, <2>2, <2>3, <2>4
<1>11. wallet'[s] = wallet[s] + (IF s = u THEN n ELSE 0) + Reward * bonus
    <2>1. wallet'[s] = wallet[s] + (IF s = u THEN n ELSE 0)
                + (IF s = Referrer[u] /\ FirstRecharge(u) THEN Reward ELSE 0)
        BY <1>1, <1>3 DEF Credited
    <2>2. Reward * 1 = Reward /\ Reward * 0 = 0
        BY TicketsAssumption
    <2> QED BY <2>1, <2>2
<1>12. Reward * (Cardinality(Brought(s)) + bonus)
            = Reward * Cardinality(Brought(s)) + Reward * bonus
    <2>1. Cardinality(Brought(s)) \in Nat /\ bonus \in Nat /\ Reward \in Nat
        BY <1>4, TicketsAssumption DEF PurchasesSound
    <2>2. \A k, m, r \in Nat : r * (k + m) = r * k + r * m
        OBVIOUS
    <2> QED BY <2>1, <2>2
<1>13. /\ Bought(s) \in Nat /\ Reward * Cardinality(Brought(s)) \in Nat
       /\ Reward * bonus \in Nat
    <2>1. \A k, m \in Nat : k * m \in Nat
        OBVIOUS
    <2> QED BY <1>4, <2>1, TicketsAssumption DEF PurchasesSound
<1>14. wallet[s] = Bought(s) + Reward * Cardinality(Brought(s))
    BY DEF WalletsAccounted
<1> QED
    <2> HIDE DEF bonus
    <2> QED BY <1>1, <1>7, <1>10, <1>11, <1>12, <1>13, <1>14

LEMMA WalletsStep == Inv /\ Inv' /\ WalletsAccounted /\ [Next]_vars => WalletsAccounted'
<1> SUFFICES ASSUME Inv, Inv', WalletsAccounted, [Next]_vars PROVE WalletsAccounted'
    OBVIOUS
<1>1. TablesStep
    BY Steps DEF Inv
<1>2. CASE Quiet
    <2>1. UNCHANGED <<payments, wallet>>
        BY <1>2 DEF Quiet, tables
    <2> QED BY <2>1, WalletsStill DEF Inv, Successful, Existing
<1>3. ASSUME NEW c \in Callers, NEW p \in PaymentIds,
             Inserts(c, p) \/ Settles(c, p) \/ Ignores(c, p)
      PROVE  WalletsAccounted'
    <2>1. Settles(c, p) => call[c].outcome \in {"SUCCESS", "FAILED"}
        BY CallShape DEF Settles, Inv
    <2> QED BY <1>3, <2>1, UnpaidStep, PaidStep
<1> QED
    BY <1>1, <1>2, <1>3 DEF TablesStep

LEMMA WalletsInit == Init => WalletsAccounted
<1> SUFFICES ASSUME Init, NEW s \in Students
             PROVE  wallet[s] = Bought(s) + Reward * Cardinality(Brought(s))
    BY DEF WalletsAccounted
<1>1. \A t : Successful(t) = {}
    BY DEF Init, Successful, Existing
<1>2. Brought(s) = {} /\ DOMAIN [p \in Successful(s) |-> payments[p].tickets] = {}
    BY <1>1 DEF Brought
<1>3. Bought(s) = 0
    BY <1>2, SumEmpty DEF Bought
<1>4. Cardinality(Brought(s)) = 0
    BY <1>2, FS_EmptySet
<1> QED
    BY <1>3, <1>4, TicketsAssumption DEF Init

(* Whatever webhooks and polls race, and however often one is replayed, a  *)
(* wallet holds what the successful payments of the student bought and one *)
(* bonus for each student brought who has recharged.                       *)
THEOREM WalletsAreAccounted == Spec => []WalletsAccounted
BY WalletsInit, WalletsStep, Invariance, PTL DEF Spec

-----------------------------------------------------------------------------
(***************************************************************************)
(* Payments implements Credits.                                            *)
(***************************************************************************)

Ledger == [p \in PaymentIds |->
             IF payments[p] = NoRow THEN NoRow ELSE LedgerEntry(payments[p])]

LEMMA LedgerUnfold ==
    ASSUME NEW p \in PaymentIds
    PROVE  /\ payments[p] = NoRow => Ledger[p] = NoRow
           /\ payments[p] # NoRow => Ledger[p] = LedgerEntry(payments[p])
           /\ payments'[p] = NoRow => Ledger'[p] = NoRow
           /\ payments'[p] # NoRow => Ledger'[p] = LedgerEntry(payments'[p])
BY DEF Ledger

LEMMA EntryOfRow ==
    ASSUME NEW row \in PaymentRow
    PROVE  /\ LedgerEntry(row) # NoRow
           /\ LedgerEntry(row) = [student |-> row.student, tickets |-> row.tickets,
                                  state |-> State(row.status)]
           /\ LedgerEntry(row).student = row.student
           /\ LedgerEntry(row).tickets = row.tickets
           /\ LedgerEntry(row).state = State(row.status)
           /\ State(row.status) = "CREDITED" <=> row.status = "SUCCESS"
<1>1. State(row.status) \in {"OPEN", "CREDITED", "REFUSED"}
    BY DEF PaymentRow, State
<1>2. LedgerEntry(row) \in [student : Students, tickets : Tickets,
                            state : {"OPEN", "CREDITED", "REFUSED"}]
    BY <1>1 DEF LedgerEntry, PaymentRow
<1>3. State(row.status) = "CREDITED" <=> row.status = "SUCCESS"
    BY DEF PaymentRow, State
<1> QED
    BY <1>2, <1>3, NoRowAssumption DEF LedgerEntry

(* The other payments keep their entry. *)
LEMMA OneEntryMoves ==
    ASSUME NEW p \in PaymentIds, \A q \in PaymentIds \ {p} : payments'[q] = payments[q]
    PROVE  Ledger' = [Ledger EXCEPT ![p] = Ledger'[p]]
BY DEF Ledger

LEMMA InsertOpens ==
    ASSUME Inv, NEW c \in Callers, NEW p \in PaymentIds, Inserts(c, p)
    PROVE  Recharges!Next
<1> USE DEF Inv
<1>1. /\ payments'[p] \in PaymentRow /\ payments'[p] # NoRow
      /\ payments'[p].student = call[c].student /\ payments'[p].tickets = call[c].tickets
      /\ payments'[p].status = "PENDING"
      /\ \A q \in PaymentIds \ {p} : payments'[q] = payments[q]
    BY InsertedRow
<1>2. Ledger[p] = NoRow
    BY LedgerUnfold DEF Inserts
<1>3. Ledger'[p] = [student |-> call[c].student, tickets |-> call[c].tickets, state |-> "OPEN"]
    BY <1>1, LedgerUnfold DEF LedgerEntry, State
<1>4. Ledger' = [Ledger EXCEPT ![p] = [student |-> call[c].student,
                                       tickets |-> call[c].tickets, state |-> "OPEN"]]
    BY <1>1, <1>3, OneEntryMoves
<1>5. PICK s \in Students, tickets \in Tickets :
            s = call[c].student /\ tickets = call[c].tickets
    BY CallShape DEF Inserts
<1>6. Recharges!Open(p, s, tickets)
    BY <1>2, <1>4, <1>5 DEF Recharges!Open, Ledger, Inserts
<1> QED
    BY <1>6 DEF Recharges!Next

LEMMA HasCreditIsPaid ==
    ASSUME TypeOK, NEW s \in Students
    PROVE  Recharges!HasCredit(s) <=> HasPaid(s)
<1>1. ASSUME NEW p \in PaymentIds
      PROVE  (Ledger[p] # NoRow /\ Ledger[p].student = s /\ Ledger[p].state = "CREDITED")
                <=> (payments[p] # NoRow /\ payments[p].student = s
                        /\ payments[p].status = "SUCCESS")
    <2>1. CASE payments[p] = NoRow
        BY <2>1, LedgerUnfold
    <2>2. CASE payments[p] # NoRow
        BY <2>2, LedgerUnfold, RowShape, EntryOfRow
    <2> QED BY <2>1, <2>2
<1> QED
    BY <1>1 DEF Recharges!HasCredit, HasPaid, Ledger

LEMMA SettleCredits ==
    ASSUME Inv, NEW c \in Callers, NEW p \in PaymentIds, Settles(c, p)
    PROVE  Recharges!Next
<1> USE DEF Inv
<1> DEFINE s == payments[p].student
<1>1. /\ payments[p] # NoRow /\ payments[p] \in PaymentRow
      /\ payments[p].status = "PENDING" /\ s \in Students
    BY RowShape DEF Settles
<1>2. /\ payments'[p] \in PaymentRow /\ payments'[p] # NoRow
      /\ payments'[p].student = s /\ payments'[p].tickets = payments[p].tickets
      /\ payments'[p].status = call[c].outcome
      /\ call[c].outcome \in {"SUCCESS", "FAILED"}
      /\ \A q \in PaymentIds \ {p} : payments'[q] = payments[q]
    BY SettledRow
<1>3. /\ Ledger[p] = LedgerEntry(payments[p]) /\ Ledger[p] # NoRow
      /\ Ledger[p].student = s /\ Ledger[p].tickets = payments[p].tickets
      /\ Ledger[p].state = "OPEN"
    <2>1. State("PENDING") = "OPEN"
        BY DEF State
    <2> QED BY <1>1, <2>1, LedgerUnfold, EntryOfRow
<1>4. Ledger'[p] = [Ledger[p] EXCEPT !.state = State(call[c].outcome)]
    <2>1. Ledger'[p] = LedgerEntry(payments'[p])
        BY <1>2, LedgerUnfold
    <2>2. Ledger'[p] = [student |-> s, tickets |-> payments[p].tickets,
                        state |-> State(call[c].outcome)]
        BY <1>2, <2>1, EntryOfRow
    <2>3. Ledger[p] = [student |-> s, tickets |-> payments[p].tickets,
                       state |-> State(payments[p].status)]
        BY <1>1, <1>3, EntryOfRow
    <2> QED BY <2>2, <2>3
<1>5. Ledger' = [Ledger EXCEPT ![p] = [@ EXCEPT !.state = State(call[c].outcome)]]
    BY <1>2, <1>4, OneEntryMoves DEF Ledger
<1>6. CASE call[c].outcome = "SUCCESS"
    <2>1. State(call[c].outcome) = "CREDITED"
        BY <1>6 DEF State
    <2>2. wallet' = Credited(p)
        BY <1>6 DEF Settles
    <2>3. \A u \in Students :
            u = Referrer[s] => (FirstRecharge(s) <=> ~ Recharges!HasCredit(s))
        BY <1>1, ReferrerAssumption, HasCreditIsPaid, HasPaidIsSuccessful
           DEF FirstRecharge, RewardedIffRecharged
    <2>4. wallet' = [u \in Students |->
            wallet[u] + (IF u = s THEN Ledger[p].tickets ELSE 0)
                      + (IF u = Referrer[s] /\ ~ Recharges!HasCredit(s) THEN Reward ELSE 0)]
        BY <1>3, <2>2, <2>3 DEF Credited
    <2>5. Recharges!Credit(p)
        BY <1>3, <1>5, <2>1, <2>4 DEF Recharges!Credit, Ledger
    <2> QED BY <2>5 DEF Recharges!Next
<1>7. CASE call[c].outcome = "FAILED"
    <2>1. State(call[c].outcome) = "REFUSED"
        BY <1>7 DEF State
    <2>2. wallet' = wallet
        BY <1>7 DEF Settles
    <2>3. Recharges!Refuse(p)
        BY <1>3, <1>5, <2>1, <2>2 DEF Recharges!Refuse, Ledger
    <2> QED BY <2>3 DEF Recharges!Next
<1> QED
    BY <1>2, <1>6, <1>7

LEMMA NextIsCredit ==
    ASSUME Inv, [Next]_vars
    PROVE  [Recharges!Next]_Recharges!creditVars
<1>1. TablesStep
    BY Steps DEF Inv
<1>2. ASSUME UNCHANGED <<payments, wallet>> PROVE UNCHANGED Recharges!creditVars
    BY <1>2 DEF Recharges!creditVars
<1>3. CASE Quiet
    BY <1>2, <1>3 DEF Quiet, tables
<1>4. ASSUME NEW c \in Callers, NEW p \in PaymentIds, Ignores(c, p)
      PROVE  UNCHANGED Recharges!creditVars
    BY <1>2, <1>4 DEF Ignores
<1> QED
    BY <1>1, <1>3, <1>4, InsertOpens, SettleCredits DEF TablesStep

(* A payment credits its student once or never, and the first one that a   *)
(* student completes brings its referrer the bonus: whatever webhooks and  *)
(* polls race, applyPaymentOutcome implements Credits.                     *)
THEOREM PaymentsImplementCredits == Spec => ImplementsCredits
<1>1. Init => Recharges!Init
    BY DEF Init, Recharges!Init
<1> QED
    BY <1>1, NextIsCredit, Invariance, PTL DEF Spec, ImplementsCredits, Recharges!Spec

=============================================================================

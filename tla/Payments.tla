------------------------------ MODULE Payments ------------------------------
(***************************************************************************)
(* The recharges of a wallet through FedaPay (src/src/modules/payments,    *)
(* payments.service.ts) and the bonus of the referrer.                     *)
(*                                                                         *)
(* FedaPay is outside the program: it approves or refuses a transaction    *)
(* once it was pushed to the phone, may refuse or expire it before, and    *)
(* tells of it by a webhook that is sent again until it is answered, may   *)
(* come late, come several times, or come at the same time as a poll of    *)
(* the status.  What it decided is final.                                  *)
(*                                                                         *)
(* An HTTP call is a read (of the row, of the webhook, of FedaPay) and     *)
(* later a commit; the process may be killed in between.                   *)
(***************************************************************************)
EXTENDS Integers, FiniteSets, Sums

CONSTANTS
    Students,
    PaymentIds,     \* FedaPay's transaction ids; one payment row each (unique)
    Callers,        \* HTTP calls in flight at the same time (a bound)
    Tickets,        \* tickets that can be bought
    Refusals,       \* the ways FedaPay refuses that an instance explores
    Referrer,       \* table Referral: who brought each student, or NoRow
    Reward,         \* REFERRAL_REWARD_TICKETS
    NoRow           \* "no such row"

(* What handleWebhook and syncPendingFromFedapay take for a refusal. *)
WebhookRefusals == {"declined", "canceled", "failed"}
SyncRefusals    == WebhookRefusals \cup {"cancelled", "expired"}

ASSUME TablesAssumption   == IsFiniteSet(Students) /\ IsFiniteSet(PaymentIds)
ASSUME RefusalsAssumption == Refusals \subseteq SyncRefusals
ASSUME TicketsAssumption  == Tickets \subseteq Nat /\ Reward \in Nat
ASSUME ReferrerAssumption ==
    Referrer \in [Students -> Students \cup {NoRow}] /\ NoRow \notin Students

(* What FedaPay charged: the amount that was asked, or another one. *)
Charged == {"expected", "other"}
Final   == {"approved"} \cup Refusals

PaymentRow ==
    [student : Students, tickets : Tickets, status : {"PENDING", "SUCCESS", "FAILED"}]

ASSUME NoRowAssumption ==
    /\ NoRow \notin PaymentRow
    /\ NoRow \notin [student : Students, tickets : Tickets,
                     state : {"OPEN", "CREDITED", "REFUSED"}]

Idle == [op |-> "idle"]

VARIABLES
    provider,   \* FedaPay: the status of each transaction
    charged,    \* FedaPay: the amount of an approved transaction
    answered,   \* FedaPay: the webhooks that got their 2xx and are not sent again
    payments,   \* table Payment: PaymentIds -> PaymentRow, or NoRow
    event,      \* table PaymentWebhookEvent: one row per transaction and outcome
    wallet,     \* User.walletBalance, as far as recharges change it
    rewarded,   \* the students whose Referral has its rewardedAt
    call        \* what each HTTP call holds

fedapay == <<provider, charged>>
tables  == <<payments, event, wallet, rewarded>>
vars    == <<fedapay, answered, tables, call>>

Existing == {p \in PaymentIds : payments[p] # NoRow}
Pending(p) == payments[p] # NoRow /\ payments[p].status = "PENDING"

Begin(c, what) == call[c] = Idle /\ call' = [call EXCEPT ![c] = what]
End(c) == call' = [call EXCEPT ![c] = Idle]

(***************************************************************************)
(* The student.                                                            *)
(***************************************************************************)

(* createTransaction, of FedapayService: a request whose answer may be lost. *)
CreateTransaction(p) ==
    provider[p] = "none" /\ provider' = [provider EXCEPT ![p] = "created"]

(* createPaymentIntent, up to the answer of FedaPay. *)
OpenTransaction(c, p, s, tickets) ==
    /\ CreateTransaction(p)
    /\ Begin(c, [op |-> "intent", of |-> p, student |-> s, tickets |-> tickets])
    /\ UNCHANGED <<charged, answered, tables>>

(* createPaymentIntent: the row, after FedaPay's transaction exists. *)
CreatePayment(c) ==
    /\ call[c].op = "intent"
    /\ payments' = [payments EXCEPT ![call[c].of] =
            [student |-> call[c].student, tickets |-> call[c].tickets, status |-> "PENDING"]]
    /\ End(c)
    /\ UNCHANGED <<fedapay, answered, event, wallet, rewarded>>

(* initiateMobileMoneyPayment: a token, then the charge that the phone is    *)
(* asked to confirm.  A lost token does nothing, nor does a second charge.   *)
Charge(p) ==
    provider[p] = "created" /\ provider' = [provider EXCEPT ![p] = "pushed"]

(* initiatePayment: as often as the student likes. *)
Push(p) ==
    /\ Pending(p)
    /\ Charge(p)
    /\ UNCHANGED <<charged, answered, tables, call>>

(***************************************************************************)
(* FedaPay.                                                                *)
(***************************************************************************)

Approve(p, amount) ==
    /\ provider[p] = "pushed"
    /\ provider' = [provider EXCEPT ![p] = "approved"]
    /\ charged' = [charged EXCEPT ![p] = amount]
    /\ UNCHANGED <<answered, tables, call>>

Refuse(p, reason) ==
    /\ provider[p] \in {"created", "pushed"}
    /\ provider' = [provider EXCEPT ![p] = reason]
    /\ UNCHANGED <<charged, answered, tables, call>>

(***************************************************************************)
(* The two ways an outcome reaches the program.                            *)
(***************************************************************************)

(* The amount that FedaPay confirms is the one of the row. *)
AmountHolds(p) == charged[p] = "expected"

(* handleWebhook answers 2xx to what it will never process: an unknown      *)
(* payment, or an outcome it does not handle.                               *)
Ignored(p) == payments[p] = NoRow \/ provider[p] \notin WebhookRefusals \cup {"approved"}

(* handleWebhook, when it answers at once; a wrong amount answers 400 and  *)
(* changes nothing.                                                        *)
IgnoreWebhook(p) ==
    /\ provider[p] \in Final
    /\ Ignored(p)
    /\ answered' = answered \cup {p}
    /\ UNCHANGED <<fedapay, tables, call>>

AnsweredEarlyMutant(p) == answered \cup {p}

(* handleWebhook answers once the outcome is applied, not before. *)
AnsweredEarly(p) == answered

(* handleWebhook, up to applyPaymentOutcome; the event is not recorded yet. *)
ReceiveWebhook(c, p) ==
    /\ provider[p] \in Final
    /\ ~ Ignored(p)
    /\ provider[p] = "approved" => AmountHolds(p)
    /\ Begin(c, [op |-> "webhook", of |-> p,
                 outcome |-> IF provider[p] = "approved" THEN "SUCCESS" ELSE "FAILED"])
    /\ answered' = AnsweredEarly(p)
    /\ UNCHANGED <<fedapay, tables>>

SyncOutcomeMutant(p) == IF provider[p] = "approved" THEN "SUCCESS" ELSE "FAILED"

(* The outcome that syncPendingFromFedapay reads in FedaPay's answer. *)
SyncOutcome(p) ==
    IF provider[p] = "approved" THEN "SUCCESS"
    ELSE IF provider[p] \in SyncRefusals THEN "FAILED" ELSE "PENDING"

(* findOne on a PENDING payment: FedaPay is asked for the status.  An error *)
(* of FedaPay leaves everything as it is.                                   *)
ReadForSync(c, p) ==
    /\ Pending(p)
    /\ SyncOutcome(p) # "PENDING"
    /\ SyncOutcome(p) = "SUCCESS" => AmountHolds(p)
    /\ Begin(c, [op |-> "sync", of |-> p, outcome |-> SyncOutcome(p)])
    /\ UNCHANGED <<fedapay, answered, tables>>

(***************************************************************************)
(* applyPaymentOutcome.                                                    *)
(***************************************************************************)

(* The unique key of PaymentWebhookEvent refuses a webhook that came before. *)
KeyTaken(c) == call[c].op = "webhook" /\ event[call[c].of] # "none"

ClaimHoldsMutant(p) == TRUE

(* The WHERE clause of the claim on the payment. *)
ClaimHolds(p) == payments[p].status = "PENDING"

FirstRechargeMutant(s) == TRUE

(* The WHERE clause of the claim on the referral of a student. *)
FirstRecharge(s) == s \notin rewarded

(* Whether this outcome leaves the referral of a student rewarded. *)
Rewards(outcome, s) == outcome = "SUCCESS" /\ Referrer[s] # NoRow

(* The wallets once payment p is credited. *)
Credited(p) ==
    LET s == payments[p].student IN
    [u \in Students |->
        wallet[u] + (IF u = s THEN payments[p].tickets ELSE 0)
                  + (IF u = Referrer[s] /\ FirstRecharge(s) THEN Reward ELSE 0)]

RefuseDuplicate(c) ==
    /\ call[c].op = "webhook"
    /\ KeyTaken(c)
    /\ answered' = answered \cup {call[c].of}
    /\ End(c)
    /\ UNCHANGED <<fedapay, tables>>

Apply(c) ==
    LET p == call[c].of  webhook == call[c].op = "webhook"  s == payments[p].student IN
    /\ call[c].op \in {"webhook", "sync"}
    /\ ~ KeyTaken(c)
    /\ IF ClaimHolds(p)
         THEN /\ payments' = [payments EXCEPT ![p].status = call[c].outcome]
              /\ event' = IF webhook THEN [event EXCEPT ![p] = "processed"] ELSE event
              /\ wallet' = IF call[c].outcome = "SUCCESS" THEN Credited(p) ELSE wallet
              /\ rewarded' = IF Rewards(call[c].outcome, s) THEN rewarded \cup {s} ELSE rewarded
         ELSE /\ event' = IF webhook THEN [event EXCEPT ![p] = "received"] ELSE event
              /\ UNCHANGED <<payments, wallet, rewarded>>
    /\ answered' = IF webhook THEN answered \cup {p} ELSE answered
    /\ End(c)
    /\ UNCHANGED fedapay

(* The process is killed; an open transaction is rolled back. *)
Abort(c) ==
    /\ call[c] # Idle
    /\ End(c)
    /\ UNCHANGED <<fedapay, answered, tables>>

Init ==
    /\ provider = [p \in PaymentIds |-> "none"]
    /\ charged = [p \in PaymentIds |-> "expected"]
    /\ answered = {}
    /\ payments = [p \in PaymentIds |-> NoRow]
    /\ event = [p \in PaymentIds |-> "none"]
    /\ wallet = [s \in Students |-> 0]
    /\ rewarded = {}
    /\ call = [c \in Callers |-> Idle]

Next ==
    \/ \E p \in PaymentIds :
        \/ Push(p)
        \/ \E amount \in Charged : Approve(p, amount)
        \/ \E reason \in Refusals : Refuse(p, reason)
        \/ IgnoreWebhook(p)
    \/ \E c \in Callers, p \in PaymentIds :
        \/ \E s \in Students, tickets \in Tickets : OpenTransaction(c, p, s, tickets)
        \/ ReceiveWebhook(c, p)
        \/ ReadForSync(c, p)
    \/ \E c \in Callers : CreatePayment(c) \/ RefuseDuplicate(c) \/ Apply(c) \/ Abort(c)

Spec == Init /\ [][Next]_vars

-----------------------------------------------------------------------------
(* FedaPay sends a webhook again until it is answered ("Ne pas renvoyer     *)
(* 404 a FedaPay (retries / bruit)", handleWebhook), and a call is not      *)
(* killed for ever: whatever the student does, an unanswered webhook is     *)
(* received again and again, and applied in the end.  A request that opened *)
(* a transaction stores the payment, unless it is killed.                   *)
Redelivered(p) == \E c \in Callers : p \notin answered /\ ReceiveWebhook(c, p)
Processed(p) ==
    \E c \in Callers :
        /\ call[c].op \in {"webhook", "sync"}
        /\ call[c].of = p
        /\ Apply(c) \/ RefuseDuplicate(c)

FairSpec ==
    /\ Spec
    /\ \A p \in PaymentIds : SF_vars(Redelivered(p)) /\ SF_vars(Processed(p))
    /\ \A c \in Callers : WF_vars(CreatePayment(c))

-----------------------------------------------------------------------------
(***************************************************************************)
(* Properties.                                                             *)
(***************************************************************************)

Call ==
    [op : {"idle"}]
    \cup [op : {"intent"}, of : PaymentIds, student : Students, tickets : Tickets]
    \cup [op : {"webhook", "sync"}, of : PaymentIds, outcome : {"SUCCESS", "FAILED"}]

TypeOK ==
    /\ provider \in [PaymentIds -> {"none", "created", "pushed"} \cup Final]
    /\ charged \in [PaymentIds -> Charged]
    /\ answered \subseteq PaymentIds
    /\ payments \in [PaymentIds -> PaymentRow \cup {NoRow}]
    /\ event \in [PaymentIds -> {"none", "received", "processed"}]
    /\ wallet \in [Students -> Nat]
    /\ rewarded \subseteq Students
    /\ call \in [Callers -> Call]

(* A payment ends as FedaPay decided: tickets are credited only against    *)
(* money that was taken, for the amount that was asked, and no student who *)
(* paid is told that the recharge failed, whichever of a late webhook, a   *)
(* replayed one and a poll came first.                                     *)
EndsAsFedapaySays ==
    \A p \in Existing :
        /\ payments[p].status = "SUCCESS" => provider[p] = "approved" /\ charged[p] = "expected"
        /\ payments[p].status = "FAILED" => provider[p] \in Refusals

(* What the successful recharges of a student bought, and the students     *)
(* brought by s who have recharged.                                        *)
Successful(s) == {p \in Existing : payments[p].student = s /\ payments[p].status = "SUCCESS"}
Bought(s) == SumOf([p \in Successful(s) |-> payments[p].tickets])
Brought(s) == {t \in Students : Referrer[t] = s /\ Successful(t) # {}}

(* Wallets hold what the successful payments brought and one bonus for     *)
(* each student brought who has paid: webhooks that race or are replayed,  *)
(* and two first recharges at the same time, credit nothing twice.         *)
WalletsAccounted ==
    \A s \in Students : wallet[s] = Bought(s) + Reward * Cardinality(Brought(s))

(* A referral is rewarded exactly when the student brought has a recharge  *)
(* that succeeded.                                                         *)
RewardedIffRecharged ==
    \A s \in Students :
        s \in rewarded <=> Referrer[s] # NoRow /\ Successful(s) # {}

(* A webhook that was taken for a duplicate, or answered with nothing to   *)
(* do, concerns a payment that is settled: none is dropped by mistake.     *)
EventsOfSettled ==
    \A p \in PaymentIds : event[p] # "none" => payments[p] # NoRow /\ ~ Pending(p)

(* With respect to wallets, Payments implements Credits. *)
State(status) ==
    CASE status = "PENDING" -> "OPEN"
      [] status = "SUCCESS" -> "CREDITED"
      [] status = "FAILED"  -> "REFUSED"

LedgerEntry(row) ==
    [student |-> row.student, tickets |-> row.tickets, state |-> State(row.status)]

Recharges == INSTANCE Credits WITH
    ledger <- [p \in PaymentIds |->
                 IF payments[p] = NoRow THEN NoRow ELSE LedgerEntry(payments[p])]

ImplementsCredits == Recharges!Spec

(* A student who paid the amount asked gets the tickets, even if every     *)
(* poll fails and handlers are killed before they commit.                  *)
PaidIsCredited ==
    \A p \in PaymentIds :
        (provider[p] = "approved" /\ charged[p] = "expected")
            ~> (payments[p] # NoRow /\ payments[p].status = "SUCCESS")

=============================================================================

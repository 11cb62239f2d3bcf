----------------------------- MODULE Withdrawals -----------------------------
(***************************************************************************)
(* The manual withdrawals of the canteens (src/src/modules/vendors,        *)
(* withdrawals.service.ts).  A canteen asks for a withdrawal, which debits *)
(* its balance at once; an administrator accepts it, sends the money by    *)
(* hand, uploads the proof of the transfer and confirms; or fails or       *)
(* cancels it, which credits the balance again.                            *)
(*                                                                         *)
(* Canteens and administrators call at the same time.  Each HTTP call is a *)
(* read followed by a commit, at READ COMMITTED and with no row lock in    *)
(* between.  A commit is one action: its transaction holds every row it    *)
(* wrote until it ends, and two transactions that lock the same rows in    *)
(* opposite orders (confirmManualPayment and failOrCancel) end with one of *)
(* them rolled back by PostgreSQL, which is Abort.                         *)
(***************************************************************************)
EXTENDS Integers, FiniteSets, Sums

CONSTANTS
    Vendors,        \* canteens
    WithdrawalIds,  \* ids of the withdrawals that can be asked for (a bound)
    Callers,        \* HTTP calls in flight at the same time (a bound)
    Debits,         \* debitedFromBalance of the amounts asked for, in FCFA
    Sales,          \* amounts that orders that become READY credit
    Proofs,         \* images that can be uploaded
    InitialBalance, \* balanceFcfa of each canteen at the start
    MaxCredit,      \* bound on what the sales of one canteen add up to
    NoRow           \* "no such row"

ASSUME WithdrawalIdsAssumption == IsFiniteSet(WithdrawalIds)
ASSUME CallersAssumption == IsFiniteSet(Callers)
ASSUME DebitsAssumption == Debits \subseteq Nat
ASSUME SalesAssumption  == Sales \subseteq Nat
ASSUME BalanceAssumption == InitialBalance \in Nat /\ MaxCredit \in Nat
ASSUME ProofsAssumption == NoRow \notin Proofs

Open     == {"PENDING", "PROCESSING"}
Closed   == {"FAILED", "CANCELLED"}
Statuses == Open \cup Closed \cup {"COMPLETED"}

WithdrawalRow ==
    [status : Statuses, vendor : Vendors, debited : Nat, accepted : BOOLEAN,
     paid : BOOLEAN, cancelled : BOOLEAN]

ASSUME NoRowAssumption == NoRow \notin WithdrawalRow

Idle == [op |-> "idle"]

VARIABLES
    withdrawals,    \* table Withdrawal: WithdrawalIds -> WithdrawalRow, or NoRow
    proof,          \* table WithdrawalProof: the image of each withdrawal, or NoRow
    debitEntry,     \* status of the WITHDRAWAL row of Transaction, or "NONE"
    refunds,        \* how many REFUND rows of Transaction per withdrawal
    balance,        \* Vendor.balanceFcfa
    active,         \* Vendor.isActive
    credited,       \* history variable: what the sales of a canteen added up to
    call            \* what each call has read

tables == <<withdrawals, proof, debitEntry, refunds, balance, active, credited>>
vars == <<tables, call>>

Existing == {w \in WithdrawalIds : withdrawals[w] # NoRow}
Status(w) == withdrawals[w].status

Begin(a, c) == call[a] = Idle /\ call' = [call EXCEPT ![a] = c]
End(a) == call' = [call EXCEPT ![a] = Idle]

(* request: the checks on the account of the canteen, outside the transaction. *)
ReadForRequest(a, v, debit) ==
    /\ active[v]
    /\ Begin(a, [op |-> "request", vendor |-> v, debit |-> debit])
    /\ UNCHANGED tables

(* The WHERE clause of the debit of request. *)
CanDebit(v, debit) == balance[v] >= debit

(* request: the conditional debit, then the two insertions. *)
CommitRequest(a, w) ==
    LET v == call[a].vendor  debit == call[a].debit IN
    /\ call[a].op = "request"
    /\ withdrawals[w] = NoRow
    /\ IF CanDebit(v, debit)
         THEN /\ balance' = [balance EXCEPT ![v] = @ - debit]
              /\ withdrawals' = [withdrawals EXCEPT ![w] =
                    [status |-> "PENDING", vendor |-> v, debited |-> debit,
                     accepted |-> FALSE, paid |-> FALSE, cancelled |-> FALSE]]
              /\ debitEntry' = [debitEntry EXCEPT ![w] = "PENDING"]
         ELSE UNCHANGED <<balance, withdrawals, debitEntry>>
    /\ End(a)
    /\ UNCHANGED <<proof, refunds, active, credited>>

(* The credit that OrdersService.update gives when an order becomes READY. *)
Sale(v, amount) ==
    /\ credited[v] + amount <= MaxCredit
    /\ balance' = [balance EXCEPT ![v] = @ + amount]
    /\ credited' = [credited EXCEPT ![v] = @ + amount]
    /\ UNCHANGED <<withdrawals, proof, debitEntry, refunds, active, call>>

(* VendorsService.update: an administrator opens or closes the account. *)
SetActive(v, on) ==
    /\ active' = [active EXCEPT ![v] = on]
    /\ UNCHANGED <<withdrawals, proof, debitEntry, refunds, balance, credited, call>>

(* accept: the check, then the claim on PENDING. *)
ReadForAccept(a, w) ==
    /\ withdrawals[w] # NoRow
    /\ Status(w) = "PENDING"
    /\ Begin(a, [op |-> "accept", of |-> w])
    /\ UNCHANGED tables

CommitAccept(a) ==
    LET w == call[a].of IN
    /\ call[a].op = "accept"
    /\ IF Status(w) = "PENDING"
         THEN withdrawals' = [withdrawals EXCEPT ![w].status = "PROCESSING",
                                                 ![w].accepted = TRUE]
         ELSE UNCHANGED withdrawals
    /\ End(a)
    /\ UNCHANGED <<proof, debitEntry, refunds, balance, active, credited>>

(* What uploadProof checks before it writes. *)
MayUpload(w) == Status(w) = "PROCESSING"

(* uploadProof: the check, then an upsert that checks nothing again. *)
ReadForProof(a, w, image) ==
    /\ withdrawals[w] # NoRow
    /\ MayUpload(w)
    /\ Begin(a, [op |-> "proof", of |-> w, image |-> image])
    /\ UNCHANGED tables

WriteProof(a) ==
    /\ call[a].op = "proof"
    /\ proof' = [proof EXCEPT ![call[a].of] = call[a].image]
    /\ End(a)
    /\ UNCHANGED <<withdrawals, debitEntry, refunds, balance, active, credited>>

(* What confirmManualPayment reads first in its transaction. *)
MayConfirm(w) == Status(w) = "PROCESSING" /\ proof[w] # NoRow

ReadForConfirm(a, w) ==
    /\ withdrawals[w] # NoRow
    /\ MayConfirm(w)
    /\ Begin(a, [op |-> "confirm", of |-> w])
    /\ UNCHANGED tables

(* The WHERE clause of the status change of confirmManualPayment. *)
ConfirmHolds(w) == Status(w) = "PROCESSING"

CommitConfirm(a) ==
    LET w == call[a].of IN
    /\ call[a].op = "confirm"
    /\ IF ConfirmHolds(w)
         THEN /\ withdrawals' = [withdrawals EXCEPT ![w].status = "COMPLETED",
                                                    ![w].paid = TRUE]
              /\ debitEntry' = [debitEntry EXCEPT ![w] = "COMPLETED"]
         ELSE UNCHANGED <<withdrawals, debitEntry>>
    /\ End(a)
    /\ UNCHANGED <<proof, refunds, balance, active, credited>>

MayCloseMutant(w) == Status(w) # "COMPLETED"

(* What failOrCancel reads first in its transaction. *)
MayClose(w) == Status(w) \in Open

(* fail and cancel: the check, then the refund and an update of the row *)
(* whose WHERE clause is its id alone.                                  *)
ReadForClose(a, w, target) ==
    /\ withdrawals[w] # NoRow
    /\ MayClose(w)
    /\ Begin(a, [op |-> "close", of |-> w, target |-> target])
    /\ UNCHANGED tables

(* What becomes of the debit in the ledger when the withdrawal is closed. *)
ClosedEntry(w, target) == "FAILED"

RefundMutant(w) == withdrawals[w].debited + 1

(* The amount that failOrCancel gives back. *)
Refund(w) == withdrawals[w].debited

CommitClose(a) ==
    LET w == call[a].of IN
    /\ call[a].op = "close"
    /\ balance' = [balance EXCEPT ![withdrawals[w].vendor] = @ + Refund(w)]
    /\ refunds' = [refunds EXCEPT ![w] = @ + 1]
    /\ debitEntry' = [debitEntry EXCEPT ![w] = ClosedEntry(w, call[a].target)]
    /\ withdrawals' = [withdrawals EXCEPT
            ![w].status = call[a].target,
            ![w].cancelled = @ \/ call[a].target = "CANCELLED"]
    /\ End(a)
    /\ UNCHANGED <<proof, active, credited>>

(* The process is killed: the transaction is rolled back. *)
Abort(a) ==
    /\ call[a] # Idle
    /\ End(a)
    /\ UNCHANGED tables

Init ==
    /\ withdrawals = [w \in WithdrawalIds |-> NoRow]
    /\ proof = [w \in WithdrawalIds |-> NoRow]
    /\ debitEntry = [w \in WithdrawalIds |-> "NONE"]
    /\ refunds = [w \in WithdrawalIds |-> 0]
    /\ balance = [v \in Vendors |-> InitialBalance]
    /\ active = [v \in Vendors |-> TRUE]
    /\ credited = [v \in Vendors |-> 0]
    /\ call = [a \in Callers |-> Idle]

Read(a) ==
    \/ \E v \in Vendors, debit \in Debits : ReadForRequest(a, v, debit)
    \/ \E w \in WithdrawalIds :
        \/ ReadForAccept(a, w)
        \/ \E image \in Proofs : ReadForProof(a, w, image)
        \/ ReadForConfirm(a, w)
        \/ \E target \in Closed : ReadForClose(a, w, target)

Commit(a) ==
    \/ \E w \in WithdrawalIds : CommitRequest(a, w)
    \/ CommitAccept(a)
    \/ WriteProof(a)
    \/ CommitConfirm(a)
    \/ CommitClose(a)

Next ==
    \/ \E a \in Callers : Read(a) \/ Commit(a) \/ Abort(a)
    \/ \E v \in Vendors :
        \/ \E amount \in Sales : Sale(v, amount)
        \/ \E on \in BOOLEAN : SetActive(v, on)

Spec == Init /\ [][Next]_vars

-----------------------------------------------------------------------------
(***************************************************************************)
(* Properties, for any number of calls at a time.                          *)
(***************************************************************************)

Call ==
    [op : {"idle"}]
    \cup [op : {"request"}, vendor : Vendors, debit : Debits]
    \cup [op : {"accept", "confirm"}, of : WithdrawalIds]
    \cup [op : {"proof"}, of : WithdrawalIds, image : Proofs]
    \cup [op : {"close"}, of : WithdrawalIds, target : Closed]

(* Every table has the shape of its columns; balanceFcfa has no CHECK, and *)
(* never goes below zero thanks to the WHERE clause of the debit.          *)
TypeOK ==
    /\ withdrawals \in [WithdrawalIds -> WithdrawalRow \cup {NoRow}]
    /\ proof \in [WithdrawalIds -> Proofs \cup {NoRow}]
    /\ debitEntry \in [WithdrawalIds -> {"NONE", "PENDING", "COMPLETED", "FAILED"}]
    /\ refunds \in [WithdrawalIds -> Nat]
    /\ balance \in [Vendors -> Nat]
    /\ active \in [Vendors -> BOOLEAN]
    /\ credited \in [Vendors -> Nat]
    /\ call \in [Callers -> Call]

(* What the withdrawals of a canteen took, and what was given back of it. *)
WithdrawalsOf(v) == {w \in Existing : withdrawals[w].vendor = v}
TakenFrom(v) == SumOf([w \in WithdrawalsOf(v) |-> withdrawals[w].debited])
GivenBack(v) == SumOf([w \in WithdrawalsOf(v) |-> refunds[w] * withdrawals[w].debited])

(* The balance of a canteen is what its sales brought, less its            *)
(* withdrawals, plus every refund: no debit is lost and no refund gives    *)
(* back another amount than the one taken, whatever the fees are by then.  *)
BalanceAccounted ==
    \A v \in Vendors :
        balance[v] + TakenFrom(v) = InitialBalance + credited[v] + GivenBack(v)

(* No payment is confirmed without its evidence: a completed withdrawal    *)
(* was accepted by an administrator and has a proof of transfer.           *)
PaidHasProof ==
    \A w \in Existing :
        withdrawals[w].paid => withdrawals[w].accepted /\ proof[w] # NoRow

(* The entry of the ledger says the same thing as the withdrawal, whichever *)
(* of two racing calls committed last.                                      *)
LedgerAgrees ==
    \A w \in WithdrawalIds :
        debitEntry[w] =
            IF withdrawals[w] = NoRow THEN "NONE"
            ELSE IF Status(w) \in Open THEN "PENDING"
            ELSE IF Status(w) \in Closed THEN "FAILED" ELSE "COMPLETED"

(* How often the money of a withdrawal left: by hand to the canteen, or    *)
(* back to its balance.                                                    *)
TimesSettled(w) == refunds[w] + IF withdrawals[w].paid THEN 1 ELSE 0

(* A withdrawal is settled by the calls that were under way when it was    *)
(* first settled, and by no later one: a confirmation and closings that    *)
(* have read it open can each settle it, one call of each, and a retry     *)
(* that comes after them cannot.                                           *)
RefundsBounded == \A w \in Existing : TimesSettled(w) <= Cardinality(Callers)

(* "Ce retrait est deja cloture" (failOrCancel): a withdrawal is refunded  *)
(* at most once.  Overlapping calls break it.                              *)
RefundedAtMostOnce == \A w \in WithdrawalIds : refunds[w] <= 1

=============================================================================

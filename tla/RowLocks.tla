------------------------------- MODULE RowLocks -------------------------------
(***************************************************************************)
(* The row locks that the transactions of the back end ask PostgreSQL for, *)
(* statement after statement, and whether they can wait for each other for *)
(* ever.  The other modules take a transaction as one or two steps; this   *)
(* one takes it one lock at a time and leaves the data out.                *)
(*                                                                         *)
(* An UPDATE locks its row FOR NO KEY UPDATE, or FOR UPDATE when it writes *)
(* a column of a unique index (activeOrderNumber); SELECT ... FOR UPDATE   *)
(* says its mode; an INSERT locks the rows its foreign keys refer to FOR   *)
(* KEY SHARE.  Locks are kept until COMMIT or ROLLBACK.  Rows that no one  *)
(* else can reach (those the transaction inserted, or holds already in a   *)
(* stronger mode) are left out.                                            *)
(***************************************************************************)
EXTENDS Integers, Sequences, FiniteSets

CONSTANTS
    Transactions,   \* transactions under way at the same time (a bound)
    Kinds,          \* which of the service methods run
    Vendors, Students,
    Components,     \* ids, which are naturals: they are compared and sorted
    Canteen,        \* Canteen[c] = vendorId of component c
    OrderIds,       \* orders that exist
    Student,        \* Student[o] = studentId of order o
    Maker,          \* Maker[o] = vendorId of order o
    Referrer,       \* Referrer[s]: who referred s, or s when nobody did
    Withdrawals,    \* withdrawals that exist, each with its ledger row
    Payee           \* Payee[w] = vendorId of withdrawal w

ASSUME ComponentsAssumption ==
    Components \subseteq Nat /\ IsFiniteSet(Components)
ASSUME KindsAssumption ==
    Kinds \subseteq {"create", "cancel", "update", "adjust", "empty", "recharge",
                     "vendor", "payout", "program", "report"}
ASSUME TransactionsAssumption == IsFiniteSet(Transactions)
ASSUME RowsAssumption ==
    /\ Canteen \in [Components -> Vendors]
    /\ Student \in [OrderIds -> Students] /\ Maker \in [OrderIds -> Vendors]
    /\ Payee \in [Withdrawals -> Vendors]

(* A referral is written with the account of its referee, once and for all *)
(* (auth.service.ts:243), so that a referrer has always joined before.     *)
ASSUME ReferrerAssumption ==
    /\ IsFiniteSet(Students) /\ Referrer \in [Students -> Students]
    /\ \E joined \in [Students -> 1..Cardinality(Students)] :
            \A s \in Students :
                Referrer[s] # s => joined[Referrer[s]] < joined[s]

(* The conflict table of PostgreSQL's row locks, for the three modes above. *)
Conflict(a, b) ==
    \/ "UPDATE" \in {a, b}
    \/ a = "NO_KEY_UPDATE" /\ b = "NO_KEY_UPDATE"

Row(table, id) == [table |-> table, id |-> id]
Lock(table, id, mode) == [row |-> Row(table, id), mode |-> mode]

SortedMutant(ids) == \A i, j \in DOMAIN ids : i < j => ids[i] > ids[j]

(* [...].sort(([a], [b]) => a < b ? -1 : 1) *)
Sorted(ids) == \A i, j \in DOMAIN ids : i < j => ids[i] < ids[j]

ById(ids) == \A i, j \in DOMAIN ids : i < j => ids[i] < ids[j]

WriteEach(ids) == [i \in DOMAIN ids |-> Lock("Component", ids[i], "NO_KEY_UPDATE")]

ComponentsOf(v) == {c \in Components : Canteen[c] = v}

(* What an order of canteen v may be made of, in any order. *)
Baskets(v) ==
    UNION {[1..n -> ComponentsOf(v)] : n \in 1..Cardinality(ComponentsOf(v))}

(* createWithinTransaction: the canteen, the stock, the wallet.  The rows  *)
(* it inserts refer to rows it holds, to the menus and to no one else's.   *)
Create(s, v, ids) ==
    <<Lock("Vendor", v, "UPDATE")>> \o WriteEach(ids)
        \o <<Lock("User", s, "NO_KEY_UPDATE")>>

(* cancel: the status claim and activeOrderNumber, the stock, the wallet. *)
Cancel(o, ids) ==
    <<Lock("Order", o, "UPDATE")>> \o WriteEach(ids)
        \o <<Lock("User", Student[o], "NO_KEY_UPDATE")>>

(* update: READY credits the canteen, RECEIVED gives the number back. *)
Ready(o) == <<Lock("Order", o, "NO_KEY_UPDATE"),
              Lock("Vendor", Maker[o], "NO_KEY_UPDATE")>>
Received(o) == <<Lock("Order", o, "UPDATE")>>

(* adjustStock: a withdrawal that leaves nothing inserts a rupture, which  *)
(* refers to the canteen.                                                  *)
Adjust(c) == <<Lock("Component", c, "NO_KEY_UPDATE")>>
Empty(c)  == Adjust(c) \o <<Lock("Vendor", Canteen[c], "KEY_SHARE")>>

(* applyPaymentOutcome: the wallet, then the referrer's. *)
Recharge(s) ==
    <<Lock("User", s, "NO_KEY_UPDATE")>>
        \o IF Referrer[s] = s THEN <<>>
           ELSE <<Lock("User", Referrer[s], "NO_KEY_UPDATE")>>

(* request (a withdrawal) and updateMe: the balance, or the capacity. *)
VendorWrite(v) == <<Lock("Vendor", v, "NO_KEY_UPDATE")>>

(* accept, confirmManualPayment, and failOrCancel, which ends where they   *)
(* begin.  Nobody locks the accounts that their new ledger rows refer to.  *)
AcceptPayout(w)  == <<Lock("Withdrawal", w, "NO_KEY_UPDATE")>>
ConfirmPayout(w) == AcceptPayout(w) \o <<Lock("Transaction", w, "NO_KEY_UPDATE")>>
ClosePayout(w) ==
    <<Lock("Vendor", Payee[w], "NO_KEY_UPDATE"),
      Lock("Transaction", w, "NO_KEY_UPDATE"),
      Lock("Withdrawal", w, "NO_KEY_UPDATE")>>

(* ScheduledOrdersService.create: the student, then a row that refers to   *)
(* the canteen.                                                            *)
Program(s, v) == <<Lock("User", s, "UPDATE"), Lock("Vendor", v, "KEY_SHARE")>>

(* ReportsService.create: the order, then a row that refers to the two.    *)
Report(o) ==
    <<Lock("Order", o, "UPDATE"), Lock("User", Student[o], "KEY_SHARE"),
      Lock("Vendor", Maker[o], "KEY_SHARE")>>

Scripts(kind) ==
    CASE kind = "create" ->
            UNION {{Create(s, v, ids) : ids \in {b \in Baskets(v) : Sorted(b)}} :
                        s \in Students, v \in Vendors}
      [] kind = "cancel" ->
            UNION {{Cancel(o, ids) : ids \in {b \in Baskets(Maker[o]) : ById(b)}} :
                        o \in OrderIds}
      [] kind = "update" ->
            {Ready(o) : o \in OrderIds} \cup {Received(o) : o \in OrderIds}
      [] kind = "adjust"   -> {Adjust(c) : c \in Components}
      [] kind = "empty"    -> {Empty(c) : c \in Components}
      [] kind = "recharge" -> {Recharge(s) : s \in Students}
      [] kind = "vendor"   -> {VendorWrite(v) : v \in Vendors}
      [] kind = "payout"   ->
            UNION {{AcceptPayout(w), ConfirmPayout(w), ClosePayout(w)} : w \in Withdrawals}
      [] kind = "program"  -> {Program(s, v) : s \in Students, v \in Vendors}
      [] kind = "report"   -> {Report(o) : o \in OrderIds}

VARIABLES
    script,     \* the locks each transaction still has to ask for
    held        \* the locks each transaction has

locksVars == <<script, held>>

(* The transactions that keep t from its next lock. *)
Blockers(t) ==
    {u \in Transactions \ {t} :
        script[t] # <<>>
        /\ \E lock \in held[u] : /\ lock.row = Head(script[t]).row
                                 /\ Conflict(lock.mode, Head(script[t]).mode)}

Running(t) == script[t] # <<>> \/ held[t] # {}

Begin(t) ==
    /\ ~Running(t)
    /\ \E kind \in Kinds : \E todo \in Scripts(kind) :
            script' = [script EXCEPT ![t] = todo]
    /\ UNCHANGED held

Acquire(t) ==
    /\ script[t] # <<>>
    /\ Blockers(t) = {}
    /\ held' = [held EXCEPT ![t] = @ \cup {Head(script[t])}]
    /\ script' = [script EXCEPT ![t] = Tail(@)]

Commit(t) ==
    /\ script[t] = <<>> /\ held[t] # {}
    /\ held' = [held EXCEPT ![t] = {}]
    /\ UNCHANGED script

(* A condition of the next write does not hold: rolled back. *)
Rollback(t) ==
    /\ script[t] # <<>>
    /\ Blockers(t) = {}
    /\ held' = [held EXCEPT ![t] = {}]
    /\ script' = [script EXCEPT ![t] = <<>>]

LocksInit ==
    /\ script = [t \in Transactions |-> <<>>]
    /\ held = [t \in Transactions |-> {}]

LocksNext == \E t \in Transactions : Begin(t) \/ Acquire(t) \/ Commit(t) \/ Rollback(t)

LocksSpec == LocksInit /\ [][LocksNext]_locksVars

-----------------------------------------------------------------------------

(* Each of them waits for one of them. *)
Circle(S) == S # {} /\ \A t \in S : Blockers(t) \cap S # {}

(* No set of transactions waits in a circle: PostgreSQL never has to break *)
(* a deadlock, and no student gets a 500 for having come at the same time  *)
(* as someone else.  The reason given in the code is that components are   *)
(* locked by increasing id, after the canteen and before the wallet.       *)
NoDeadlock == ~ \E S \in SUBSET Transactions : Circle(S)

(* Who can close a circle: a canteen that empties a shelf and a student    *)
(* who programs an order hold what a creation wants, and the row they      *)
(* insert refers to the canteen it holds; a closing comes to its           *)
(* withdrawal last, after the ledger row.                                  *)
OutOfOrder(t) ==
    /\ script[t] # <<>>
    /\ LET next == Head(script[t]) IN
        \/ /\ next.row.table = "Vendor" /\ next.mode = "KEY_SHARE"
           /\ \E lock \in held[t] :
                 \/ lock.row.table = "Component"
                 \/ lock.row.table = "User" /\ lock.mode = "UPDATE"
        \/ next.row.table = "Withdrawal" /\ held[t] # {}

(* No circle closes but by one of those: creations, cancellations and      *)
(* progress of orders, reports, recharges with their bonus, stock by hand, *)
(* requests and confirmations of withdrawals never wait for each other in  *)
(* a circle, whatever their components, canteens and accounts.             *)
OnlyKnownCircles ==
    ~ \E S \in SUBSET {t \in Transactions : ~OutOfOrder(t)} : Circle(S)

=============================================================================

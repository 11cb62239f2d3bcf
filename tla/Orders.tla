------------------------------- MODULE Orders -------------------------------
(***************************************************************************)
(* The order core of the Kabakaba back end                                 *)
(* (src/src/modules/orders): creation, progress and cancellation of the    *)
(* orders of several canteens, with the component stock, the student       *)
(* wallets, the canteen balances, the order numbers and the ticket ledger  *)
(* they move.                                                              *)
(*                                                                         *)
(* PostgreSQL runs at READ COMMITTED: a service method first READS rows,   *)
(* with no lock, and later COMMITS a transaction whose writes re-evaluate  *)
(* their own WHERE clause on the rows as they are then.  Each HTTP request *)
(* or cron call is one slot of Requests that goes through these two steps  *)
(* (three for a creation: it takes the canteen's row lock in between), so  *)
(* any step of any other request may come in between.                      *)
(***************************************************************************)
EXTENDS Integers, Sequences, FiniteSets, Sums

CONSTANTS
    Students,       \* users with the role STUDENT
    Vendors,        \* canteens
    Components,     \* components of the menus, each of one canteen
    Canteen,        \* Canteen[c] = vendorId of component c
    OrderIds,       \* ids of the orders that can be created (a bound)
    Requests,       \* slots for requests in flight at the same time (a bound)
    Carts,          \* what the items of a request ask of each component
    Totals,         \* prices, fee of the takeaway option included, in tickets
    NumberCount,    \* how many order numbers a canteen has (286 in the code)
    InitialWallet,  \* tickets of each student at the start
    InitialStock,   \* units of each component at the start
    StockMoves,     \* quantities a canteen adds or removes by hand
    MaxStock,       \* bound on the stock a canteen may build up by hand
    MaxMoves,       \* bound on the writes a canteen makes besides orders
    NoOrder,        \* "no such row"
    NoRequest       \* "row not locked"

(* A cart holds need[c], the units of c over the whole order, and line[c], *)
(* the units one line takes of it, which is what availability is tested on *)
(* when the rows are first read (1 for a component ordered alone).         *)
CartShape == [need : [Components -> Nat], line : [Components -> Nat]]

ASSUME OrderIdsAssumption == IsFiniteSet(OrderIds)
ASSUME CanteenAssumption == Canteen \in [Components -> Vendors]
ASSUME CartsAssumption   == Carts \subseteq CartShape
ASSUME TotalsAssumption  == Totals \subseteq Nat
ASSUME NumbersAssumption == NumberCount \in Nat
ASSUME FundsAssumption   == /\ InitialWallet \in Nat
                            /\ InitialStock \in Nat
                            /\ StockMoves \subseteq Nat \ {0}
                            /\ MaxStock \in Nat
                            /\ MaxMoves \in Nat
ASSUME NoRequestAssumption == NoRequest \notin Requests

Numbers == 1..NumberCount     \* ORDER_NUMBERS, in its order
NoNumber == 0                 \* activeOrderNumber = null

Capacities == {"OPEN", "BUSY", "CLOSED"}
Statuses   == {"CONFIRMED", "IN_PREPARATION", "READY", "RECEIVED", "CANCELLED"}

(* The only way forward of a status; "NONE" has no entry in the table. *)
NextStatus(status) ==
    CASE status = "CONFIRMED"      -> "IN_PREPARATION"
      [] status = "IN_PREPARATION" -> "READY"
      [] status = "READY"          -> "RECEIVED"
      [] OTHER                     -> "NONE"

CancellableFromMutant(by) ==
    {"CONFIRMED", "IN_PREPARATION", "READY"}

CancellableFrom(by) ==
    IF by = "STUDENT" THEN {"CONFIRMED"} ELSE {"CONFIRMED", "IN_PREPARATION"}

OrderRow ==
    [status : Statuses, student : Students, vendor : Vendors, total : Nat,
     number : Numbers, activeNumber : Numbers \cup {NoNumber},
     reserved : [Components -> Nat],
     cancelledBy : {"NONE", "STUDENT", "VENDOR"}, refundedTickets : Nat,
     unclaimed : BOOLEAN]

ASSUME NoOrderAssumption == NoOrder \notin OrderRow

LedgerKinds == {"PAYMENT", "SALE", "REFUND"}

Idle == [op |-> "idle"]

VARIABLES
    orders,     \* table Order: OrderIds -> OrderRow, or NoOrder
    history,    \* table OrderStatusHistory: per order, the new statuses
    ledger,     \* table Transaction: per order, how many rows of each type
    wallet,     \* User.walletBalance
    balance,    \* Vendor.balanceFcfa
    stock,      \* Component.quantity
    catalog,    \* Component.isAvailable and deletedAt
    ruptures,   \* table ComponentRupture: rows per component
    adjusted,   \* history variable: net units moved by adjustStock
    moves,      \* how many of its MaxMoves writes the canteens made
    capacity,   \* Vendor.capacityStatus
    active,     \* Vendor.isActive
    canteenLock,\* the transaction that holds Vendor ... FOR UPDATE
    request     \* what each request in flight has read

tables == <<orders, history, ledger, wallet, balance, stock, catalog,
            ruptures, adjusted, moves, capacity, active>>
vars == <<tables, canteenLock, request>>

Existing == {o \in OrderIds : orders[o] # NoOrder}
OrdersOf(v) == {o \in Existing : orders[o].vendor = v}
TakenNumbers(v) == {orders[o].activeNumber : o \in OrdersOf(v)} \ {NoNumber}
FreeNumbers(v) == Numbers \ TakenNumbers(v)

RowFreeMutant(v) == TRUE

(* A transaction that locks or updates the row of canteen v can proceed. *)
RowFree(v) == canteenLock[v] = NoRequest

InFlightCreations == {r \in Requests : request[r].op \in {"create", "locked"}}

(***************************************************************************)
(* Creation: OrdersService.createWithinTransaction.                        *)
(***************************************************************************)

(* What the reads before the lock require: canteen active and open (or      *)
(* busy, when a scheduled order is executed), articles available.          *)
Orderable(v, cart, acceptBusy) ==
    /\ active[v]
    /\ \/ capacity[v] = "OPEN"
       \/ acceptBusy /\ capacity[v] = "BUSY"
    /\ \A c \in Components : cart.need[c] > 0 =>
            /\ Canteen[c] = v
            /\ catalog[c] = "AVAILABLE"
            /\ stock[c] >= cart.line[c]

(* The reads before the lock.  The bound on OrderIds is the model's only.  *)
ReadForCreate(r, s, v, cart, total, acceptBusy) ==
    /\ request[r] = Idle
    /\ Cardinality(Existing) + Cardinality(InFlightCreations) < Cardinality(OrderIds)
    /\ Orderable(v, cart, acceptBusy)
    /\ request' = [request EXCEPT ![r] =
            [op |-> "create", student |-> s, vendor |-> v,
             need |-> cart.need, total |-> total]]
    /\ UNCHANGED <<tables, canteenLock>>

(* SELECT ... FOR UPDATE, then the numbers in use: the lowest free one. *)
LockCanteen(r) ==
    /\ request[r].op = "create"
    /\ LET v == request[r].vendor IN
        /\ RowFree(v)
        /\ FreeNumbers(v) # {}
        /\ canteenLock' = [canteenLock EXCEPT ![v] = r]
        /\ \E n \in FreeNumbers(v) :
            /\ \A m \in FreeNumbers(v) : n <= m
            /\ request' = [request EXCEPT ![r] =
                    [op |-> "locked", student |-> request[r].student,
                     vendor |-> v, need |-> request[r].need,
                     total |-> request[r].total, number |-> n]]
    /\ UNCHANGED tables

(* Every number is in use: 409, nothing was written, the lock is dropped. *)
RefuseNumber(r) ==
    /\ request[r].op = "create"
    /\ RowFree(request[r].vendor)
    /\ FreeNumbers(request[r].vendor) = {}
    /\ request' = [request EXCEPT ![r] = Idle]
    /\ UNCHANGED <<tables, canteenLock>>

(* The WHERE clauses of the two conditional writes. *)
CanDeduct(need) ==
    \A c \in Components :
        need[c] > 0 => catalog[c] = "AVAILABLE" /\ stock[c] >= need[c]
CanPay(s, total) == wallet[s] >= total

(* A withdrawal of so many units leaves none. *)
Empties(c, units) == stock[c] = units

(* Deduction, ruptures, debit, insertion, PAYMENT row, COMMIT. *)
CommitCreate(r, o) ==
    LET q == request[r] IN
    /\ q.op = "locked"
    /\ orders[o] = NoOrder
    /\ CanDeduct(q.need)
    /\ CanPay(q.student, q.total)
    /\ stock' = [c \in Components |-> stock[c] - q.need[c]]
    /\ ruptures' = [c \in Components |->
            IF q.need[c] > 0 /\ Empties(c, q.need[c])
                THEN ruptures[c] + 1 ELSE ruptures[c]]
    /\ wallet' = [wallet EXCEPT ![q.student] = @ - q.total]
    /\ orders' = [orders EXCEPT ![o] =
            [status |-> "CONFIRMED", student |-> q.student,
             vendor |-> q.vendor, total |-> q.total, number |-> q.number,
             activeNumber |-> q.number, reserved |-> q.need,
             cancelledBy |-> "NONE", refundedTickets |-> 0,
             unclaimed |-> FALSE]]
    /\ ledger' = [ledger EXCEPT ![o]["PAYMENT"] = @ + 1]
    /\ canteenLock' = [canteenLock EXCEPT ![q.vendor] = NoRequest]
    /\ request' = [request EXCEPT ![r] = Idle]
    /\ UNCHANGED <<history, balance, catalog, adjusted, moves, capacity, active>>

RefuseCreateMutant(r) ==
    LET q == request[r] IN
    /\ q.op = "locked"
    /\ ~CanDeduct(q.need) \/ ~CanPay(q.student, q.total)
    /\ request' = [request EXCEPT ![r] = Idle]
    /\ UNCHANGED <<tables, canteenLock>>

(* A conditional write matched no row: everything is rolled back. *)
RefuseCreate(r) ==
    LET q == request[r] IN
    /\ q.op = "locked"
    /\ ~CanDeduct(q.need) \/ ~CanPay(q.student, q.total)
    /\ canteenLock' = [canteenLock EXCEPT ![q.vendor] = NoRequest]
    /\ request' = [request EXCEPT ![r] = Idle]
    /\ UNCHANGED tables

(***************************************************************************)
(* Progress: OrdersService.update, by the canteen of the order.            *)
(***************************************************************************)

ReadForUpdate(r, o) ==
    /\ request[r] = Idle
    /\ orders[o] # NoOrder
    /\ NextStatus(orders[o].status) # "NONE"
    /\ request' = [request EXCEPT ![r] =
            [op |-> "update", order |-> o, from |-> orders[o].status,
             to |-> NextStatus(orders[o].status)]]
    /\ UNCHANGED <<tables, canteenLock>>

ClaimHoldsMutant(o, from) == orders[o].status \notin {"RECEIVED", "CANCELLED"}

(* The WHERE clause of the status change: the status is still the one read. *)
ClaimHolds(o, from) == orders[o].status = from

(* The status changes of update that set activeOrderNumber to null. *)
FreesNumber(status) == status = "RECEIVED"

(* READY credits the canteen, an UPDATE of the row that creations lock. *)
CommitUpdate(r) ==
    LET q == request[r] IN
    /\ q.op = "update"
    /\ ClaimHolds(q.order, q.from)
    /\ q.to = "READY" => RowFree(orders[q.order].vendor)
    /\ orders' = [orders EXCEPT
            ![q.order].status = q.to,
            ![q.order].activeNumber = IF FreesNumber(q.to) THEN NoNumber ELSE @]
    /\ history' = [history EXCEPT ![q.order] = Append(@, q.to)]
    /\ IF q.to = "READY"
         THEN /\ balance' = [balance EXCEPT ![orders[q.order].vendor] =
                                @ + orders[q.order].total]
              /\ ledger' = [ledger EXCEPT ![q.order]["SALE"] = @ + 1]
         ELSE UNCHANGED <<balance, ledger>>
    /\ request' = [request EXCEPT ![r] = Idle]
    /\ UNCHANGED <<wallet, stock, catalog, ruptures, adjusted, moves,
                   capacity, active, canteenLock>>

(***************************************************************************)
(* Cancellation: OrdersService.cancel, by the student or the canteen.      *)
(***************************************************************************)

ReadForCancel(r, o, by) ==
    /\ request[r] = Idle
    /\ orders[o] # NoOrder
    /\ orders[o].status \in CancellableFrom(by)
    /\ request' = [request EXCEPT ![r] =
            [op |-> "cancel", order |-> o, from |-> orders[o].status, by |-> by]]
    /\ UNCHANGED <<tables, canteenLock>>

RestoredMutant(row, c) == IF catalog[c] = "DELETED" THEN 0 ELSE row.reserved[c]

(* The units given back: those reserved, of deleted components too. *)
Restored(row, c) == row.reserved[c]

CommitCancel(r) ==
    LET q == request[r]
        row == orders[q.order] IN
    /\ q.op = "cancel"
    /\ ClaimHolds(q.order, q.from)
    /\ orders' = [orders EXCEPT
            ![q.order].status = "CANCELLED",
            ![q.order].activeNumber = NoNumber,
            ![q.order].cancelledBy = q.by,
            ![q.order].refundedTickets = row.total]
    /\ stock' = [c \in Components |-> stock[c] + Restored(row, c)]
    /\ history' = [history EXCEPT ![q.order] = Append(@, "CANCELLED")]
    /\ wallet' = [wallet EXCEPT ![row.student] = @ + row.total]
    /\ ledger' = [ledger EXCEPT ![q.order]["REFUND"] = @ + 1]
    /\ request' = [request EXCEPT ![r] = Idle]
    /\ UNCHANGED <<balance, catalog, ruptures, adjusted, moves, capacity,
                   active, canteenLock>>

(* The claim of an update or a cancellation matched no row: 400. *)
LoseClaim(r) ==
    /\ request[r].op \in {"update", "cancel"}
    /\ ~ClaimHolds(request[r].order, request[r].from)
    /\ request' = [request EXCEPT ![r] = Idle]
    /\ UNCHANGED <<tables, canteenLock>>

(* The process is killed, or the transaction times out: PostgreSQL rolls   *)
(* the transaction back and drops its locks.                               *)
Abort(r) ==
    /\ request[r] # Idle
    /\ canteenLock' = [v \in Vendors |->
            IF canteenLock[v] = r THEN NoRequest ELSE canteenLock[v]]
    /\ request' = [request EXCEPT ![r] = Idle]
    /\ UNCHANGED tables

(***************************************************************************)
(* The canteen's own writes, and the cron job on unclaimed orders.         *)
(***************************************************************************)

(* The bound on these writes, which the code does not have. *)
OneMove == moves < MaxMoves /\ moves' = moves + 1

AddStock(c, units) ==
    /\ OneMove
    /\ catalog[c] # "DELETED"
    /\ stock[c] + units <= MaxStock
    /\ stock' = [stock EXCEPT ![c] = @ + units]
    /\ adjusted' = [adjusted EXCEPT ![c] = @ + units]
    /\ UNCHANGED <<orders, history, ledger, wallet, balance, catalog, ruptures,
                   capacity, active, canteenLock, request>>

(* Emptying the shelf inserts a rupture, whose foreign key shares the lock *)
(* of the canteen's row: it waits while a creation holds that row.         *)
RemoveStock(c, units) ==
    /\ OneMove
    /\ catalog[c] # "DELETED"
    /\ stock[c] >= units
    /\ Empties(c, units) => RowFree(Canteen[c])
    /\ stock' = [stock EXCEPT ![c] = @ - units]
    /\ adjusted' = [adjusted EXCEPT ![c] = @ - units]
    /\ ruptures' = [ruptures EXCEPT ![c] = IF Empties(c, units) THEN @ + 1 ELSE @]
    /\ UNCHANGED <<orders, history, ledger, wallet, balance, catalog,
                   capacity, active, canteenLock, request>>

(* PATCH isAvailable, or the soft delete, which is for good. *)
SetCatalog(c, state) ==
    /\ OneMove
    /\ catalog[c] \notin {"DELETED", state}
    /\ catalog' = [catalog EXCEPT ![c] = state]
    /\ UNCHANGED <<orders, history, ledger, wallet, balance, stock, ruptures,
                   adjusted, capacity, active, canteenLock, request>>

(* UPDATE "Vendor": it waits while a creation holds the row. *)
SetCapacity(v, status) ==
    /\ OneMove
    /\ active[v]
    /\ RowFree(v)
    /\ capacity[v] # status
    /\ capacity' = [capacity EXCEPT ![v] = status]
    /\ UNCHANGED <<orders, history, ledger, wallet, balance, stock, catalog,
                   ruptures, adjusted, active, canteenLock, request>>

SetActive(v, open) ==
    /\ OneMove
    /\ RowFree(v)
    /\ active[v] # open
    /\ active' = [active EXCEPT ![v] = open]
    /\ UNCHANGED <<orders, history, ledger, wallet, balance, stock, catalog,
                   ruptures, adjusted, capacity, canteenLock, request>>

Unclaimable(o) == orders[o].status = "READY" /\ ~orders[o].unclaimed

(* One UPDATE over the READY orders that are old enough, whichever they are. *)
FlagUnclaimed ==
    \E late \in SUBSET {o \in Existing : Unclaimable(o)} :
        /\ late # {}
        /\ orders' = [o \in OrderIds |->
                IF o \in late THEN [orders[o] EXCEPT !.unclaimed = TRUE]
                              ELSE orders[o]]
        /\ UNCHANGED <<history, ledger, wallet, balance, stock, catalog,
                       ruptures, adjusted, moves, capacity, active,
                       canteenLock, request>>

-----------------------------------------------------------------------------

Init ==
    /\ orders = [o \in OrderIds |-> NoOrder]
    /\ history = [o \in OrderIds |-> <<>>]
    /\ ledger = [o \in OrderIds |-> [k \in LedgerKinds |-> 0]]
    /\ wallet = [s \in Students |-> InitialWallet]
    /\ balance = [v \in Vendors |-> 0]
    /\ stock = [c \in Components |-> InitialStock]
    /\ catalog = [c \in Components |-> "AVAILABLE"]
    /\ ruptures = [c \in Components |-> 0]
    /\ adjusted = [c \in Components |-> 0]
    /\ moves = 0
    /\ capacity = [v \in Vendors |-> "OPEN"]
    /\ active = [v \in Vendors |-> TRUE]
    /\ canteenLock = [v \in Vendors |-> NoRequest]
    /\ request = [r \in Requests |-> Idle]

(* What a request already read goes on to do, without anyone's help. *)
Continue(r) ==
    \/ LockCanteen(r)
    \/ RefuseNumber(r)
    \/ \E o \in OrderIds : CommitCreate(r, o)
    \/ RefuseCreate(r)
    \/ CommitUpdate(r)
    \/ CommitCancel(r)
    \/ LoseClaim(r)

Arrive(r) ==
    \/ \E s \in Students, v \in Vendors, cart \in Carts, total \in Totals,
          acceptBusy \in BOOLEAN : ReadForCreate(r, s, v, cart, total, acceptBusy)
    \/ \E o \in OrderIds : ReadForUpdate(r, o)
    \/ \E o \in OrderIds, by \in {"STUDENT", "VENDOR"} : ReadForCancel(r, o, by)

CanteenWrites ==
    \/ \E c \in Components, units \in StockMoves : AddStock(c, units)
    \/ \E c \in Components, units \in StockMoves : RemoveStock(c, units)
    \/ \E c \in Components, state \in {"AVAILABLE", "UNAVAILABLE", "DELETED"} :
            SetCatalog(c, state)
    \/ \E v \in Vendors, status \in Capacities : SetCapacity(v, status)
    \/ \E v \in Vendors, open \in BOOLEAN : SetActive(v, open)

Next ==
    \/ \E r \in Requests : Arrive(r) \/ Continue(r) \/ Abort(r)
    \/ CanteenWrites
    \/ FlagUnclaimed

Spec == Init /\ [][Next]_vars

-----------------------------------------------------------------------------
(***************************************************************************)
(* Properties.                                                             *)
(***************************************************************************)

Request ==
    [op : {"idle"}]
    \cup [op : {"create"}, student : Students, vendor : Vendors,
          need : [Components -> Nat], total : Totals]
    \cup [op : {"locked"}, student : Students, vendor : Vendors,
          need : [Components -> Nat], total : Totals, number : Numbers]
    \cup [op : {"update"}, order : OrderIds, from : Statuses, to : Statuses]
    \cup [op : {"cancel"}, order : OrderIds, from : Statuses,
          by : {"STUDENT", "VENDOR"}]

(* Every table has the shape of its columns.  Quantities and balances are  *)
(* Int in the schema, with no CHECK: that they stay natural numbers is     *)
(* owed to the WHERE clauses of the conditional writes alone.              *)
TypeOK ==
    /\ orders \in [OrderIds -> OrderRow \cup {NoOrder}]
    /\ history \in [OrderIds -> Seq(Statuses)]
    /\ ledger \in [OrderIds -> [LedgerKinds -> Nat]]
    /\ wallet \in [Students -> Nat]
    /\ balance \in [Vendors -> Nat]
    /\ stock \in [Components -> Nat]
    /\ catalog \in [Components -> {"AVAILABLE", "UNAVAILABLE", "DELETED"}]
    /\ ruptures \in [Components -> Nat]
    /\ adjusted \in [Components -> Int]
    /\ moves \in 0..MaxMoves
    /\ capacity \in [Vendors -> Capacities]
    /\ active \in [Vendors -> BOOLEAN]
    /\ canteenLock \in [Vendors -> Requests \cup {NoRequest}]
    /\ request \in [Requests -> Request]

(* Two orders in progress at the same canteen never carry the same number, *)
(* though the numbers are reused: the row lock on the canteen is enough    *)
(* and the unique index (vendorId, activeOrderNumber), which the model     *)
(* leaves out, never has to refuse an insertion.                           *)
UniqueActiveNumber ==
    \A o, p \in Existing :
        /\ o # p
        /\ orders[o].vendor = orders[p].vendor
        /\ orders[o].activeNumber # NoNumber
        => orders[o].activeNumber # orders[p].activeNumber

(* Why it holds: from the lock to the commit the row of the canteen stays  *)
(* this transaction's, and the number it chose stays free.                 *)
NumberReservedUnderLock ==
    \A r \in Requests : request[r].op = "locked" =>
        /\ canteenLock[request[r].vendor] = r
        /\ request[r].number \in FreeNumbers(request[r].vendor)

(* An order holds its number exactly while it is in progress: RECEIVED and *)
(* CANCELLED free it, and nothing else does.                               *)
NumberHeldWhileOpen ==
    \A o \in Existing :
        orders[o].activeNumber =
            IF orders[o].status \in {"RECEIVED", "CANCELLED"}
                THEN NoNumber ELSE orders[o].number

(* Whatever the requests in flight, an order is paid once by its student,  *)
(* credited to its canteen once and only if it became READY, refunded once *)
(* and only if it was CANCELLED, hence never both credited and refunded.   *)
SettledOnce ==
    \A o \in OrderIds :
        /\ ledger[o]["PAYMENT"] = IF orders[o] # NoOrder THEN 1 ELSE 0
        /\ ledger[o]["SALE"] =
              IF orders[o] # NoOrder /\ orders[o].status \in {"READY", "RECEIVED"}
                  THEN 1 ELSE 0
        /\ ledger[o]["REFUND"] =
              IF orders[o] # NoOrder /\ orders[o].status = "CANCELLED"
                  THEN 1 ELSE 0

TotalOf(S) == SumOf([o \in S |-> orders[o].total])

(* The orders a student has paid and not got back, those a canteen was     *)
(* credited for, and those that keep the units they reserved.              *)
PaidBy(s) == {o \in Existing : /\ orders[o].student = s
                               /\ orders[o].status # "CANCELLED"}
CreditedTo(v) == {o \in OrdersOf(v) : orders[o].status \in {"READY", "RECEIVED"}}
Reserving == {o \in Existing : orders[o].status # "CANCELLED"}

(* No ticket appears or is lost: a wallet is short of exactly the orders   *)
(* of its student that were not cancelled, and a canteen's balance is the  *)
(* sum of its orders that became READY.                                    *)
AccountsBalance ==
    /\ \A s \in Students : wallet[s] + TotalOf(PaidBy(s)) = InitialWallet
    /\ \A v \in Vendors : balance[v] = TotalOf(CreditedTo(v))

(* No unit is sold twice or lost: what is on the shelf and what the orders *)
(* not cancelled reserved add up to what the canteen stocked, a component  *)
(* deleted since included.                                                 *)
StockConserved ==
    \A c \in Components :
        stock[c] + SumOf([o \in Reserving |-> orders[o].reserved[c]])
            = InitialStock + adjusted[c]

(* The status history of an order is one unbroken path of legal changes    *)
(* from CONFIRMED to its present status: no concurrent request made it     *)
(* skip, repeat or leave a final status.                                   *)
HistoryChains ==
    \A o \in Existing :
        LET path == <<"CONFIRMED">> \o history[o] IN
        /\ path[Len(path)] = orders[o].status
        /\ \A i \in 1..(Len(path) - 1) :
              \/ path[i + 1] = NextStatus(path[i])
              \/ /\ path[i] \in {"CONFIRMED", "IN_PREPARATION"}
                 /\ path[i + 1] = "CANCELLED"

(* A student never cancels a plate the canteen already began to prepare,   *)
(* even when the request was read before the preparation began.            *)
StudentNeverCancelsStartedOrder ==
    \A o \in Existing :
        orders[o].cancelledBy = "STUDENT" => history[o] = <<"CANCELLED">>

(* The unclaimed flag is only ever on an order that was READY, which means *)
(* that a flagged order is never refunded.                                 *)
UnclaimedWasReady ==
    \A o \in Existing :
        orders[o].unclaimed => orders[o].status \in {"READY", "RECEIVED"}

(* Where the tickets of an order are, read off its row. *)
EscrowState(status) ==
    CASE status \in {"CONFIRMED", "IN_PREPARATION"} -> "HELD"
      [] status \in {"READY", "RECEIVED"}           -> "RELEASED"
      [] status = "CANCELLED"                       -> "RETURNED"

EscrowRow == [payer : Students, payee : Vendors, amount : Nat,
              state : {"HELD", "RELEASED", "RETURNED"}]

ASSUME NoEscrowAssumption == NoOrder \notin EscrowRow

EscrowOf(row) ==
    [payer |-> row.student, payee |-> row.vendor, amount |-> row.total,
     state |-> EscrowState(row.status)]

Money == INSTANCE Escrow WITH
    escrow <- [o \in OrderIds |->
                 IF orders[o] = NoOrder THEN NoOrder ELSE EscrowOf(orders[o])],
    NoEscrow <- NoOrder, Amounts <- Totals

(* With respect to money the order core is an escrow: every step pays,     *)
(* releases or returns the tickets of one order, or moves no ticket.       *)
ImplementsEscrow == Money!Spec

(* A rupture is recorded exactly when a step empties a component's shelf,  *)
(* by an order or by hand, and never twice for the same emptying.          *)
RuptureIffEmptied ==
    [][\A c \in Components :
         ruptures'[c] = ruptures[c] +
            IF stock[c] > 0 /\ stock'[c] = 0 THEN 1 ELSE 0]_vars

(* Every request that was read is answered: no creation waits for ever for *)
(* its canteen, and a canteen is never left locked.                        *)
EveryRequestAnswered ==
    \A r \in Requests : request[r] # Idle ~> request[r] = Idle

=============================================================================

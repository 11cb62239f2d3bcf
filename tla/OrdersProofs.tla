---------------------------- MODULE OrdersProofs ----------------------------
(***************************************************************************)
(* Proofs about the order core, for every value of its constants.          *)
(***************************************************************************)
EXTENDS Orders, SequenceTheorems, SumsProofs, TLAPS

(* What a request in flight may rely on: the order it read exists, and the *)
(* change it is about to claim was legal from the status it read.          *)
RequestsSound ==
    \A r \in Requests :
        /\ request[r].op \in {"update", "cancel"} =>
                orders[request[r].order] # NoOrder
        /\ request[r].op = "update" =>
                request[r].to = NextStatus(request[r].from)
        /\ request[r].op = "cancel" =>
                request[r].from \in CancellableFrom(request[r].by)

(* The type invariant that is inductive. *)
TypeInv == TypeOK /\ RequestsSound

LEMMA InitTypeInv == Init => TypeInv
  <1> SUFFICES ASSUME Init PROVE TypeInv
    OBVIOUS
  <1>1. TypeOK
    BY FundsAssumption DEF Init, TypeOK, Request, Idle, Capacities, LedgerKinds
  <1>2. RequestsSound
    BY DEF Init, RequestsSound, Idle
  <1> QED
    BY <1>1, <1>2 DEF TypeInv

LEMMA ReadForCreateTyped ==
  ASSUME TypeInv, NEW r \in Requests, NEW s \in Students, NEW v \in Vendors,
         NEW cart \in Carts, NEW total \in Totals, NEW acceptBusy \in BOOLEAN,
         ReadForCreate(r, s, v, cart, total, acceptBusy)
  PROVE  TypeInv'
  <1>1. cart.need \in [Components -> Nat]
    BY CartsAssumption DEF CartShape
  <1>2. [op |-> "create", student |-> s, vendor |-> v, need |-> cart.need,
         total |-> total] \in Request
    BY <1>1 DEF Request
  <1>3. TypeOK'
    BY <1>2 DEF TypeInv, TypeOK, ReadForCreate, tables
  <1>4. RequestsSound'
    BY DEF TypeInv, TypeOK, RequestsSound, ReadForCreate, tables
  <1> QED
    BY <1>3, <1>4 DEF TypeInv

LEMMA LockCanteenTyped ==
  ASSUME TypeInv, NEW r \in Requests, LockCanteen(r)
  PROVE  TypeInv'
  <1> DEFINE q == request[r]
  <1>1. PICK n \in FreeNumbers(q.vendor) :
          request' = [request EXCEPT ![r] =
              [op |-> "locked", student |-> q.student, vendor |-> q.vendor,
               need |-> q.need, total |-> q.total, number |-> n]]
    BY DEF LockCanteen
  <1>2. q \in [op : {"create"}, student : Students, vendor : Vendors,
               need : [Components -> Nat], total : Totals]
    BY DEF LockCanteen, TypeInv, TypeOK, Request
  <1>3. [op |-> "locked", student |-> q.student, vendor |-> q.vendor,
         need |-> q.need, total |-> q.total, number |-> n] \in Request
    BY <1>2 DEF Request, FreeNumbers
  <1>4. TypeOK'
    BY <1>1, <1>3 DEF TypeInv, TypeOK, LockCanteen, tables
  <1>5. RequestsSound'
    BY <1>1 DEF TypeInv, TypeOK, RequestsSound, LockCanteen, tables
  <1> QED
    BY <1>4, <1>5 DEF TypeInv

(* The request that a slot of a given kind holds. *)
LEMMA RequestKinds ==
  ASSUME TypeOK, NEW r \in Requests
  PROVE  /\ request[r].op = "locked" =>
              request[r] \in [op : {"locked"}, student : Students,
                              vendor : Vendors, need : [Components -> Nat],
                              total : Totals, number : Numbers]
         /\ request[r].op = "update" =>
              request[r] \in [op : {"update"}, order : OrderIds,
                              from : Statuses, to : Statuses]
         /\ request[r].op = "cancel" =>
              request[r] \in [op : {"cancel"}, order : OrderIds,
                              from : Statuses, by : {"STUDENT", "VENDOR"}]
  BY DEF TypeOK, Request

(* Going back to idle never breaks anything that is said of requests. *)
LEMMA DropTyped ==
  ASSUME TypeInv, NEW r \in Requests,
         request' = [request EXCEPT ![r] = Idle],
         UNCHANGED tables,
         canteenLock' \in [Vendors -> Requests \cup {NoRequest}]
  PROVE  TypeInv'
  <1>1. Idle \in Request
    BY DEF Idle, Request
  <1>2. TypeOK'
    BY <1>1 DEF TypeInv, TypeOK, tables
  <1>3. RequestsSound'
    BY DEF TypeInv, TypeOK, RequestsSound, Idle, tables
  <1> QED
    BY <1>2, <1>3 DEF TypeInv

LEMMA CommitCreateTyped ==
  ASSUME TypeInv, NEW r \in Requests, NEW o \in OrderIds, CommitCreate(r, o)
  PROVE  TypeInv'
  <1> DEFINE q == request[r]
  <1> USE DEF TypeInv
  <1>1. q \in [op : {"locked"}, student : Students, vendor : Vendors,
               need : [Components -> Nat], total : Totals, number : Numbers]
    BY RequestKinds DEF CommitCreate
  <1>2. \A c \in Components : stock[c] - q.need[c] \in Nat
    <2> SUFFICES ASSUME NEW c \in Components
                 PROVE  stock[c] - q.need[c] \in Nat
      OBVIOUS
    <2>1. stock[c] \in Nat /\ q.need[c] \in Nat
      BY <1>1 DEF TypeOK
    <2>2. q.need[c] > 0 => stock[c] >= q.need[c]
      BY DEF CommitCreate, CanDeduct
    <2> QED
      BY <2>1, <2>2
  <1>3. q.total \in Nat /\ wallet[q.student] - q.total \in Nat
    <2>1. q.total \in Nat /\ q.student \in Students
      BY <1>1, TotalsAssumption
    <2> QED
      BY <2>1 DEF CommitCreate, CanPay, TypeOK
  <1>4. orders' \in [OrderIds -> OrderRow \cup {NoOrder}]
    BY <1>1, <1>3 DEF CommitCreate, TypeOK, OrderRow, Statuses
  <1>5. ledger' \in [OrderIds -> [LedgerKinds -> Nat]]
    BY DEF CommitCreate, TypeOK, LedgerKinds
  <1>6. stock' \in [Components -> Nat] /\ wallet' \in [Students -> Nat]
    BY <1>1, <1>2, <1>3 DEF CommitCreate, TypeOK
  <1>7. ruptures' \in [Components -> Nat]
    BY <1>1 DEF CommitCreate, TypeOK
  <1>8. request' \in [Requests -> Request]
    BY DEF CommitCreate, TypeOK, Request, Idle
  <1>9. TypeOK'
    BY <1>1, <1>4, <1>5, <1>6, <1>7, <1>8 DEF CommitCreate, TypeOK
  <1>10. \A p \in OrderIds : orders[p] # NoOrder => orders'[p] = orders[p]
    BY DEF CommitCreate, TypeOK
  <1>11. RequestsSound'
    BY <1>10, RequestKinds DEF CommitCreate, RequestsSound, TypeOK, Idle
  <1> QED
    BY <1>9, <1>11

LEMMA ReadForUpdateTyped ==
  ASSUME TypeInv, NEW r \in Requests, NEW o \in OrderIds, ReadForUpdate(r, o)
  PROVE  TypeInv'
  <1> USE DEF TypeInv
  <1>1. orders[o].status \in Statuses /\ NextStatus(orders[o].status) \in Statuses
    BY DEF ReadForUpdate, TypeOK, OrderRow, NextStatus, Statuses
  <1>2. [op |-> "update", order |-> o, from |-> orders[o].status,
         to |-> NextStatus(orders[o].status)] \in Request
    BY <1>1 DEF Request
  <1>3. TypeOK'
    BY <1>2 DEF ReadForUpdate, TypeOK, tables
  <1>4. RequestsSound'
    BY DEF ReadForUpdate, RequestsSound, TypeOK, tables
  <1> QED
    BY <1>3, <1>4

LEMMA ReadForCancelTyped ==
  ASSUME TypeInv, NEW r \in Requests, NEW o \in OrderIds,
         NEW by \in {"STUDENT", "VENDOR"}, ReadForCancel(r, o, by)
  PROVE  TypeInv'
  <1> USE DEF TypeInv
  <1>1. [op |-> "cancel", order |-> o, from |-> orders[o].status,
         by |-> by] \in Request
    BY DEF ReadForCancel, TypeOK, OrderRow, Request
  <1>2. TypeOK'
    BY <1>1, SMTT(30) DEF ReadForCancel, TypeOK, tables
  <1>3. RequestsSound'
    BY SMTT(30) DEF ReadForCancel, RequestsSound, TypeOK, tables
  <1> QED
    BY <1>2, <1>3

(* Nothing rewrites what an order was made for. *)
SameParties(before, after) ==
    /\ after.student = before.student
    /\ after.vendor = before.vendor
    /\ after.total = before.total
    /\ after.number = before.number
    /\ after.reserved = before.reserved

(* The one row that an update writes, field by field. *)
LEMMA UpdatedRow ==
  ASSUME TypeInv, NEW r \in Requests, CommitUpdate(r), NEW o, o = request[r].order
  PROVE  /\ o \in OrderIds /\ orders[o] \in OrderRow
         /\ orders'[o] \in OrderRow /\ orders'[o] # NoOrder
         /\ orders[o].status = request[r].from
         /\ orders'[o] = [orders[o] EXCEPT
                !.status = request[r].to,
                !.activeNumber = IF FreesNumber(request[r].to) THEN NoNumber ELSE @]
         /\ orders'[o].status = request[r].to
         /\ orders'[o].activeNumber =
                IF FreesNumber(request[r].to) THEN NoNumber ELSE orders[o].activeNumber
         /\ orders'[o].cancelledBy = orders[o].cancelledBy
         /\ orders'[o].unclaimed = orders[o].unclaimed
         /\ SameParties(orders[o], orders'[o])
         /\ \A p \in OrderIds \ {o} : orders'[p] = orders[p]
  <1> USE DEF TypeInv
  <1>1. o \in OrderIds /\ request[r].to \in Statuses
    BY RequestKinds DEF CommitUpdate
  <1>2. orders[o] \in OrderRow
    BY <1>1 DEF RequestsSound, TypeOK, CommitUpdate
  <1>3. /\ orders'[o] = [orders[o] EXCEPT
                !.status = request[r].to,
                !.activeNumber = IF FreesNumber(request[r].to) THEN NoNumber ELSE @]
        /\ \A p \in OrderIds \ {o} : orders'[p] = orders[p]
    BY <1>1, <1>2 DEF CommitUpdate, TypeOK, OrderRow
  <1>4. orders'[o] \in OrderRow
    BY <1>1, <1>2, <1>3 DEF OrderRow
  <1>5. /\ orders'[o].status = request[r].to
        /\ orders'[o].activeNumber =
                IF FreesNumber(request[r].to) THEN NoNumber ELSE orders[o].activeNumber
        /\ orders'[o].cancelledBy = orders[o].cancelledBy
        /\ orders'[o].unclaimed = orders[o].unclaimed
        /\ SameParties(orders[o], orders'[o])
    BY <1>2, <1>3, SMTT(30) DEF OrderRow, SameParties
  <1> QED
    BY <1>1, <1>2, <1>3, <1>4, <1>5, NoOrderAssumption DEF CommitUpdate, ClaimHolds

(* The one row that a cancellation writes. *)
LEMMA CancelledRow ==
  ASSUME TypeInv, NEW r \in Requests, CommitCancel(r), NEW o, o = request[r].order
  PROVE  /\ o \in OrderIds /\ orders[o] \in OrderRow
         /\ orders'[o] \in OrderRow /\ orders'[o] # NoOrder
         /\ orders[o].status = request[r].from
         /\ orders'[o] = [orders[o] EXCEPT
                !.status = "CANCELLED", !.activeNumber = NoNumber,
                !.cancelledBy = request[r].by,
                !.refundedTickets = orders[o].total]
         /\ orders'[o].status = "CANCELLED"
         /\ orders'[o].activeNumber = NoNumber
         /\ orders'[o].cancelledBy = request[r].by
         /\ orders'[o].unclaimed = orders[o].unclaimed
         /\ SameParties(orders[o], orders'[o])
         /\ \A p \in OrderIds \ {o} : orders'[p] = orders[p]
  <1> USE DEF TypeInv
  <1>1. o \in OrderIds /\ request[r].by \in {"STUDENT", "VENDOR"}
    BY RequestKinds DEF CommitCancel
  <1>2. orders[o] \in OrderRow
    BY <1>1, SMTT(30) DEF RequestsSound, TypeOK, CommitCancel
  <1>3. /\ orders'[o] = [orders[o] EXCEPT
                !.status = "CANCELLED", !.activeNumber = NoNumber,
                !.cancelledBy = request[r].by,
                !.refundedTickets = orders[o].total]
        /\ \A p \in OrderIds \ {o} : orders'[p] = orders[p]
    BY <1>1, <1>2 DEF CommitCancel, TypeOK, OrderRow
  <1>4. orders'[o] \in OrderRow
    BY <1>1, <1>2, <1>3 DEF OrderRow, Statuses
  <1>5. /\ orders'[o].status = "CANCELLED"
        /\ orders'[o].activeNumber = NoNumber
        /\ orders'[o].cancelledBy = request[r].by
        /\ orders'[o].unclaimed = orders[o].unclaimed
        /\ SameParties(orders[o], orders'[o])
    BY <1>2, <1>3 DEF OrderRow, SameParties
  <1> QED
    BY <1>1, <1>2, <1>3, <1>4, <1>5, NoOrderAssumption DEF CommitCancel, ClaimHolds

LEMMA CommitUpdateTyped ==
  ASSUME TypeInv, NEW r \in Requests, CommitUpdate(r)
  PROVE  TypeInv'
  <1> DEFINE q == request[r]
  <1> USE DEF TypeInv
  <1>1. q \in [op : {"update"}, order : OrderIds, from : Statuses, to : Statuses]
    BY RequestKinds DEF CommitUpdate
  <1>2. orders[q.order] \in OrderRow
    BY UpdatedRow
  <1>3. orders' \in [OrderIds -> OrderRow \cup {NoOrder}]
    <2>1. \A p \in OrderIds : orders'[p] \in OrderRow \cup {NoOrder}
      BY UpdatedRow DEF TypeOK
    <2>2. orders' = [p \in OrderIds |-> orders'[p]]
      BY DEF CommitUpdate, TypeOK
    <2> QED
      BY <2>1, <2>2
  <1>4. history' \in [OrderIds -> Seq(Statuses)]
    BY <1>1 DEF CommitUpdate, TypeOK
  <1>5. balance' \in [Vendors -> Nat] /\ ledger' \in [OrderIds -> [LedgerKinds -> Nat]]
    <2>1. orders[q.order].vendor \in Vendors /\ orders[q.order].total \in Nat
      BY <1>2 DEF OrderRow
    <2>2. CASE q.to = "READY"
      <3>1. /\ balance' = [balance EXCEPT ![orders[q.order].vendor] =
                              @ + orders[q.order].total]
            /\ ledger' = [ledger EXCEPT ![q.order]["SALE"] = @ + 1]
        BY <2>2 DEF CommitUpdate
      <3>2. balance' \in [Vendors -> Nat]
        BY <2>1, <3>1, SMTT(30) DEF TypeOK
      <3>3. ledger' \in [OrderIds -> [LedgerKinds -> Nat]]
        BY <1>1, <3>1 DEF TypeOK, LedgerKinds
      <3> QED
        BY <3>2, <3>3
    <2>3. CASE q.to # "READY"
      BY <2>3 DEF CommitUpdate, TypeOK
    <2> QED
      BY <2>2, <2>3
  <1>6. request' \in [Requests -> Request]
    BY DEF CommitUpdate, TypeOK, Request, Idle
  <1>7. TypeOK'
    BY <1>3, <1>4, <1>5, <1>6 DEF CommitUpdate, TypeOK
  <1>8. \A p \in OrderIds : orders[p] # NoOrder => orders'[p] # NoOrder
    BY UpdatedRow
  <1>9. RequestsSound'
    BY <1>8, RequestKinds DEF CommitUpdate, RequestsSound, TypeOK, Idle
  <1> QED
    BY <1>7, <1>9

LEMMA CommitCancelTyped ==
  ASSUME TypeInv, NEW r \in Requests, CommitCancel(r)
  PROVE  TypeInv'
  <1> DEFINE q == request[r]
  <1> USE DEF TypeInv
  <1>1. q \in [op : {"cancel"}, order : OrderIds, from : Statuses,
               by : {"STUDENT", "VENDOR"}]
    BY RequestKinds DEF CommitCancel
  <1>2. orders[q.order] \in OrderRow
    BY CancelledRow, ZenonT(30)
  <1>3. orders' \in [OrderIds -> OrderRow \cup {NoOrder}]
    BY CancelledRow, ZenonT(30) DEF CommitCancel, TypeOK
  <1>4. history' \in [OrderIds -> Seq(Statuses)]
    BY <1>1 DEF CommitCancel, TypeOK, Statuses
  <1>5. stock' \in [Components -> Nat] /\ wallet' \in [Students -> Nat]
    BY <1>1, <1>2 DEF CommitCancel, Restored, TypeOK, OrderRow
  <1>6. ledger' \in [OrderIds -> [LedgerKinds -> Nat]]
    BY <1>1 DEF CommitCancel, TypeOK, LedgerKinds
  <1>7. request' \in [Requests -> Request]
    BY SMTT(30) DEF CommitCancel, TypeOK, Request, Idle
  <1>8. TypeOK'
    BY <1>3, <1>4, <1>5, <1>6, <1>7 DEF CommitCancel, TypeOK
  <1>9. \A p \in OrderIds : orders[p] # NoOrder => orders'[p] # NoOrder
    BY CancelledRow, ZenonT(30)
  <1>10. RequestsSound'
    BY <1>9, RequestKinds DEF CommitCancel, RequestsSound, TypeOK, Idle
  <1> QED
    BY <1>8, <1>10

LEMMA ContinueTyped ==
  ASSUME TypeInv, NEW r \in Requests, Continue(r)
  PROVE  TypeInv'
  <1>1. CASE LockCanteen(r)
    BY <1>1, LockCanteenTyped
  <1>2. CASE RefuseNumber(r)
    BY <1>2, DropTyped DEF RefuseNumber, TypeInv, TypeOK
  <1>3. CASE \E o \in OrderIds : CommitCreate(r, o)
    BY <1>3, CommitCreateTyped
  <1>4. CASE RefuseCreate(r)
    BY <1>4, DropTyped DEF RefuseCreate, TypeInv, TypeOK
  <1>5. CASE CommitUpdate(r)
    BY <1>5, CommitUpdateTyped
  <1>6. CASE CommitCancel(r)
    BY <1>6, CommitCancelTyped
  <1>7. CASE LoseClaim(r)
    BY <1>7, DropTyped DEF LoseClaim, TypeInv, TypeOK
  <1> QED
    BY <1>1, <1>2, <1>3, <1>4, <1>5, <1>6, <1>7 DEF Continue

LEMMA AbortTyped ==
  ASSUME TypeInv, NEW r \in Requests, Abort(r)
  PROVE  TypeInv'
  <1>1. canteenLock' \in [Vendors -> Requests \cup {NoRequest}]
    BY DEF Abort, TypeInv, TypeOK
  <1> QED
    BY <1>1, DropTyped DEF Abort

LEMMA CanteenWritesTyped ==
  ASSUME TypeInv, CanteenWrites
  PROVE  TypeInv'
  <1> USE DEF TypeInv
  <1>1. moves' \in 0..MaxMoves
    BY FundsAssumption DEF CanteenWrites, AddStock, RemoveStock, SetCatalog,
        SetCapacity, SetActive, OneMove, TypeOK
  <1>2. ASSUME NEW c \in Components, NEW units \in StockMoves, AddStock(c, units)
        PROVE  TypeInv'
    <2>1. units \in Nat
      BY FundsAssumption
    <2> QED
      BY <1>1, <1>2, <2>1, SMTT(30) DEF AddStock, TypeOK, RequestsSound
  <1>3. ASSUME NEW c \in Components, NEW units \in StockMoves, RemoveStock(c, units)
        PROVE  TypeInv'
    <2>1. units \in Nat
      BY FundsAssumption
    <2> QED
      BY <1>1, <1>3, <2>1, SMTT(30) DEF RemoveStock, TypeOK, RequestsSound
  <1>4. ASSUME NEW c \in Components,
               NEW state \in {"AVAILABLE", "UNAVAILABLE", "DELETED"},
               SetCatalog(c, state)
        PROVE  TypeInv'
    BY <1>1, <1>4 DEF SetCatalog, TypeOK, RequestsSound
  <1>5. ASSUME NEW v \in Vendors, NEW status \in Capacities, SetCapacity(v, status)
        PROVE  TypeInv'
    BY <1>1, <1>5 DEF SetCapacity, TypeOK, RequestsSound
  <1>6. ASSUME NEW v \in Vendors, NEW open \in BOOLEAN, SetActive(v, open)
        PROVE  TypeInv'
    BY <1>1, <1>6 DEF SetActive, TypeOK, RequestsSound
  <1> QED
    BY <1>2, <1>3, <1>4, <1>5, <1>6 DEF CanteenWrites

LEMMA FlagUnclaimedTyped ==
  ASSUME TypeInv, FlagUnclaimed
  PROVE  TypeInv'
  <1> USE DEF TypeInv
  <1>1. PICK late \in SUBSET {o \in Existing : Unclaimable(o)} :
          orders' = [o \in OrderIds |->
                        IF o \in late THEN [orders[o] EXCEPT !.unclaimed = TRUE]
                                      ELSE orders[o]]
    BY DEF FlagUnclaimed
  <1>2. \A o \in late : [orders[o] EXCEPT !.unclaimed = TRUE] \in OrderRow
    <2> SUFFICES ASSUME NEW o \in late
                 PROVE  [orders[o] EXCEPT !.unclaimed = TRUE] \in OrderRow
      OBVIOUS
    <2>1. orders[o] \in OrderRow
      BY DEF Existing, TypeOK
    <2> QED
      BY <2>1 DEF OrderRow
  <1>3. TypeOK'
    BY <1>1, <1>2, ZenonT(30) DEF FlagUnclaimed, TypeOK, Existing
  <1>4. \A o \in OrderIds : orders[o] # NoOrder => orders'[o] # NoOrder
    BY <1>1, <1>2, NoOrderAssumption
  <1>5. RequestsSound'
    BY <1>4, RequestKinds DEF FlagUnclaimed, RequestsSound, TypeOK
  <1> QED
    BY <1>3, <1>5

LEMMA NextTyped == TypeInv /\ [Next]_vars => TypeInv'
  <1> SUFFICES ASSUME TypeInv, [Next]_vars PROVE TypeInv'
    OBVIOUS
  <1>1. ASSUME NEW r \in Requests, Arrive(r) PROVE TypeInv'
    BY <1>1, ReadForCreateTyped, ReadForUpdateTyped, ReadForCancelTyped DEF Arrive
  <1>2. ASSUME NEW r \in Requests, Continue(r) PROVE TypeInv'
    BY <1>2, ContinueTyped
  <1>3. ASSUME NEW r \in Requests, Abort(r) PROVE TypeInv'
    BY <1>3, AbortTyped
  <1>4. CASE CanteenWrites
    BY <1>4, CanteenWritesTyped
  <1>5. CASE FlagUnclaimed
    BY <1>5, FlagUnclaimedTyped
  <1>6. CASE UNCHANGED vars
    BY <1>6 DEF vars, tables, TypeInv, TypeOK, RequestsSound
  <1> QED
    BY <1>1, <1>2, <1>3, <1>4, <1>5, <1>6 DEF Next

LEMMA TypeInvariance == Spec => []TypeInv
  BY InitTypeInv, NextTyped, PTL DEF Spec

(* Every reachable state is well typed; in particular no wallet and no     *)
(* stock ever goes below zero, although the schema has no CHECK on them:   *)
(* the WHERE clauses of the debit and of the deductions are enough.        *)
THEOREM TypeCorrect == Spec => []TypeOK
  BY TypeInvariance, PTL DEF TypeInv

-----------------------------------------------------------------------------
(***************************************************************************)
(* Order numbers.  UniqueActiveNumber is not inductive: the commit of a    *)
(* creation inserts the number chosen when the lock was taken.  It needs   *)
(* NumberReservedUnderLock, which in turn needs that an order never takes  *)
(* a number again once it dropped its own.                                 *)
(***************************************************************************)

NumberInv == UniqueActiveNumber /\ NumberReservedUnderLock

(* What a step that creates no order may do to the numbers. *)
NumbersOnlyFreed ==
    \A o \in OrderIds :
        /\ orders'[o] = NoOrder <=> orders[o] = NoOrder
        /\ orders[o] # NoOrder =>
              /\ orders'[o].vendor = orders[o].vendor
              /\ orders'[o].activeNumber \in {NoNumber, orders[o].activeNumber}

LEMMA FreedStaysUnique ==
  ASSUME UniqueActiveNumber, NumbersOnlyFreed
  PROVE  UniqueActiveNumber'
  BY DEF UniqueActiveNumber, NumbersOnlyFreed, Existing

LEMMA FreedStaysFree ==
  ASSUME NumbersOnlyFreed, NEW v \in Vendors
  PROVE  FreeNumbers(v) \subseteq FreeNumbers(v)'
  BY DEF NumbersOnlyFreed, FreeNumbers, TakenNumbers, OrdersOf, Existing

(* Such a step keeps NumberInv when every locked request was locked before *)
(* on the same row and with the same number.                               *)
LEMMA FreedKeepsNumberInv ==
  ASSUME TypeOK, NumberInv, NumbersOnlyFreed,
         \A r \in Requests : request'[r].op = "locked" =>
            /\ request'[r] = request[r]
            /\ canteenLock'[request[r].vendor] = canteenLock[request[r].vendor]
  PROVE  NumberInv'
  <1>1. UniqueActiveNumber'
    BY FreedStaysUnique DEF NumberInv
  <1>2. ASSUME NEW r \in Requests, request'[r].op = "locked"
        PROVE  /\ canteenLock'[request'[r].vendor] = r
               /\ request'[r].number \in FreeNumbers(request[r].vendor)'
    <2>1. request'[r] = request[r] /\ request[r].op = "locked"
      BY <1>2
    <2>2. PICK v \in Vendors : v = request[r].vendor
      BY <2>1, RequestKinds
    <2>3. canteenLock[v] = r /\ request[r].number \in FreeNumbers(v)
      BY <2>1, <2>2 DEF NumberInv, NumberReservedUnderLock
    <2>4. request[r].number \in FreeNumbers(v)'
      BY <2>3, FreedStaysFree
    <2>5. canteenLock'[v] = r
      BY <1>2, <2>2, <2>3
    <2>6. v = request'[r].vendor
      BY <2>1, <2>2
    <2> QED
      BY <2>1, <2>4, <2>5, <2>6
  <1> QED
    BY <1>1, <1>2 DEF NumberInv, NumberReservedUnderLock

LEMMA InitNumberInv == Init => NumberInv
  BY DEF Init, NumberInv, UniqueActiveNumber, NumberReservedUnderLock, Existing, Idle

LEMMA ArriveNumberInv ==
  ASSUME TypeOK, NumberInv, NEW r \in Requests, Arrive(r)
  PROVE  NumberInv'
  <1>1. UNCHANGED <<orders, canteenLock>>
    BY DEF Arrive, ReadForCreate, ReadForUpdate, ReadForCancel, tables
  <1>2. NumbersOnlyFreed
    BY <1>1 DEF NumbersOnlyFreed
  <1>3. \A t \in Requests : request'[t].op = "locked" => request'[t] = request[t]
    BY DEF Arrive, ReadForCreate, ReadForUpdate, ReadForCancel, TypeOK
  <1> QED
    BY <1>1, <1>2, <1>3, FreedKeepsNumberInv

(* Taking the lock: nobody else holds it, and the number chosen is free. *)
LEMMA LockCanteenNumberInv ==
  ASSUME TypeOK, NumberInv, NEW r \in Requests, LockCanteen(r)
  PROVE  NumberInv'
  <1> DEFINE v == request[r].vendor
  <1>1. v \in Vendors
    BY DEF LockCanteen, TypeOK, Request
  <1>2. PICK n \in FreeNumbers(v) :
          request' = [request EXCEPT ![r] =
              [op |-> "locked", student |-> request[r].student, vendor |-> v,
               need |-> request[r].need, total |-> request[r].total,
               number |-> n]]
    BY DEF LockCanteen
  <1>3. /\ canteenLock[v] = NoRequest
        /\ canteenLock' = [canteenLock EXCEPT ![v] = r]
        /\ UNCHANGED orders
    BY DEF LockCanteen, RowFree, tables
  <1>4. \A u : FreeNumbers(u)' = FreeNumbers(u)
    BY <1>3 DEF FreeNumbers, TakenNumbers, OrdersOf, Existing
  <1>5. ASSUME NEW t \in Requests, request'[t].op = "locked"
        PROVE  /\ canteenLock'[request'[t].vendor] = t
               /\ request'[t].number \in FreeNumbers(request[t].vendor)'
    <2>1. CASE t = r
      <3>1. request'[r].vendor = v /\ request'[r].number = n
        BY <1>2 DEF TypeOK
      <3>2. canteenLock'[v] = r /\ n \in FreeNumbers(v)'
        BY <1>1, <1>2, <1>3, <1>4 DEF TypeOK
      <3> QED
        BY <2>1, <3>1, <3>2
    <2>2. CASE t # r
      <3>1. request'[t] = request[t]
        BY <1>2, <2>2 DEF TypeOK
      <3>2. PICK u \in Vendors : u = request[t].vendor
        BY <1>5, <3>1, RequestKinds
      <3>3. canteenLock[u] = t /\ request[t].number \in FreeNumbers(u)
        BY <1>5, <3>1, <3>2 DEF NumberInv, NumberReservedUnderLock
      <3>4. u # v
        BY <1>3, <3>3, NoRequestAssumption
      <3>5. canteenLock'[u] = t /\ request[t].number \in FreeNumbers(u)'
        BY <1>3, <1>4, <3>3, <3>4 DEF TypeOK
      <3> QED
        BY <3>1, <3>2, <3>5
    <2> QED
      BY <2>1, <2>2
  <1>6. UniqueActiveNumber'
    BY <1>3 DEF NumberInv, UniqueActiveNumber, Existing
  <1> QED
    BY <1>5, <1>6 DEF NumberInv, NumberReservedUnderLock

(* The commit of a creation: the only step that gives out a number. *)
LEMMA CommitCreateNumberInv ==
  ASSUME TypeOK, NumberInv, NEW r \in Requests, NEW o \in OrderIds,
         CommitCreate(r, o)
  PROVE  NumberInv'
  <1> DEFINE q == request[r]
  <1> DEFINE v == request[r].vendor
  <1>1. v \in Vendors /\ q.number \in Numbers
    BY RequestKinds DEF CommitCreate
  <1>2. canteenLock[v] = r /\ q.number \in FreeNumbers(v)
    BY DEF CommitCreate, NumberInv, NumberReservedUnderLock
  <1>3. /\ orders[o] = NoOrder
        /\ \A p \in OrderIds \ {o} : orders'[p] = orders[p]
        /\ orders'[o].vendor = v
        /\ orders'[o].activeNumber = q.number
    BY DEF CommitCreate, TypeOK
  <1>4. \A p \in Existing : orders[p].vendor = v => orders[p].activeNumber # q.number
    BY <1>2 DEF FreeNumbers, TakenNumbers, OrdersOf, Numbers, NoNumber
  <1>5. UniqueActiveNumber'
    <2> SUFFICES ASSUME NEW p \in Existing', NEW p2 \in Existing', p # p2,
                        orders'[p].vendor = orders'[p2].vendor,
                        orders'[p].activeNumber # NoNumber
                 PROVE  orders'[p].activeNumber # orders'[p2].activeNumber
      BY DEF UniqueActiveNumber
    <2>1. /\ p \in OrderIds /\ (p # o => p \in Existing)
          /\ p2 \in OrderIds /\ (p2 # o => p2 \in Existing)
      BY <1>3 DEF Existing
    <2>2. CASE p = o
      BY <1>3, <1>4, <2>1, <2>2
    <2>3. CASE p2 = o
      BY <1>3, <1>4, <2>1, <2>3
    <2>4. CASE p # o /\ p2 # o
      BY <1>3, <2>1, <2>4 DEF NumberInv, UniqueActiveNumber
    <2> QED
      BY <2>2, <2>3, <2>4
  <1>6. ASSUME NEW t \in Requests, request'[t].op = "locked"
        PROVE  /\ canteenLock'[request'[t].vendor] = t
               /\ request'[t].number \in FreeNumbers(request[t].vendor)'
    <2>1. t # r /\ request'[t] = request[t]
      BY <1>6 DEF CommitCreate, Idle, TypeOK
    <2>2. PICK u \in Vendors : u = request[t].vendor
      BY <1>6, <2>1, RequestKinds
    <2>3. canteenLock[u] = t /\ request[t].number \in FreeNumbers(u)
      BY <1>6, <2>1, <2>2 DEF NumberInv, NumberReservedUnderLock
    <2>4. u # v
      BY <1>2, <2>1, <2>3
    <2>5. canteenLock'[u] = t
      BY <1>1, <2>3, <2>4 DEF CommitCreate, TypeOK
    <2>6. FreeNumbers(u)' = FreeNumbers(u)
      BY <1>3, <2>4 DEF FreeNumbers, TakenNumbers, OrdersOf, Existing
    <2> QED
      BY <2>1, <2>2, <2>3, <2>5, <2>6
  <1> QED
    BY <1>5, <1>6 DEF NumberInv, NumberReservedUnderLock

(* A lock that is dropped was this request's: the others keep theirs. *)
LEMMA DropNumberInv ==
  ASSUME TypeOK, NumberInv, NEW r \in Requests, UNCHANGED orders,
         request' = [request EXCEPT ![r] = Idle],
         \A v \in Vendors : canteenLock[v] # r => canteenLock'[v] = canteenLock[v]
  PROVE  NumberInv'
  <1>1. NumbersOnlyFreed
    BY DEF NumbersOnlyFreed
  <1>2. ASSUME NEW t \in Requests, request'[t].op = "locked"
        PROVE  /\ request'[t] = request[t]
               /\ canteenLock'[request[t].vendor] = canteenLock[request[t].vendor]
    <2>1. t # r /\ request'[t] = request[t]
      BY <1>2 DEF Idle, TypeOK
    <2>2. request[t].vendor \in Vendors
      BY <1>2, <2>1, RequestKinds
    <2>3. canteenLock[request[t].vendor] = t
      BY <1>2, <2>1 DEF NumberInv, NumberReservedUnderLock
    <2> QED
      BY <2>1, <2>2, <2>3
  <1> QED
    BY <1>1, <1>2, FreedKeepsNumberInv

LEMMA ContinueNumberInv ==
  ASSUME TypeInv, NumberInv, NEW r \in Requests, Continue(r)
  PROVE  NumberInv'
  <1> USE DEF TypeInv
  <1>1. CASE LockCanteen(r)
    BY <1>1, LockCanteenNumberInv
  <1>2. CASE RefuseNumber(r)
    BY <1>2, DropNumberInv DEF RefuseNumber, tables
  <1>3. CASE \E o \in OrderIds : CommitCreate(r, o)
    BY <1>3, CommitCreateNumberInv
  <1>4. CASE RefuseCreate(r)
    <2>1. canteenLock[request[r].vendor] = r
      BY <1>4 DEF RefuseCreate, NumberInv, NumberReservedUnderLock
    <2>2. \A v \in Vendors : canteenLock[v] # r => canteenLock'[v] = canteenLock[v]
      BY <1>4, <2>1 DEF RefuseCreate, TypeOK
    <2> QED
      BY <1>4, <2>2, DropNumberInv DEF RefuseCreate, tables
  <1>5. CASE CommitUpdate(r)
    <2> DEFINE o == request[r].order
    <2>1. o \in OrderIds /\ orders[o] \in OrderRow /\ orders'[o] # NoOrder
      BY <1>5, UpdatedRow
    <2>2. /\ orders'[o].vendor = orders[o].vendor
          /\ orders'[o].activeNumber \in {NoNumber, orders[o].activeNumber}
      BY <1>5, UpdatedRow DEF SameParties
    <2>3. \A p \in OrderIds \ {o} : orders'[p] = orders[p]
      BY <1>5, UpdatedRow, ZenonT(30)
    <2>4. NumbersOnlyFreed
      BY <2>1, <2>2, <2>3, NoOrderAssumption DEF NumbersOnlyFreed
    <2> QED
      BY <1>5, <2>4, FreedKeepsNumberInv DEF CommitUpdate, TypeOK, Idle
  <1>6. CASE CommitCancel(r)
    <2> DEFINE o == request[r].order
    <2>1. o \in OrderIds /\ orders[o] \in OrderRow /\ orders'[o] # NoOrder
      BY <1>6, CancelledRow
    <2>2. /\ orders'[o].vendor = orders[o].vendor
          /\ orders'[o].activeNumber \in {NoNumber, orders[o].activeNumber}
      BY <1>6, CancelledRow DEF SameParties
    <2>3. \A p \in OrderIds \ {o} : orders'[p] = orders[p]
      BY <1>6, CancelledRow
    <2>4. NumbersOnlyFreed
      BY <2>1, <2>2, <2>3, NoOrderAssumption DEF NumbersOnlyFreed
    <2> QED
      BY <1>6, <2>4, FreedKeepsNumberInv DEF CommitCancel, TypeOK, Idle
  <1>7. CASE LoseClaim(r)
    BY <1>7, DropNumberInv DEF LoseClaim, tables
  <1> QED
    BY <1>1, <1>2, <1>3, <1>4, <1>5, <1>6, <1>7 DEF Continue

LEMMA FlagUnclaimedNumberInv ==
  ASSUME TypeInv, NumberInv, FlagUnclaimed
  PROVE  NumberInv'
  <1> USE DEF TypeInv
  <1>1. PICK late \in SUBSET {o \in Existing : Unclaimable(o)} :
          orders' = [o \in OrderIds |->
                        IF o \in late THEN [orders[o] EXCEPT !.unclaimed = TRUE]
                                      ELSE orders[o]]
    BY DEF FlagUnclaimed
  <1>2. \A o \in late : /\ orders[o] \in OrderRow
                        /\ [orders[o] EXCEPT !.unclaimed = TRUE] \in OrderRow
                        /\ [orders[o] EXCEPT !.unclaimed = TRUE].vendor = orders[o].vendor
                        /\ [orders[o] EXCEPT !.unclaimed = TRUE].activeNumber
                                = orders[o].activeNumber
    <2> SUFFICES ASSUME NEW o \in late
                 PROVE  /\ orders[o] \in OrderRow
                        /\ [orders[o] EXCEPT !.unclaimed = TRUE] \in OrderRow
                        /\ [orders[o] EXCEPT !.unclaimed = TRUE].vendor = orders[o].vendor
                        /\ [orders[o] EXCEPT !.unclaimed = TRUE].activeNumber
                                = orders[o].activeNumber
      OBVIOUS
    <2>1. orders[o] \in OrderRow
      BY DEF Existing, TypeOK
    <2> QED
      BY <2>1 DEF OrderRow
  <1>3. NumbersOnlyFreed
    BY <1>1, <1>2, NoOrderAssumption DEF NumbersOnlyFreed
  <1> QED
    BY <1>3, FreedKeepsNumberInv DEF FlagUnclaimed

LEMMA NextNumberInv == TypeInv /\ NumberInv /\ [Next]_vars => NumberInv'
  <1> SUFFICES ASSUME TypeInv, NumberInv, [Next]_vars PROVE NumberInv'
    OBVIOUS
  <1> USE DEF TypeInv
  <1>1. ASSUME NEW r \in Requests, Arrive(r) PROVE NumberInv'
    BY <1>1, ArriveNumberInv
  <1>2. ASSUME NEW r \in Requests, Continue(r) PROVE NumberInv'
    BY <1>2, ContinueNumberInv
  <1>3. ASSUME NEW r \in Requests, Abort(r) PROVE NumberInv'
    <2>1. \A v \in Vendors : canteenLock[v] # r => canteenLock'[v] = canteenLock[v]
      BY <1>3 DEF Abort
    <2> QED
      BY <1>3, <2>1, DropNumberInv DEF Abort, tables
  <1>4. CASE CanteenWrites
    <2>1. UNCHANGED <<orders, canteenLock, request>>
      BY <1>4 DEF CanteenWrites, AddStock, RemoveStock, SetCatalog, SetCapacity, SetActive
    <2> QED
      BY <2>1, FreedKeepsNumberInv DEF NumbersOnlyFreed
  <1>5. CASE FlagUnclaimed
    BY <1>5, FlagUnclaimedNumberInv
  <1>6. CASE UNCHANGED vars
    <2>1. UNCHANGED <<orders, canteenLock, request>>
      BY <1>6 DEF vars, tables
    <2> QED
      BY <2>1, FreedKeepsNumberInv DEF NumbersOnlyFreed
  <1> QED
    BY <1>1, <1>2, <1>3, <1>4, <1>5, <1>6 DEF Next

LEMMA NumberInvariance == Spec => []NumberInv
  BY InitNumberInv, NextNumberInv, TypeInvariance, PTL DEF Spec

(* Two orders in progress at a canteen never share a number, however many  *)
(* requests race and wherever they die: the row lock alone ensures it.     *)
THEOREM ActiveNumbersAreUnique == Spec => []UniqueActiveNumber
  BY NumberInvariance, PTL DEF NumberInv

-----------------------------------------------------------------------------
(***************************************************************************)
(* What one step may do to one order, and what follows from it: the        *)
(* settlement of an order, its number, its history, and the proof that the *)
(* order core implements Escrow.                                           *)
(***************************************************************************)

Kept(o) ==
    orders'[o] = orders[o] /\ history'[o] = history[o] /\ ledger'[o] = ledger[o]

Born(o) ==
    /\ orders[o] = NoOrder
    /\ orders'[o] \in OrderRow
    /\ orders'[o].status = "CONFIRMED"
    /\ orders'[o].activeNumber = orders'[o].number
    /\ orders'[o].cancelledBy = "NONE"
    /\ orders'[o].unclaimed = FALSE
    /\ history'[o] = history[o]
    /\ ledger'[o] = [ledger[o] EXCEPT !["PAYMENT"] = @ + 1]

Advanced(o) ==
    /\ orders[o] \in OrderRow /\ orders'[o] \in OrderRow
    /\ orders[o].status \in {"CONFIRMED", "IN_PREPARATION", "READY"}
    /\ orders'[o].status = NextStatus(orders[o].status)
    /\ orders'[o].activeNumber =
          IF orders'[o].status = "RECEIVED" THEN NoNumber ELSE orders[o].activeNumber
    /\ SameParties(orders[o], orders'[o])
    /\ orders'[o].cancelledBy = orders[o].cancelledBy
    /\ orders'[o].unclaimed = orders[o].unclaimed
    /\ history'[o] = Append(history[o], orders'[o].status)
    /\ ledger'[o] = IF orders'[o].status = "READY"
                      THEN [ledger[o] EXCEPT !["SALE"] = @ + 1] ELSE ledger[o]

Withdrawn(o) ==
    /\ orders[o] \in OrderRow /\ orders'[o] \in OrderRow
    /\ orders'[o].cancelledBy \in {"STUDENT", "VENDOR"}
    /\ orders[o].status \in CancellableFrom(orders'[o].cancelledBy)
    /\ orders'[o].status = "CANCELLED"
    /\ orders'[o].activeNumber = NoNumber
    /\ SameParties(orders[o], orders'[o])
    /\ orders'[o].unclaimed = orders[o].unclaimed
    /\ history'[o] = Append(history[o], "CANCELLED")
    /\ ledger'[o] = [ledger[o] EXCEPT !["REFUND"] = @ + 1]

Flagged(o) ==
    /\ orders[o] \in OrderRow /\ orders'[o] \in OrderRow
    /\ orders[o].status = "READY"
    /\ orders'[o].status = "READY"
    /\ orders'[o].activeNumber = orders[o].activeNumber
    /\ SameParties(orders[o], orders'[o])
    /\ orders'[o].cancelledBy = orders[o].cancelledBy
    /\ history'[o] = history[o] /\ ledger'[o] = ledger[o]

(* One step of the system takes at most one of these steps on each order. *)
OrderStep(o) == Kept(o) \/ Born(o) \/ Advanced(o) \/ Withdrawn(o) \/ Flagged(o)

(* The row that a creation inserts. *)
LEMMA CreatedRow ==
  ASSUME TypeInv, NEW r \in Requests, NEW o \in OrderIds, CommitCreate(r, o)
  PROVE  /\ orders[o] = NoOrder
         /\ orders'[o] \in OrderRow /\ orders'[o] # NoOrder
         /\ orders'[o].status = "CONFIRMED"
         /\ orders'[o].student = request[r].student
         /\ orders'[o].vendor = request[r].vendor
         /\ orders'[o].total = request[r].total
         /\ orders'[o].reserved = request[r].need
         /\ orders'[o].activeNumber = orders'[o].number
         /\ orders'[o].cancelledBy = "NONE"
         /\ orders'[o].unclaimed = FALSE
         /\ \A p \in OrderIds \ {o} : orders'[p] = orders[p]
  <1> DEFINE q == request[r]
  <1>1. q \in [op : {"locked"}, student : Students, vendor : Vendors,
               need : [Components -> Nat], total : Totals, number : Numbers]
    BY RequestKinds DEF CommitCreate, TypeInv
  <1>2. orders'[o] =
          [status |-> "CONFIRMED", student |-> q.student,
           vendor |-> q.vendor, total |-> q.total, number |-> q.number,
           activeNumber |-> q.number, reserved |-> q.need,
           cancelledBy |-> "NONE", refundedTickets |-> 0,
           unclaimed |-> FALSE]
    BY DEF CommitCreate, TypeOK, TypeInv
  <1>3. q.total \in Nat
    BY <1>1, TotalsAssumption
  <1>4. orders'[o] \in OrderRow
    BY <1>1, <1>2, <1>3 DEF OrderRow, Statuses
  <1>5. orders[o] = NoOrder /\ \A p \in OrderIds \ {o} : orders'[p] = orders[p]
    BY DEF CommitCreate, TypeOK, TypeInv
  <1>6. /\ orders'[o].status = "CONFIRMED" /\ orders'[o].student = q.student
        /\ orders'[o].vendor = q.vendor /\ orders'[o].total = q.total
        /\ orders'[o].reserved = q.need
        /\ orders'[o].activeNumber = orders'[o].number
        /\ orders'[o].cancelledBy = "NONE" /\ orders'[o].unclaimed = FALSE
    BY <1>2
  <1> QED
    BY <1>4, <1>5, <1>6, NoOrderAssumption

LEMMA CommitCreateSteps ==
  ASSUME TypeInv, NEW r \in Requests, NEW new \in OrderIds, CommitCreate(r, new),
         NEW o \in OrderIds
  PROVE  OrderStep(o)
  <1>1. CASE o # new
    BY <1>1 DEF CommitCreate, TypeInv, TypeOK, OrderStep, Kept
  <1>2. CASE o = new
    <2>1. history'[o] = history[o]
      BY DEF CommitCreate
    <2>2. ledger'[o] = [ledger[o] EXCEPT !["PAYMENT"] = @ + 1]
      BY <1>2 DEF CommitCreate, TypeInv, TypeOK
    <2> QED
      BY <1>2, <2>1, <2>2, CreatedRow DEF OrderStep, Born
  <1> QED
    BY <1>1, <1>2

LEMMA CommitUpdateSteps ==
  ASSUME TypeInv, NEW r \in Requests, CommitUpdate(r), NEW o \in OrderIds
  PROVE  OrderStep(o)
  <1> DEFINE q == request[r]
  <1> USE DEF TypeInv
  <1>1. CASE o # q.order
    <2>1. orders'[o] = orders[o]
      <3>1. q.order \in OrderIds
        BY RequestKinds DEF CommitUpdate
      <3> QED
        BY <1>1, <3>1 DEF CommitUpdate, TypeOK
    <2>2. history'[o] = history[o]
      BY <1>1 DEF CommitUpdate, TypeOK
    <2>3. ledger'[o] = ledger[o]
      BY <1>1, SMTT(30) DEF CommitUpdate, TypeOK
    <2> QED
      BY <2>1, <2>2, <2>3 DEF OrderStep, Kept
  <1>2. CASE o = q.order
    <2>1. /\ orders[o] \in OrderRow /\ orders'[o] \in OrderRow
          /\ orders[o].status = q.from /\ orders'[o].status = q.to
          /\ orders'[o].activeNumber =
                IF FreesNumber(q.to) THEN NoNumber ELSE orders[o].activeNumber
          /\ SameParties(orders[o], orders'[o])
      BY <1>2, UpdatedRow, ZenonT(30)
    <2>2. q.to \in Statuses /\ q.to = NextStatus(q.from)
      BY RequestKinds DEF CommitUpdate, RequestsSound
    <2>3. orders[o].status \in {"CONFIRMED", "IN_PREPARATION", "READY"}
      BY <2>1, <2>2 DEF NextStatus, Statuses
    <2>4. /\ orders'[o].cancelledBy = orders[o].cancelledBy
          /\ orders'[o].unclaimed = orders[o].unclaimed
      BY <1>2, UpdatedRow
    <2>5. history'[o] = Append(history[o], q.to)
      BY <1>2 DEF CommitUpdate, TypeOK
    <2>6. ledger'[o] = IF q.to = "READY"
                         THEN [ledger[o] EXCEPT !["SALE"] = @ + 1] ELSE ledger[o]
      BY <1>2 DEF CommitUpdate, TypeOK
    <2> QED
      BY <2>1, <2>2, <2>3, <2>4, <2>5, <2>6 DEF OrderStep, Advanced, FreesNumber
  <1> QED
    BY <1>1, <1>2

LEMMA CommitCancelSteps ==
  ASSUME TypeInv, NEW r \in Requests, CommitCancel(r), NEW o \in OrderIds
  PROVE  OrderStep(o)
  <1> DEFINE q == request[r]
  <1> USE DEF TypeInv
  <1>1. CASE o # q.order
    <2>1. orders'[o] = orders[o]
      <3>1. q.order \in OrderIds
        BY RequestKinds DEF CommitCancel
      <3> QED
        BY <1>1, <3>1, SMTT(30) DEF CommitCancel, TypeOK
    <2>2. history'[o] = history[o] /\ ledger'[o] = ledger[o]
      BY <1>1 DEF CommitCancel, TypeOK
    <2> QED
      BY <2>1, <2>2 DEF OrderStep, Kept
  <1>2. CASE o = q.order
    <2>1. /\ orders[o] \in OrderRow /\ orders'[o] \in OrderRow
          /\ orders[o].status = q.from /\ orders'[o].status = "CANCELLED"
          /\ orders'[o].activeNumber = NoNumber
          /\ SameParties(orders[o], orders'[o])
      BY <1>2, CancelledRow
    <2>2. q.by \in {"STUDENT", "VENDOR"} /\ q.from \in CancellableFrom(q.by)
      BY RequestKinds DEF CommitCancel, RequestsSound
    <2>3. /\ orders'[o].cancelledBy = q.by
          /\ orders'[o].unclaimed = orders[o].unclaimed
      BY <1>2, CancelledRow
    <2>4. history'[o] = Append(history[o], "CANCELLED")
      BY <1>2 DEF CommitCancel, TypeOK
    <2>5. ledger'[o] = [ledger[o] EXCEPT !["REFUND"] = @ + 1]
      BY <1>2 DEF CommitCancel, TypeOK
    <2> QED
      BY <2>1, <2>2, <2>3, <2>4, <2>5 DEF OrderStep, Withdrawn
  <1> QED
    BY <1>1, <1>2

LEMMA FlagUnclaimedSteps ==
  ASSUME TypeInv, FlagUnclaimed, NEW o \in OrderIds
  PROVE  OrderStep(o)
  <1> USE DEF TypeInv
  <1>1. PICK late \in SUBSET {p \in Existing : Unclaimable(p)} :
          orders' = [p \in OrderIds |->
                        IF p \in late THEN [orders[p] EXCEPT !.unclaimed = TRUE]
                                      ELSE orders[p]]
    BY DEF FlagUnclaimed
  <1>2. UNCHANGED <<history, ledger>>
    BY DEF FlagUnclaimed
  <1>3. CASE o \notin late
    BY <1>1, <1>2, <1>3 DEF OrderStep, Kept
  <1>4. CASE o \in late
    <2>1. /\ orders[o] \in OrderRow
          /\ orders[o].status = "READY"
          /\ orders'[o] = [orders[o] EXCEPT !.unclaimed = TRUE]
      BY <1>1, <1>4 DEF Existing, Unclaimable, TypeOK
    <2>2. orders'[o] \in OrderRow
      BY <2>1 DEF OrderRow
    <2>3. SameParties(orders[o], orders'[o])
      BY <2>1 DEF OrderRow, SameParties
    <2> QED
      BY <1>2, <2>1, <2>2, <2>3 DEF OrderStep, Flagged, OrderRow
  <1> QED
    BY <1>3, <1>4

LEMMA NextSteps ==
  ASSUME TypeInv, [Next]_vars, NEW o \in OrderIds
  PROVE  OrderStep(o)
  <1>1. ASSUME UNCHANGED <<orders, history, ledger>> PROVE OrderStep(o)
    BY <1>1 DEF OrderStep, Kept
  <1>2. ASSUME NEW r \in Requests, Arrive(r) PROVE OrderStep(o)
    BY <1>1, <1>2 DEF Arrive, ReadForCreate, ReadForUpdate, ReadForCancel, tables
  <1>3. ASSUME NEW r \in Requests, Continue(r) PROVE OrderStep(o)
    <2>1. CASE \E p \in OrderIds : CommitCreate(r, p)
      BY <2>1, CommitCreateSteps
    <2>2. CASE CommitUpdate(r)
      BY <2>2, CommitUpdateSteps
    <2>3. CASE CommitCancel(r)
      BY <2>3, CommitCancelSteps
    <2>4. CASE LockCanteen(r) \/ RefuseNumber(r) \/ RefuseCreate(r) \/ LoseClaim(r)
      BY <1>1, <2>4 DEF LockCanteen, RefuseNumber, RefuseCreate, LoseClaim, tables
    <2> QED
      BY <1>3, <2>1, <2>2, <2>3, <2>4 DEF Continue
  <1>4. ASSUME NEW r \in Requests, Abort(r) PROVE OrderStep(o)
    BY <1>1, <1>4 DEF Abort, tables
  <1>5. CASE CanteenWrites
    BY <1>1, <1>5 DEF CanteenWrites, AddStock, RemoveStock, SetCatalog,
                      SetCapacity, SetActive
  <1>6. CASE FlagUnclaimed
    BY <1>6, FlagUnclaimedSteps
  <1>7. CASE UNCHANGED vars
    BY <1>1, <1>7 DEF vars, tables
  <1> QED
    BY <1>2, <1>3, <1>4, <1>5, <1>6, <1>7 DEF Next

-----------------------------------------------------------------------------
(***************************************************************************)
(* The invariant of one order: what its row, its history and its ledger    *)
(* entries say together.  The history is known exactly from the status,    *)
(* which is what makes HistoryChains inductive.                            *)
(***************************************************************************)

PathsTo(status) ==
    CASE status = "CONFIRMED"      -> {<<>>}
      [] status = "IN_PREPARATION" -> {<<"IN_PREPARATION">>}
      [] status = "READY"          -> {<<"IN_PREPARATION", "READY">>}
      [] status = "RECEIVED"       -> {<<"IN_PREPARATION", "READY", "RECEIVED">>}
      [] status = "CANCELLED"      -> {<<"CANCELLED">>, <<"IN_PREPARATION", "CANCELLED">>}

Entries(row, payments, sales, refunds) ==
    /\ row \in [LedgerKinds -> Nat]
    /\ row["PAYMENT"] = payments /\ row["SALE"] = sales /\ row["REFUND"] = refunds

Settled(o) ==
    IF orders[o] = NoOrder THEN Entries(ledger[o], 0, 0, 0)
    ELSE Entries(ledger[o],
            1, IF orders[o].status \in {"READY", "RECEIVED"} THEN 1 ELSE 0,
            IF orders[o].status = "CANCELLED" THEN 1 ELSE 0)

Numbered(o) ==
    orders[o] # NoOrder =>
        orders[o].activeNumber =
            IF orders[o].status \in {"RECEIVED", "CANCELLED"}
                THEN NoNumber ELSE orders[o].number

Pathed(o) ==
    IF orders[o] = NoOrder THEN history[o] = <<>>
    ELSE /\ history[o] \in PathsTo(orders[o].status)
         /\ orders[o].status # "CANCELLED" => orders[o].cancelledBy = "NONE"
         /\ orders[o].cancelledBy = "STUDENT" => history[o] = <<"CANCELLED">>
         /\ orders[o].unclaimed => orders[o].status \in {"READY", "RECEIVED"}

OrderInv(o) == Settled(o) /\ Numbered(o) /\ Pathed(o)

LEMMA EntriesMove ==
  ASSUME NEW row
  PROVE  /\ Entries(row, 0, 0, 0) => Entries([row EXCEPT !["PAYMENT"] = @ + 1], 1, 0, 0)
         /\ Entries(row, 1, 0, 0) => Entries([row EXCEPT !["SALE"] = @ + 1], 1, 1, 0)
         /\ Entries(row, 1, 0, 0) => Entries([row EXCEPT !["REFUND"] = @ + 1], 1, 0, 1)
  BY DEF Entries, LedgerKinds

LEMMA StepKeepsSettled ==
  ASSUME NEW o \in OrderIds, Settled(o), OrderStep(o)
  PROVE  Settled(o)'
  <1> USE DEF Settled
  <1>1. CASE Kept(o)
    BY <1>1 DEF Kept
  <1>2. CASE Born(o)
    <2>1. Entries(ledger[o], 0, 0, 0) /\ Entries(ledger'[o], 1, 0, 0)
      BY <1>2, EntriesMove DEF Born
    <2> QED
      BY <1>2, <2>1, NoOrderAssumption DEF Born
  <1>3. CASE Advanced(o)
    <2>1. orders[o] # NoOrder /\ orders'[o] # NoOrder
      BY <1>3, NoOrderAssumption DEF Advanced
    <2>2. CASE orders[o].status = "CONFIRMED"
      BY <1>3, <2>1, <2>2 DEF Advanced, NextStatus
    <2>3. CASE orders[o].status = "IN_PREPARATION"
      <3>1. orders'[o].status = "READY"
        BY <1>3, <2>3 DEF Advanced, NextStatus
      <3>2. Entries(ledger[o], 1, 0, 0) /\ Entries(ledger'[o], 1, 1, 0)
        BY <1>3, <2>1, <2>3, <3>1, EntriesMove DEF Advanced
      <3> QED
        BY <2>1, <3>1, <3>2
    <2>4. CASE orders[o].status = "READY"
      BY <1>3, <2>1, <2>4 DEF Advanced, NextStatus
    <2> QED
      BY <1>3, <2>2, <2>3, <2>4 DEF Advanced
  <1>4. CASE Withdrawn(o)
    <2>1. orders[o] # NoOrder /\ orders'[o] # NoOrder
      BY <1>4, NoOrderAssumption DEF Withdrawn
    <2>2. orders[o].status \in {"CONFIRMED", "IN_PREPARATION"}
      BY <1>4 DEF Withdrawn, CancellableFrom
    <2>3. Entries(ledger[o], 1, 0, 0) /\ Entries(ledger'[o], 1, 0, 1)
      BY <1>4, <2>1, <2>2, EntriesMove DEF Withdrawn
    <2> QED
      BY <1>4, <2>1, <2>3 DEF Withdrawn
  <1>5. CASE Flagged(o)
    BY <1>5, NoOrderAssumption DEF Flagged
  <1> QED
    BY <1>1, <1>2, <1>3, <1>4, <1>5 DEF OrderStep

LEMMA StepKeepsNumbered ==
  ASSUME NEW o \in OrderIds, Numbered(o), OrderStep(o)
  PROVE  Numbered(o)'
  <1> USE NoOrderAssumption DEF Numbered
  <1>1. CASE Kept(o)
    BY <1>1 DEF Kept
  <1>2. CASE Born(o)
    BY <1>2 DEF Born
  <1>3. CASE Advanced(o)
    BY <1>3 DEF Advanced, NextStatus, SameParties
  <1>4. CASE Withdrawn(o)
    BY <1>4 DEF Withdrawn
  <1>5. CASE Flagged(o)
    BY <1>5 DEF Flagged, SameParties
  <1> QED
    BY <1>1, <1>2, <1>3, <1>4, <1>5 DEF OrderStep

(* The sequences that occur, spelled out for the provers. *)
LEMMA PathValues ==
  /\ PathsTo("CONFIRMED") = {<<>>}
  /\ PathsTo("IN_PREPARATION") = {<<"IN_PREPARATION">>}
  /\ PathsTo("READY") = {<<"IN_PREPARATION", "READY">>}
  /\ PathsTo("RECEIVED") = {<<"IN_PREPARATION", "READY", "RECEIVED">>}
  /\ PathsTo("CANCELLED") = {<<"CANCELLED">>, <<"IN_PREPARATION", "CANCELLED">>}
  BY DEF PathsTo

LEMMA AppendTo1 ==
  ASSUME NEW S, NEW a \in S, NEW b \in S
  PROVE  Append(<<a>>, b) = <<a, b>>
  <1>1. <<a>> \in Seq(S) /\ Append(<<a>>, b) \in Seq(S) /\ <<a, b>> \in Seq(S)
    OBVIOUS
  <1>2. Len(Append(<<a>>, b)) = 2 /\ Len(<<a, b>>) = 2
    BY <1>1
  <1>3. \A i \in 1..2 : Append(<<a>>, b)[i] = <<a, b>>[i]
    BY <1>1
  <1> QED
    BY <1>1, <1>2, <1>3, SeqEqual

LEMMA AppendTo2 ==
  ASSUME NEW S, NEW a \in S, NEW b \in S, NEW c \in S
  PROVE  Append(<<a, b>>, c) = <<a, b, c>>
  <1>1. <<a, b>> \in Seq(S) /\ Append(<<a, b>>, c) \in Seq(S) /\ <<a, b, c>> \in Seq(S)
    OBVIOUS
  <1>2. Len(Append(<<a, b>>, c)) = 3 /\ Len(<<a, b, c>>) = 3
    BY <1>1
  <1>3. \A i \in 1..3 : Append(<<a, b>>, c)[i] = <<a, b, c>>[i]
    BY <1>1
  <1> QED
    BY <1>1, <1>2, <1>3, SeqEqual

LEMMA PathsExtend ==
  /\ Append(<<>>, "IN_PREPARATION") = <<"IN_PREPARATION">>
  /\ Append(<<>>, "CANCELLED") = <<"CANCELLED">>
  /\ Append(<<"IN_PREPARATION">>, "READY") = <<"IN_PREPARATION", "READY">>
  /\ Append(<<"IN_PREPARATION">>, "CANCELLED") = <<"IN_PREPARATION", "CANCELLED">>
  /\ Append(<<"IN_PREPARATION", "READY">>, "RECEIVED")
        = <<"IN_PREPARATION", "READY", "RECEIVED">>
  <1> DEFINE S == {"IN_PREPARATION", "CANCELLED", "READY", "RECEIVED"}
  <1>1. \A a \in S : Append(<<>>, a) = <<a>>
    OBVIOUS
  <1>2. \A a, b \in S : Append(<<a>>, b) = <<a, b>>
    BY AppendTo1
  <1>3. \A a, b, c \in S : Append(<<a, b>>, c) = <<a, b, c>>
    BY AppendTo2
  <1> QED
    BY <1>1, <1>2, <1>3

LEMMA StepKeepsPathed ==
  ASSUME NEW o \in OrderIds, Pathed(o), OrderStep(o)
  PROVE  Pathed(o)'
  <1> USE NoOrderAssumption DEF Pathed
  <1>1. CASE Kept(o)
    BY <1>1 DEF Kept
  <1>2. CASE Born(o)
    BY <1>2 DEF Born, PathsTo
  <1>3. CASE Advanced(o)
    <2>1. orders[o] # NoOrder /\ orders'[o] # NoOrder
      BY <1>3 DEF Advanced
    <2>2. /\ orders'[o].cancelledBy = "NONE"
          /\ orders'[o].unclaimed => orders'[o].status \in {"READY", "RECEIVED"}
      BY <1>3, <2>1 DEF Advanced, NextStatus
    <2>3. history'[o] \in PathsTo(orders'[o].status)
      <3>1. CASE orders[o].status = "CONFIRMED"
        BY <1>3, <2>1, <3>1, PathsExtend, PathValues, ZenonT(30) DEF Advanced, NextStatus
      <3>2. CASE orders[o].status = "IN_PREPARATION"
        <4>1. orders'[o].status = "READY"
          BY <1>3, <3>2 DEF Advanced, NextStatus
        <4>2. history[o] = <<"IN_PREPARATION">>
          BY <2>1, <3>2, PathValues
        <4>3. history'[o] = <<"IN_PREPARATION", "READY">>
          BY <1>3, <4>1, <4>2, PathsExtend DEF Advanced
        <4> QED
          BY <4>1, <4>3, PathValues
      <3>3. CASE orders[o].status = "READY"
        BY <1>3, <2>1, <3>3, PathsExtend, PathValues, ZenonT(30) DEF Advanced, NextStatus
      <3> QED
        BY <1>3, <3>1, <3>2, <3>3 DEF Advanced
    <2> QED
      BY <2>1, <2>2, <2>3
  <1>4. CASE Withdrawn(o)
    <2>1. orders[o] # NoOrder /\ orders'[o] # NoOrder
      BY <1>4 DEF Withdrawn
    <2>2. CASE orders[o].status = "CONFIRMED"
      <3>1. history'[o] = <<"CANCELLED">>
        BY <1>4, <2>1, <2>2, PathsExtend, PathValues DEF Withdrawn
      <3> QED
        BY <1>4, <2>1, <2>2, <3>1, PathValues DEF Withdrawn
    <2>3. CASE orders[o].status = "IN_PREPARATION"
      <3>1. history'[o] = <<"IN_PREPARATION", "CANCELLED">>
        BY <1>4, <2>1, <2>3, PathsExtend, PathValues DEF Withdrawn
      <3>2. orders'[o].cancelledBy # "STUDENT"
        BY <1>4, <2>3 DEF Withdrawn, CancellableFrom
      <3> QED
        BY <1>4, <2>1, <2>3, <3>1, <3>2, PathValues DEF Withdrawn
    <2> QED
      BY <1>4, <2>2, <2>3 DEF Withdrawn, CancellableFrom
  <1>5. CASE Flagged(o)
    BY <1>5 DEF Flagged
  <1> QED
    BY <1>1, <1>2, <1>3, <1>4, <1>5 DEF OrderStep

LEMMA OrderInvariance == Spec => [](\A o \in OrderIds : OrderInv(o))
  <1>1. Init => \A o \in OrderIds : OrderInv(o)
    BY DEF Init, OrderInv, Settled, Entries, LedgerKinds, Numbered, Pathed
  <1>2. TypeInv /\ (\A o \in OrderIds : OrderInv(o)) /\ [Next]_vars
            => (\A o \in OrderIds : OrderInv(o))'
    BY NextSteps, StepKeepsSettled, StepKeepsNumbered, StepKeepsPathed DEF OrderInv
  <1> QED
    BY <1>1, <1>2, TypeInvariance, PTL DEF Spec

(* An order is paid once, credited once and only if it became READY,       *)
(* refunded once and only if it was CANCELLED: OrdersService.update and    *)
(* cancel act on a status read before their transaction, and the claim on  *)
(* that status is enough, whatever the number of concurrent requests.      *)
THEOREM OrdersSettleOnce == Spec => []SettledOnce
  <1>1. (\A o \in OrderIds : OrderInv(o)) => SettledOnce
    BY DEF OrderInv, Settled, Entries, LedgerKinds, SettledOnce
  <1> QED
    BY <1>1, OrderInvariance, PTL

(* An order holds its number exactly while it is in progress. *)
THEOREM OpenOrdersHoldTheirNumber == Spec => []NumberHeldWhileOpen
  <1>1. (\A o \in OrderIds : OrderInv(o)) => NumberHeldWhileOpen
    BY DEF OrderInv, Numbered, NumberHeldWhileOpen, Existing
  <1> QED
    BY <1>1, OrderInvariance, PTL

(* A student never cancels an order whose preparation began. *)
THEOREM StudentsOnlyCancelEarly == Spec => []StudentNeverCancelsStartedOrder
  <1>1. (\A o \in OrderIds : OrderInv(o)) => StudentNeverCancelsStartedOrder
    BY DEF OrderInv, Pathed, StudentNeverCancelsStartedOrder, Existing
  <1> QED
    BY <1>1, OrderInvariance, PTL

(* The unclaimed flag never lands on an order that is, or will be, refunded. *)
THEOREM UnclaimedOrdersWereReady == Spec => []UnclaimedWasReady
  <1>1. (\A o \in OrderIds : OrderInv(o)) => UnclaimedWasReady
    BY DEF OrderInv, Pathed, UnclaimedWasReady, Existing
  <1> QED
    BY <1>1, OrderInvariance, PTL

IsChain(path, status) ==
    /\ path[Len(path)] = status
    /\ \A i \in 1..(Len(path) - 1) :
          \/ path[i + 1] = NextStatus(path[i])
          \/ /\ path[i] \in {"CONFIRMED", "IN_PREPARATION"}
             /\ path[i + 1] = "CANCELLED"

LEMMA StepsOfStatuses ==
  /\ NextStatus("CONFIRMED") = "IN_PREPARATION"
  /\ NextStatus("IN_PREPARATION") = "READY"
  /\ NextStatus("READY") = "RECEIVED"
  BY DEF NextStatus

LEMMA ChainOf1 == IsChain(<<"CONFIRMED">>, "CONFIRMED")
  BY DEF IsChain

LEMMA ChainOf2 ==
  ASSUME NEW a, NEW b,
         b = NextStatus(a) \/ (a \in {"CONFIRMED", "IN_PREPARATION"} /\ b = "CANCELLED")
  PROVE  IsChain(<<a, b>>, b)
  <1>1. Len(<<a, b>>) = 2 /\ \A i \in 1..(2 - 1) : i = 1
    OBVIOUS
  <1> QED
    BY <1>1 DEF IsChain

LEMMA ChainOf3 ==
  ASSUME NEW a, NEW b, NEW c, b = NextStatus(a),
         c = NextStatus(b) \/ (b \in {"CONFIRMED", "IN_PREPARATION"} /\ c = "CANCELLED")
  PROVE  IsChain(<<a, b, c>>, c)
  <1>1. Len(<<a, b, c>>) = 3 /\ \A i \in 1..(3 - 1) : i = 1 \/ i = 2
    OBVIOUS
  <1> QED
    BY <1>1 DEF IsChain

LEMMA ChainOf4 ==
  ASSUME NEW a, NEW b, NEW c, NEW d,
         b = NextStatus(a), c = NextStatus(b), d = NextStatus(c)
  PROVE  IsChain(<<a, b, c, d>>, d)
  <1>1. Len(<<a, b, c, d>>) = 4 /\ \A i \in 1..(4 - 1) : i = 1 \/ i = 2 \/ i = 3
    OBVIOUS
  <1> QED
    BY <1>1 DEF IsChain

LEMMA ConcatOf1 ==
  ASSUME NEW S, NEW a \in S, NEW b \in S
  PROVE  <<a>> \o <<b>> = <<a, b>>
  <1>1. <<a>> \in Seq(S) /\ <<b>> \in Seq(S) /\ <<a>> \o <<b>> \in Seq(S) /\ <<a, b>> \in Seq(S)
    OBVIOUS
  <1>2. Len(<<a>> \o <<b>>) = 2 /\ Len(<<a, b>>) = 2
    BY <1>1
  <1>3. \A i \in 1..2 : (<<a>> \o <<b>>)[i] = <<a, b>>[i]
    BY <1>1
  <1> QED
    BY <1>1, <1>2, <1>3, SeqEqual

LEMMA ConcatOf2 ==
  ASSUME NEW S, NEW a \in S, NEW b \in S, NEW c \in S
  PROVE  <<a>> \o <<b, c>> = <<a, b, c>>
  <1>1. <<a>> \in Seq(S) /\ <<b, c>> \in Seq(S) /\ <<a>> \o <<b, c>> \in Seq(S) /\ <<a, b, c>> \in Seq(S)
    OBVIOUS
  <1>2. Len(<<a>> \o <<b, c>>) = 3 /\ Len(<<a, b, c>>) = 3
    BY <1>1
  <1>3. \A i \in 1..3 : (<<a>> \o <<b, c>>)[i] = <<a, b, c>>[i]
    BY <1>1
  <1> QED
    BY <1>1, <1>2, <1>3, SeqEqual

LEMMA ConcatOf3 ==
  ASSUME NEW S, NEW a \in S, NEW b \in S, NEW c \in S, NEW d \in S
  PROVE  <<a>> \o <<b, c, d>> = <<a, b, c, d>>
  <1>1. <<a>> \in Seq(S) /\ <<b, c, d>> \in Seq(S) /\ <<a>> \o <<b, c, d>> \in Seq(S) /\ <<a, b, c, d>> \in Seq(S)
    OBVIOUS
  <1>2. Len(<<a>> \o <<b, c, d>>) = 4 /\ Len(<<a, b, c, d>>) = 4
    BY <1>1
  <1>3. \A i \in 1..4 : (<<a>> \o <<b, c, d>>)[i] = <<a, b, c, d>>[i]
    BY <1>1
  <1> QED
    BY <1>1, <1>2, <1>3, SeqEqual

LEMMA PathsAreChains ==
  ASSUME NEW status \in Statuses, NEW path \in PathsTo(status)
  PROVE  IsChain(<<"CONFIRMED">> \o path, status)
  <1> DEFINE S == Statuses
  <1> DEFINE c == "CONFIRMED"
  <1>0. /\ \A b \in S : <<c>> \o <<b>> = <<c, b>>
        /\ \A b, d \in S : <<c>> \o <<b, d>> = <<c, b, d>>
        /\ \A b, d, e \in S : <<c>> \o <<b, d, e>> = <<c, b, d, e>>
    <2>1. c \in S
      BY DEF Statuses
    <2> QED
      BY <2>1, ConcatOf1, ConcatOf2, ConcatOf3
  <1>1. CASE status = "CONFIRMED"
    <2>1. path = <<>>
      BY <1>1, PathValues
    <2>2. <<c>> \o <<>> = <<c>>
      OBVIOUS
    <2> QED
      BY <1>1, <2>1, <2>2, ChainOf1
  <1>2. CASE status = "IN_PREPARATION"
    <2>1. path = <<"IN_PREPARATION">>
      BY <1>2, PathValues
    <2>2. <<c>> \o <<"IN_PREPARATION">> = <<c, "IN_PREPARATION">>
      BY <1>0 DEF Statuses
    <2>3. IsChain(<<c, "IN_PREPARATION">>, "IN_PREPARATION")
      BY ChainOf2, StepsOfStatuses
    <2> QED
      BY <1>2, <2>1, <2>2, <2>3
  <1>3. CASE status = "READY"
    <2>1. path = <<"IN_PREPARATION", "READY">>
      BY <1>3, PathValues
    <2>2. <<c>> \o <<"IN_PREPARATION", "READY">> = <<c, "IN_PREPARATION", "READY">>
      BY <1>0 DEF Statuses
    <2>3. IsChain(<<c, "IN_PREPARATION", "READY">>, "READY")
      BY ChainOf3, StepsOfStatuses
    <2> QED
      BY <1>3, <2>1, <2>2, <2>3
  <1>4. CASE status = "RECEIVED"
    <2>1. path = <<"IN_PREPARATION", "READY", "RECEIVED">>
      BY <1>4, PathValues
    <2>2. <<c>> \o <<"IN_PREPARATION", "READY", "RECEIVED">>
              = <<c, "IN_PREPARATION", "READY", "RECEIVED">>
      BY <1>0 DEF Statuses
    <2>3. IsChain(<<c, "IN_PREPARATION", "READY", "RECEIVED">>, "RECEIVED")
      BY ChainOf4, StepsOfStatuses
    <2> QED
      BY <1>4, <2>1, <2>2, <2>3
  <1>5. CASE status = "CANCELLED"
    <2>1. path = <<"CANCELLED">> \/ path = <<"IN_PREPARATION", "CANCELLED">>
      BY <1>5, PathValues
    <2>2. /\ <<c>> \o <<"CANCELLED">> = <<c, "CANCELLED">>
          /\ <<c>> \o <<"IN_PREPARATION", "CANCELLED">>
                = <<c, "IN_PREPARATION", "CANCELLED">>
      BY <1>0 DEF Statuses
    <2>3. IsChain(<<c, "CANCELLED">>, "CANCELLED")
      BY ChainOf2
    <2>4. IsChain(<<c, "IN_PREPARATION", "CANCELLED">>, "CANCELLED")
      BY ChainOf3, StepsOfStatuses
    <2> QED
      BY <1>5, <2>1, <2>2, <2>3, <2>4
  <1> QED
    BY <1>1, <1>2, <1>3, <1>4, <1>5 DEF Statuses

(* The status history of an order is an unbroken legal path to its status. *)
THEOREM HistoriesAreChains == Spec => []HistoryChains
  <1>1. ASSUME TypeInv, \A o \in OrderIds : OrderInv(o), NEW o \in Existing
        PROVE  IsChain(<<"CONFIRMED">> \o history[o], orders[o].status)
    <2>1. orders[o].status \in Statuses /\ history[o] \in PathsTo(orders[o].status)
      BY <1>1 DEF OrderInv, Pathed, Existing, TypeInv, TypeOK, OrderRow
    <2> QED
      BY <2>1, PathsAreChains
  <1>2. TypeInv /\ (\A o \in OrderIds : OrderInv(o)) => HistoryChains
    BY <1>1 DEF HistoryChains, IsChain
  <1> QED
    BY <1>2, OrderInvariance, TypeInvariance, PTL

-----------------------------------------------------------------------------
(***************************************************************************)
(* The order core implements Escrow: with respect to wallets and balances, *)
(* every step of Orders is one step of Escrow on one order, or a stutter.  *)
(* And a rupture is recorded exactly when a shelf is emptied.              *)
(***************************************************************************)

(* The escrow of every order: what INSTANCE Escrow substitutes for escrow. *)
Escrows == [o \in OrderIds |->
              IF orders[o] = NoOrder THEN NoOrder ELSE EscrowOf(orders[o])]

LEMMA EscrowsUnfold ==
  ASSUME NEW o \in OrderIds
  PROVE  /\ orders[o] = NoOrder => Escrows[o] = NoOrder
         /\ orders[o] # NoOrder => Escrows[o] = EscrowOf(orders[o])
         /\ orders'[o] = NoOrder => Escrows'[o] = NoOrder
         /\ orders'[o] # NoOrder => Escrows'[o] = EscrowOf(orders'[o])
  BY DEF Escrows

LEMMA EscrowOfRow ==
  ASSUME NEW row \in OrderRow
  PROVE  /\ EscrowOf(row) \in EscrowRow /\ EscrowOf(row) # NoOrder
         /\ EscrowOf(row).payer = row.student /\ EscrowOf(row).payee = row.vendor
         /\ EscrowOf(row).amount = row.total
         /\ EscrowOf(row).state = EscrowState(row.status)
  <1>1. EscrowState(row.status) \in {"HELD", "RELEASED", "RETURNED"}
    BY DEF OrderRow, Statuses, EscrowState
  <1>2. EscrowOf(row) \in EscrowRow
    BY <1>1 DEF EscrowOf, EscrowRow, OrderRow
  <1> QED
    BY <1>2, NoEscrowAssumption DEF EscrowOf

(* The other orders keep their escrow. *)
LEMMA OneEscrowMoves ==
  ASSUME NEW o \in OrderIds, \A p \in OrderIds \ {o} : orders'[p] = orders[p]
  PROVE  Escrows' = [Escrows EXCEPT ![o] = Escrows'[o]]
  BY DEF Escrows

LEMMA CommitCreateHolds ==
  ASSUME TypeInv, NEW r \in Requests, NEW o \in OrderIds, CommitCreate(r, o)
  PROVE  Money!Next
  <1> DEFINE q == request[r]
  <1> USE DEF TypeInv
  <1>1. q \in [op : {"locked"}, student : Students, vendor : Vendors,
               need : [Components -> Nat], total : Totals, number : Numbers]
    BY RequestKinds DEF CommitCreate
  <1>2. /\ orders[o] = NoOrder
        /\ \A p \in OrderIds \ {o} : orders'[p] = orders[p]
        /\ orders'[o].student = q.student /\ orders'[o].vendor = q.vendor
        /\ orders'[o].total = q.total /\ orders'[o].status = "CONFIRMED"
        /\ orders'[o] # NoOrder
    BY CreatedRow
  <1>4. Escrows[o] = NoOrder
    BY <1>2, EscrowsUnfold
  <1>5. Escrows'[o] = [payer |-> q.student, payee |-> q.vendor,
                       amount |-> q.total, state |-> "HELD"]
    BY <1>2, EscrowsUnfold DEF EscrowOf, EscrowState
  <1>6. Escrows' = [Escrows EXCEPT ![o] =
            [payer |-> q.student, payee |-> q.vendor,
             amount |-> q.total, state |-> "HELD"]]
    BY <1>2, <1>5, OneEscrowMoves
  <1>7. PICK s \in Students, v \in Vendors, amount \in Totals :
          s = q.student /\ v = q.vendor /\ amount = q.total
    BY <1>1
  <1>8. Money!Hold(o, s, v, amount)
    BY <1>4, <1>6, <1>7 DEF Money!Hold, Escrows, CommitCreate, CanPay
  <1> QED
    BY <1>8 DEF Money!Next

LEMMA CommitUpdateReleases ==
  ASSUME TypeInv, NEW r \in Requests, CommitUpdate(r),
         NEW o \in OrderIds, o = request[r].order
  PROVE  [Money!Next]_Money!escrowVars
  <1> DEFINE q == request[r]
  <1> USE DEF TypeInv
  <1>1. /\ o \in OrderIds /\ orders[o] \in OrderRow /\ orders'[o] \in OrderRow
        /\ orders[o].status = q.from /\ orders'[o].status = q.to
        /\ SameParties(orders[o], orders'[o])
        /\ \A p \in OrderIds \ {o} : orders'[p] = orders[p]
    BY UpdatedRow
  <1>2. q.to = NextStatus(q.from) /\ q.to \in Statuses /\ q.from \in Statuses
    BY RequestKinds DEF CommitUpdate, RequestsSound
  <1>3. /\ Escrows[o] = EscrowOf(orders[o]) /\ Escrows'[o] = EscrowOf(orders'[o])
        /\ Escrows[o] # NoOrder
    BY <1>1, EscrowsUnfold, EscrowOfRow, NoOrderAssumption
  <1>4. Escrows' = [Escrows EXCEPT ![o] = Escrows'[o]]
    BY <1>1, OneEscrowMoves
  <1>5. CASE q.to = "READY"
    <2>1. q.from = "IN_PREPARATION"
      BY <1>2, <1>5 DEF NextStatus, Statuses
    <2>2. Escrows[o].state = "HELD"
      BY <1>1, <1>3, <2>1, EscrowOfRow DEF EscrowState
    <2>3. Escrows'[o] = [Escrows[o] EXCEPT !.state = "RELEASED"]
      BY <1>1, <1>3, <1>5 DEF EscrowOf, EscrowState, SameParties
    <2>4. balance' = [balance EXCEPT ![Escrows[o].payee] = @ + Escrows[o].amount]
      <3>1. Escrows[o].payee = orders[o].vendor /\ Escrows[o].amount = orders[o].total
        BY <1>1, <1>3, EscrowOfRow
      <3>2. balance' = [balance EXCEPT ![orders[o].vendor] = @ + orders[o].total]
        BY <1>5 DEF CommitUpdate
      <3> QED
        BY <3>1, <3>2
    <2>5. UNCHANGED wallet
      BY DEF CommitUpdate
    <2>6. Escrows' = [Escrows EXCEPT ![o] = [@ EXCEPT !.state = "RELEASED"]]
      BY <1>1, <1>4, <2>3 DEF Escrows
    <2>7. Money!Release(o)
      BY <1>3, <2>2, <2>4, <2>5, <2>6 DEF Money!Release, Escrows
    <2> QED
      BY <2>7 DEF Money!Next
  <1>6. CASE q.to # "READY"
    <2>1. EscrowState(q.to) = EscrowState(q.from)
      BY <1>2, <1>6 DEF NextStatus, Statuses, EscrowState
    <2>2. Escrows'[o] = Escrows[o]
      BY <1>1, <1>3, <2>1 DEF EscrowOf, SameParties
    <2>3. Escrows' = Escrows
      BY <1>4, <2>2 DEF Escrows
    <2>4. UNCHANGED <<wallet, balance>>
      BY <1>6 DEF CommitUpdate
    <2> QED
      BY <2>3, <2>4 DEF Money!escrowVars, Escrows
  <1> QED
    BY <1>5, <1>6, SMTT(30)

LEMMA CommitCancelReturns ==
  ASSUME TypeInv, NEW r \in Requests, CommitCancel(r),
         NEW o \in OrderIds, o = request[r].order
  PROVE  Money!Next
  <1> DEFINE q == request[r]
  <1> USE DEF TypeInv
  <1>1. /\ o \in OrderIds /\ orders[o] \in OrderRow /\ orders'[o] \in OrderRow
        /\ orders[o].status = q.from /\ orders'[o].status = "CANCELLED"
        /\ SameParties(orders[o], orders'[o])
        /\ \A p \in OrderIds \ {o} : orders'[p] = orders[p]
    BY CancelledRow
  <1>2. q.from \in {"CONFIRMED", "IN_PREPARATION"}
    BY RequestKinds DEF CommitCancel, RequestsSound, CancellableFrom
  <1>3. /\ Escrows[o] = EscrowOf(orders[o]) /\ Escrows'[o] = EscrowOf(orders'[o])
        /\ Escrows[o] # NoOrder
    BY <1>1, EscrowsUnfold, EscrowOfRow, NoOrderAssumption
  <1>4. Escrows' = [Escrows EXCEPT ![o] = Escrows'[o]]
    BY <1>1, OneEscrowMoves
  <1>5. Escrows[o].state = "HELD"
    BY <1>1, <1>2, <1>3, EscrowOfRow DEF EscrowState
  <1>6. Escrows'[o] = [Escrows[o] EXCEPT !.state = "RETURNED"]
    BY <1>1, <1>3, SMTT(30) DEF EscrowOf, EscrowState, SameParties
  <1>7. wallet' = [wallet EXCEPT ![Escrows[o].payer] = @ + Escrows[o].amount]
    BY <1>1, <1>3, EscrowOfRow, ZenonT(30) DEF CommitCancel
  <1>8. UNCHANGED balance
    BY DEF CommitCancel
  <1>9. Escrows' = [Escrows EXCEPT ![o] = [@ EXCEPT !.state = "RETURNED"]]
    BY <1>1, <1>4, <1>6 DEF Escrows
  <1>10. Money!Return(o)
    BY <1>3, <1>5, <1>7, <1>8, <1>9 DEF Money!Return, Escrows
  <1> QED
    BY <1>10 DEF Money!Next

LEMMA FlagUnclaimedStutters ==
  ASSUME TypeInv, FlagUnclaimed
  PROVE  UNCHANGED Money!escrowVars
  <1>1. ASSUME NEW o \in OrderIds PROVE Escrows'[o] = Escrows[o]
    <2>1. CASE orders'[o] = orders[o]
      BY <2>1 DEF Escrows
    <2>2. CASE orders'[o] # orders[o]
      <3>1. /\ orders[o] \in OrderRow
            /\ orders'[o] = [orders[o] EXCEPT !.unclaimed = TRUE]
        BY <2>2 DEF FlagUnclaimed, Existing, TypeInv, TypeOK
      <3>2. orders[o] # NoOrder /\ orders'[o] # NoOrder
        BY <3>1, NoOrderAssumption, ZenonT(30) DEF OrderRow
      <3>3. EscrowOf(orders'[o]) = EscrowOf(orders[o])
        BY <3>1 DEF EscrowOf, OrderRow
      <3> QED
        BY <3>2, <3>3 DEF Escrows
    <2> QED
      BY <2>1, <2>2
  <1>2. Escrows' = Escrows
    BY <1>1 DEF Escrows
  <1> QED
    BY <1>2 DEF FlagUnclaimed, Money!escrowVars, Escrows

LEMMA NextIsEscrow ==
  ASSUME TypeInv, [Next]_vars
  PROVE  [Money!Next]_Money!escrowVars
  <1>1. ASSUME UNCHANGED <<orders, wallet, balance>>
        PROVE  UNCHANGED Money!escrowVars
    BY <1>1 DEF Money!escrowVars
  <1>2. ASSUME NEW r \in Requests, Arrive(r) PROVE UNCHANGED Money!escrowVars
    BY <1>1, <1>2 DEF Arrive, ReadForCreate, ReadForUpdate, ReadForCancel, tables
  <1>3. ASSUME NEW r \in Requests, Continue(r)
        PROVE  [Money!Next]_Money!escrowVars
    <2>1. CASE \E o \in OrderIds : CommitCreate(r, o)
      BY <2>1, CommitCreateHolds
    <2>2. CASE CommitUpdate(r)
      <3>1. PICK o \in OrderIds : o = request[r].order
        BY <1>3, <2>2, RequestKinds DEF CommitUpdate, TypeInv
      <3> QED
        BY <2>2, <3>1, CommitUpdateReleases
    <2>3. CASE CommitCancel(r)
      <3>1. PICK o \in OrderIds : o = request[r].order
        BY <1>3, <2>3, RequestKinds DEF CommitCancel, TypeInv
      <3> QED
        BY <2>3, <3>1, CommitCancelReturns, SMTT(30)
    <2>4. CASE LockCanteen(r) \/ RefuseNumber(r) \/ RefuseCreate(r) \/ LoseClaim(r)
      BY <1>1, <2>4 DEF LockCanteen, RefuseNumber, RefuseCreate, LoseClaim, tables
    <2> QED
      BY <1>3, <2>1, <2>2, <2>3, <2>4 DEF Continue
  <1>4. ASSUME NEW r \in Requests, Abort(r) PROVE UNCHANGED Money!escrowVars
    BY <1>1, <1>4 DEF Abort, tables
  <1>5. CASE CanteenWrites
    BY <1>1, <1>5 DEF CanteenWrites, AddStock, RemoveStock, SetCatalog,
                      SetCapacity, SetActive
  <1>6. CASE FlagUnclaimed
    BY <1>6, FlagUnclaimedStutters
  <1>7. CASE UNCHANGED vars
    BY <1>1, <1>7 DEF vars, tables
  <1> QED
    BY <1>2, <1>3, <1>4, <1>5, <1>6, <1>7 DEF Next

(* The tickets of every order leave the wallet of its student once and end *)
(* up, in full, in the balance of its canteen or back in that wallet:      *)
(* createWithinTransaction, update and cancel implement Escrow.            *)
THEOREM OrdersImplementEscrow == Spec => ImplementsEscrow
  <1>1. Init => Money!Init
    BY DEF Init, Money!Init
  <1> QED
    BY <1>1, NextIsEscrow, TypeInvariance, PTL DEF Spec, ImplementsEscrow, Money!Spec

-----------------------------------------------------------------------------

Ruptured(c) ==
    ruptures'[c] = ruptures[c] + IF stock[c] > 0 /\ stock'[c] = 0 THEN 1 ELSE 0

LEMMA CommitCreateRuptured ==
  ASSUME TypeInv, NEW r \in Requests, NEW o \in OrderIds, CommitCreate(r, o),
         NEW c \in Components
  PROVE  Ruptured(c)
  <1> DEFINE n == request[r].need[c]
  <1>1. n \in Nat /\ stock[c] \in Nat /\ ruptures[c] \in Nat
    <2>1. request[r].need \in [Components -> Nat]
      BY RequestKinds DEF CommitCreate, TypeInv
    <2> QED
      BY <2>1 DEF TypeInv, TypeOK
  <1>2. stock'[c] = stock[c] - n /\ (n > 0 => stock[c] >= n)
    BY DEF CommitCreate, CanDeduct
  <1>3. ruptures'[c] = IF n > 0 /\ stock[c] = n THEN ruptures[c] + 1 ELSE ruptures[c]
    BY DEF CommitCreate, Empties
  <1> QED
    BY <1>1, <1>2, <1>3 DEF Ruptured

LEMMA CommitCancelRuptured ==
  ASSUME TypeInv, NEW r \in Requests, CommitCancel(r), NEW c \in Components
  PROVE  Ruptured(c)
  <1>1. PICK o \in OrderIds : o = request[r].order
    BY RequestKinds DEF CommitCancel, TypeInv
  <1>2. orders[o] \in OrderRow
    BY <1>1, CancelledRow
  <1>3. /\ orders[o].reserved[c] \in Nat
        /\ stock[c] \in Nat /\ ruptures[c] \in Nat
    BY <1>2, SMTT(30) DEF OrderRow, TypeInv, TypeOK
  <1>4. stock'[c] = stock[c] + orders[o].reserved[c] /\ ruptures'[c] = ruptures[c]
    BY <1>1 DEF CommitCancel, Restored
  <1> QED
    BY <1>3, <1>4, SMTT(30) DEF Ruptured

LEMMA CanteenWritesRuptured ==
  ASSUME TypeInv, CanteenWrites, NEW c \in Components
  PROVE  Ruptured(c)
  <1>1. stock[c] \in Nat /\ ruptures[c] \in Nat
    BY DEF TypeInv, TypeOK
  <1>2. ASSUME NEW d \in Components, NEW units \in StockMoves, AddStock(d, units)
        PROVE  Ruptured(c)
    <2>1. units \in Nat \ {0}
      BY FundsAssumption
    <2> QED
      BY <1>1, <1>2, <2>1 DEF AddStock, Ruptured, TypeInv, TypeOK
  <1>3. ASSUME NEW d \in Components, NEW units \in StockMoves, RemoveStock(d, units)
        PROVE  Ruptured(c)
    <2>1. units \in Nat \ {0}
      BY FundsAssumption
    <2> QED
      BY <1>1, <1>3, <2>1 DEF RemoveStock, Empties, Ruptured, TypeInv, TypeOK
  <1>4. ASSUME UNCHANGED <<stock, ruptures>> PROVE Ruptured(c)
    BY <1>1, <1>4 DEF Ruptured
  <1> QED
    BY <1>2, <1>3, <1>4 DEF CanteenWrites, SetCatalog, SetCapacity, SetActive

LEMMA NextRuptured ==
  ASSUME TypeInv, [Next]_vars, NEW c \in Components
  PROVE  Ruptured(c)
  <1>1. ASSUME UNCHANGED <<stock, ruptures>> PROVE Ruptured(c)
    BY <1>1 DEF Ruptured, TypeInv, TypeOK
  <1>2. ASSUME NEW r \in Requests, Arrive(r) PROVE Ruptured(c)
    BY <1>1, <1>2 DEF Arrive, ReadForCreate, ReadForUpdate, ReadForCancel, tables
  <1>3. ASSUME NEW r \in Requests, Continue(r) PROVE Ruptured(c)
    <2>1. CASE \E o \in OrderIds : CommitCreate(r, o)
      BY <2>1, CommitCreateRuptured
    <2>2. CASE CommitUpdate(r)
      BY <1>1, <2>2 DEF CommitUpdate
    <2>3. CASE CommitCancel(r)
      BY <2>3, CommitCancelRuptured
    <2>4. CASE LockCanteen(r) \/ RefuseNumber(r) \/ RefuseCreate(r) \/ LoseClaim(r)
      BY <1>1, <2>4 DEF LockCanteen, RefuseNumber, RefuseCreate, LoseClaim, tables
    <2> QED
      BY <1>3, <2>1, <2>2, <2>3, <2>4 DEF Continue
  <1>4. ASSUME NEW r \in Requests, Abort(r) PROVE Ruptured(c)
    BY <1>1, <1>4 DEF Abort, tables
  <1>5. CASE CanteenWrites
    BY <1>5, CanteenWritesRuptured
  <1>6. CASE FlagUnclaimed
    BY <1>1, <1>6 DEF FlagUnclaimed
  <1>7. CASE UNCHANGED vars
    BY <1>1, <1>7 DEF vars, tables
  <1> QED
    BY <1>2, <1>3, <1>4, <1>5, <1>6, <1>7 DEF Next

(* The ruptures of a component count its emptyings: createWithinTransaction *)
(* and adjustStock insert one exactly when their write leaves nothing, and  *)
(* no other write of the stock needs to.                                    *)
THEOREM RupturesCountEmptyings == Spec => RuptureIffEmptied
  <1>1. TypeInv /\ [Next]_vars =>
          [\A c \in Components :
             ruptures'[c] = ruptures[c] +
                IF stock[c] > 0 /\ stock'[c] = 0 THEN 1 ELSE 0]_vars
    BY NextRuptured DEF Ruptured
  <1> QED
    BY <1>1, TypeInvariance, PTL DEF Spec, RuptureIffEmptied

-----------------------------------------------------------------------------
(***************************************************************************)
(* The books: every wallet, every balance and every shelf against the      *)
(* whole table of orders.  A step changes what one order counts for in     *)
(* these sums, and the wallet, balance or shelf by as much.                *)
(***************************************************************************)

Books == AccountsBalance /\ StockConserved

(* What order o counts for in each sum. *)
Paid(o, s)   == IF o \in PaidBy(s) THEN orders[o].total ELSE 0
Earned(o, v) == IF o \in CreditedTo(v) THEN orders[o].total ELSE 0
Taken(o, c)  == IF o \in Reserving THEN orders[o].reserved[c] ELSE 0

SameInBooks(o) ==
    /\ \A s \in Students : Paid(o, s)' = Paid(o, s)
    /\ \A v \in Vendors : Earned(o, v)' = Earned(o, v)
    /\ \A c \in Components : Taken(o, c)' = Taken(o, c)

TakenColumn(c) == [o \in Reserving |-> orders[o].reserved[c]]

(* The three sums are over finite columns of natural numbers. *)
ColumnsSound ==
    /\ \A s \in Students :
         /\ IsFiniteSet(PaidBy(s)) /\ PaidBy(s) \subseteq OrderIds
         /\ [o \in PaidBy(s) |-> orders[o].total] \in [PaidBy(s) -> Nat]
    /\ \A v \in Vendors :
         /\ IsFiniteSet(CreditedTo(v)) /\ CreditedTo(v) \subseteq OrderIds
         /\ [o \in CreditedTo(v) |-> orders[o].total] \in [CreditedTo(v) -> Nat]
    /\ IsFiniteSet(Reserving) /\ Reserving \subseteq OrderIds
    /\ \A c \in Components : TakenColumn(c) \in [Reserving -> Nat]

BooksNat ==
    /\ \A s \in Students : wallet[s] \in Nat /\ TotalOf(PaidBy(s)) \in Nat
    /\ \A v \in Vendors : balance[v] \in Nat /\ TotalOf(CreditedTo(v)) \in Nat
    /\ \A c \in Components :
         /\ stock[c] \in Nat /\ adjusted[c] \in Int
         /\ SumOf(TakenColumn(c)) \in Nat
    /\ \A o \in OrderIds :
         /\ \A s \in Students : Paid(o, s) \in Nat
         /\ \A v \in Vendors : Earned(o, v) \in Nat
         /\ \A c \in Components : Taken(o, c) \in Nat

LEMMA ColumnsTyped == TypeOK => ColumnsSound
  <1> SUFFICES ASSUME TypeOK PROVE ColumnsSound
    OBVIOUS
  <1>1. \A S \in SUBSET OrderIds : IsFiniteSet(S)
    BY OrderIdsAssumption, FS_Subset
  <1>2. \A o \in Existing : /\ orders[o].total \in Nat
                            /\ orders[o].reserved \in [Components -> Nat]
    BY DEF TypeOK, OrderRow, Existing
  <1>3. /\ \A s \in Students : PaidBy(s) \subseteq Existing
        /\ \A v \in Vendors : CreditedTo(v) \subseteq Existing
        /\ Reserving \subseteq Existing
        /\ Existing \subseteq OrderIds
    BY DEF PaidBy, CreditedTo, OrdersOf, Reserving, Existing
  <1>4. \A c \in Components : TakenColumn(c) \in [Reserving -> Nat]
    BY <1>2, <1>3 DEF TakenColumn
  <1> QED
    BY <1>1, <1>2, <1>3, <1>4 DEF ColumnsSound

LEMMA BooksTyped == TypeOK => BooksNat
  <1> SUFFICES ASSUME TypeOK PROVE BooksNat
    OBVIOUS
  <1>1. \A s \in Students : TotalOf(PaidBy(s)) \in Nat
    BY ColumnsTyped, SumType DEF ColumnsSound, TotalOf
  <1>2. \A v \in Vendors : TotalOf(CreditedTo(v)) \in Nat
    BY ColumnsTyped, SumType DEF ColumnsSound, TotalOf
  <1>3. \A c \in Components : SumOf(TakenColumn(c)) \in Nat
    BY ColumnsTyped, SumType DEF ColumnsSound
  <1>4. \A o \in Existing : /\ orders[o].total \in Nat
                            /\ orders[o].reserved \in [Components -> Nat]
    BY DEF TypeOK, OrderRow, Existing
  <1>5. \A o \in OrderIds :
              /\ \A s \in Students : Paid(o, s) \in Nat
              /\ \A v \in Vendors : Earned(o, v) \in Nat
              /\ \A c \in Components : Taken(o, c) \in Nat
    BY <1>4 DEF Paid, Earned, Taken, PaidBy, CreditedTo, OrdersOf, Reserving
  <1> QED
    BY <1>1, <1>2, <1>3, <1>5 DEF TypeOK, BooksNat

(* The order o alone changes what it counts for: the sums follow it. *)
LEMMA SumsMove ==
  ASSUME TypeOK, TypeOK', NEW o \in OrderIds,
         \A p \in OrderIds \ {o} : SameInBooks(p)
  PROVE  /\ \A s \in Students :
              TotalOf(PaidBy(s))' + Paid(o, s) = TotalOf(PaidBy(s)) + Paid(o, s)'
         /\ \A v \in Vendors :
              TotalOf(CreditedTo(v))' + Earned(o, v)
                    = TotalOf(CreditedTo(v)) + Earned(o, v)'
         /\ \A c \in Components :
              SumOf(TakenColumn(c))' + Taken(o, c)
                    = SumOf(TakenColumn(c)) + Taken(o, c)'
  <1>0. ColumnsSound /\ ColumnsSound'
    BY ColumnsTyped, PTL
  <1>1. ASSUME NEW s \in Students
        PROVE  TotalOf(PaidBy(s))' + Paid(o, s) = TotalOf(PaidBy(s)) + Paid(o, s)'
    <2> DEFINE f == [p \in PaidBy(s) |-> orders[p].total]
               g == [p \in PaidBy(s)' |-> orders'[p].total]
    <2>1. f \in [PaidBy(s) -> Nat] /\ IsFiniteSet(PaidBy(s)) /\ PaidBy(s) \subseteq OrderIds
      BY <1>0 DEF ColumnsSound
    <2>2. /\ g \in [PaidBy(s)' -> Nat] /\ IsFiniteSet(PaidBy(s)')
          /\ PaidBy(s)' \subseteq OrderIds
      BY <1>0 DEF ColumnsSound
    <2>3. \A p : PartOf(f, p) = Paid(p, s) /\ PartOf(g, p) = Paid(p, s)'
      BY DEF PartOf, Paid
    <2>4. \A p \in (PaidBy(s) \cup PaidBy(s)') \ {o} : PartOf(f, p) = PartOf(g, p)
      BY <2>1, <2>2, <2>3 DEF SameInBooks
    <2>5. SumOf(g) + PartOf(f, o) = SumOf(f) + PartOf(g, o)
      <3> HIDE DEF f, g
      <3> QED
        BY <2>1, <2>2, <2>4, SumChange
    <2> QED
      BY <2>3, <2>5 DEF TotalOf
  <1>2. ASSUME NEW v \in Vendors
        PROVE  TotalOf(CreditedTo(v))' + Earned(o, v)
                    = TotalOf(CreditedTo(v)) + Earned(o, v)'
    <2> DEFINE f == [p \in CreditedTo(v) |-> orders[p].total]
               g == [p \in CreditedTo(v)' |-> orders'[p].total]
    <2>1. /\ f \in [CreditedTo(v) -> Nat] /\ IsFiniteSet(CreditedTo(v))
          /\ CreditedTo(v) \subseteq OrderIds
      BY <1>0 DEF ColumnsSound
    <2>2. /\ g \in [CreditedTo(v)' -> Nat] /\ IsFiniteSet(CreditedTo(v)')
          /\ CreditedTo(v)' \subseteq OrderIds
      BY <1>0 DEF ColumnsSound
    <2>3. \A p : PartOf(f, p) = Earned(p, v) /\ PartOf(g, p) = Earned(p, v)'
      BY DEF PartOf, Earned
    <2>4. \A p \in (CreditedTo(v) \cup CreditedTo(v)') \ {o} :
                PartOf(f, p) = PartOf(g, p)
      BY <2>1, <2>2, <2>3 DEF SameInBooks
    <2>5. SumOf(g) + PartOf(f, o) = SumOf(f) + PartOf(g, o)
      <3> HIDE DEF f, g
      <3> QED
        BY <2>1, <2>2, <2>4, SumChange
    <2> QED
      BY <2>3, <2>5 DEF TotalOf
  <1>3. ASSUME NEW c \in Components
        PROVE  SumOf(TakenColumn(c))' + Taken(o, c)
                    = SumOf(TakenColumn(c)) + Taken(o, c)'
    <2> DEFINE f == TakenColumn(c)
               g == TakenColumn(c)'
    <2>1. f \in [Reserving -> Nat] /\ IsFiniteSet(Reserving) /\ Reserving \subseteq OrderIds
      BY <1>0 DEF ColumnsSound
    <2>2. /\ g \in [Reserving' -> Nat] /\ IsFiniteSet(Reserving')
          /\ Reserving' \subseteq OrderIds
      BY <1>0 DEF ColumnsSound
    <2>3. \A p : PartOf(f, p) = Taken(p, c) /\ PartOf(g, p) = Taken(p, c)'
      BY DEF PartOf, Taken, TakenColumn
    <2>4. \A p \in (Reserving \cup Reserving') \ {o} : PartOf(f, p) = PartOf(g, p)
      BY <2>1, <2>2, <2>3 DEF SameInBooks
    <2>5. SumOf(g) + PartOf(f, o) = SumOf(f) + PartOf(g, o)
      <3> HIDE DEF f, g
      <3> QED
        BY <2>1, <2>2, <2>4, SumChange
    <2> QED
      BY <2>3, <2>5
  <1> QED
    BY <1>1, <1>2, <1>3

(* A row that keeps its parties and its status counts for the same. *)
LEMMA RowSame ==
  ASSUME NEW o \in OrderIds,
         \/ orders'[o] = orders[o]
         \/ /\ orders[o] # NoOrder /\ orders'[o] # NoOrder
            /\ SameParties(orders[o], orders'[o])
            /\ orders'[o].status = orders[o].status
  PROVE  SameInBooks(o)
  BY DEF SameInBooks, SameParties, Paid, Earned, Taken, PaidBy, CreditedTo,
         OrdersOf, Reserving, Existing

(* No order counts for anything else: the books balance as before. *)
LEMMA BooksStill ==
  ASSUME TypeOK, TypeOK', Books, \A o \in OrderIds : SameInBooks(o),
         UNCHANGED <<wallet, balance>>,
         \A c \in Components : stock'[c] - adjusted'[c] = stock[c] - adjusted[c]
  PROVE  Books'
  <1>0. BooksNat /\ BooksNat' /\ ColumnsSound /\ ColumnsSound'
    BY BooksTyped, ColumnsTyped, PTL
  <1>1. \A s \in Students : TotalOf(PaidBy(s))' = TotalOf(PaidBy(s))
    <2> SUFFICES ASSUME NEW s \in Students
                 PROVE  TotalOf(PaidBy(s))' = TotalOf(PaidBy(s))
      OBVIOUS
    <2> DEFINE f == [p \in PaidBy(s) |-> orders[p].total]
               g == [p \in PaidBy(s)' |-> orders'[p].total]
    <2>1. f \in [PaidBy(s) -> Nat] /\ g \in [PaidBy(s)' -> Nat]
      BY <1>0 DEF ColumnsSound
    <2>2. \A p : PartOf(f, p) = Paid(p, s) /\ PartOf(g, p) = Paid(p, s)'
      BY DEF PartOf, Paid
    <2>3. \A p \in PaidBy(s) \cup PaidBy(s)' : PartOf(f, p) = PartOf(g, p)
      BY <1>0, <2>2 DEF SameInBooks, ColumnsSound
    <2>4. SumOf(f) = SumOf(g)
      <3> HIDE DEF f, g
      <3> QED
        BY <2>1, <2>3, SumSame
    <2> QED
      BY <2>4 DEF TotalOf
  <1>2. \A v \in Vendors : TotalOf(CreditedTo(v))' = TotalOf(CreditedTo(v))
    <2> SUFFICES ASSUME NEW v \in Vendors
                 PROVE  TotalOf(CreditedTo(v))' = TotalOf(CreditedTo(v))
      OBVIOUS
    <2> DEFINE f == [p \in CreditedTo(v) |-> orders[p].total]
               g == [p \in CreditedTo(v)' |-> orders'[p].total]
    <2>1. f \in [CreditedTo(v) -> Nat] /\ g \in [CreditedTo(v)' -> Nat]
      BY <1>0 DEF ColumnsSound
    <2>2. \A p : PartOf(f, p) = Earned(p, v) /\ PartOf(g, p) = Earned(p, v)'
      BY DEF PartOf, Earned
    <2>3. \A p \in CreditedTo(v) \cup CreditedTo(v)' : PartOf(f, p) = PartOf(g, p)
      BY <1>0, <2>2 DEF SameInBooks, ColumnsSound
    <2>4. SumOf(f) = SumOf(g)
      <3> HIDE DEF f, g
      <3> QED
        BY <2>1, <2>3, SumSame
    <2> QED
      BY <2>4 DEF TotalOf
  <1>3. \A c \in Components : SumOf(TakenColumn(c))' = SumOf(TakenColumn(c))
    <2> SUFFICES ASSUME NEW c \in Components
                 PROVE  SumOf(TakenColumn(c))' = SumOf(TakenColumn(c))
      OBVIOUS
    <2> DEFINE f == TakenColumn(c)
               g == TakenColumn(c)'
    <2>1. f \in [Reserving -> Nat] /\ g \in [Reserving' -> Nat]
      BY <1>0 DEF ColumnsSound
    <2>2. \A p : PartOf(f, p) = Taken(p, c) /\ PartOf(g, p) = Taken(p, c)'
      BY DEF PartOf, Taken, TakenColumn
    <2>3. \A p \in Reserving \cup Reserving' : PartOf(f, p) = PartOf(g, p)
      BY <1>0, <2>2 DEF SameInBooks, ColumnsSound
    <2>4. SumOf(f) = SumOf(g)
      <3> HIDE DEF f, g
      <3> QED
        BY <2>1, <2>3, SumSame
    <2> QED
      BY <2>4
  <1>4. AccountsBalance'
    BY <1>1, <1>2 DEF Books, AccountsBalance
  <1>5. StockConserved'
    <2> SUFFICES ASSUME NEW c \in Components
                 PROVE  stock'[c] + SumOf(TakenColumn(c))' = InitialStock + adjusted'[c]
      BY DEF StockConserved, TakenColumn
    <2>1. stock[c] + SumOf(TakenColumn(c)) = InitialStock + adjusted[c]
      BY DEF Books, StockConserved, TakenColumn
    <2> QED
      BY <1>0, <1>3, <2>1, FundsAssumption DEF BooksNat
  <1> QED
    BY <1>4, <1>5 DEF Books

(* One order counts for more or less, and its wallet, balance and shelves  *)
(* follow by as much: the books balance again.                             *)
LEMMA BooksFollow ==
  ASSUME TypeOK, TypeOK', Books, NEW o \in OrderIds,
         \A p \in OrderIds \ {o} : SameInBooks(p),
         UNCHANGED adjusted,
         \A s \in Students : wallet'[s] + Paid(o, s)' = wallet[s] + Paid(o, s),
         \A v \in Vendors : balance'[v] + Earned(o, v) = balance[v] + Earned(o, v)',
         \A c \in Components : stock'[c] + Taken(o, c)' = stock[c] + Taken(o, c)
  PROVE  Books'
  <1>0. BooksNat /\ BooksNat'
    BY BooksTyped, PTL
  <1>1. \A s \in Students : wallet'[s] + TotalOf(PaidBy(s))' = InitialWallet
    <2> SUFFICES ASSUME NEW s \in Students
                 PROVE  wallet'[s] + TotalOf(PaidBy(s))' = InitialWallet
      OBVIOUS
    <2>1. wallet[s] + TotalOf(PaidBy(s)) = InitialWallet
      BY DEF Books, AccountsBalance
    <2>2. TotalOf(PaidBy(s))' + Paid(o, s) = TotalOf(PaidBy(s)) + Paid(o, s)'
      BY SumsMove
    <2>3. /\ wallet[s] \in Nat /\ wallet'[s] \in Nat
          /\ TotalOf(PaidBy(s)) \in Nat /\ TotalOf(PaidBy(s))' \in Nat
          /\ Paid(o, s) \in Nat /\ Paid(o, s)' \in Nat
      BY <1>0 DEF BooksNat
    <2> QED
      BY <2>1, <2>2, <2>3, FundsAssumption
  <1>2. \A v \in Vendors : balance'[v] = TotalOf(CreditedTo(v))'
    <2> SUFFICES ASSUME NEW v \in Vendors
                 PROVE  balance'[v] = TotalOf(CreditedTo(v))'
      OBVIOUS
    <2>1. balance[v] = TotalOf(CreditedTo(v))
      BY DEF Books, AccountsBalance
    <2>2. TotalOf(CreditedTo(v))' + Earned(o, v) = TotalOf(CreditedTo(v)) + Earned(o, v)'
      BY SumsMove
    <2>3. /\ balance[v] \in Nat /\ balance'[v] \in Nat
          /\ TotalOf(CreditedTo(v)) \in Nat /\ TotalOf(CreditedTo(v))' \in Nat
          /\ Earned(o, v) \in Nat /\ Earned(o, v)' \in Nat
      BY <1>0 DEF BooksNat
    <2>4. balance'[v] + Earned(o, v) = balance[v] + Earned(o, v)'
      OBVIOUS
    <2> HIDE DEF Earned
    <2> QED
      BY ONLY <2>1, <2>2, <2>3, <2>4
  <1>3. \A c \in Components :
            stock'[c] + SumOf(TakenColumn(c))' = InitialStock + adjusted'[c]
    <2> SUFFICES ASSUME NEW c \in Components
                 PROVE  stock'[c] + SumOf(TakenColumn(c))' = InitialStock + adjusted'[c]
      OBVIOUS
    <2>1. stock[c] + SumOf(TakenColumn(c)) = InitialStock + adjusted[c]
      BY DEF Books, StockConserved, TakenColumn
    <2>2. SumOf(TakenColumn(c))' + Taken(o, c) = SumOf(TakenColumn(c)) + Taken(o, c)'
      BY SumsMove
    <2>3. /\ stock[c] \in Nat /\ stock'[c] \in Nat /\ adjusted[c] \in Int
          /\ SumOf(TakenColumn(c)) \in Nat /\ SumOf(TakenColumn(c))' \in Nat
          /\ Taken(o, c) \in Nat /\ Taken(o, c)' \in Nat
      BY <1>0 DEF BooksNat
    <2> QED
      BY <2>1, <2>2, <2>3, FundsAssumption
  <1> QED
    BY <1>1, <1>2, <1>3 DEF Books, AccountsBalance, StockConserved, TakenColumn

LEMMA CommitCreateBooks ==
  ASSUME TypeInv, TypeInv', Books, NEW r \in Requests, NEW o \in OrderIds,
         CommitCreate(r, o)
  PROVE  Books'
  <1> DEFINE q == request[r]
  <1>1. q \in [op : {"locked"}, student : Students, vendor : Vendors,
               need : [Components -> Nat], total : Totals, number : Numbers]
    BY RequestKinds DEF CommitCreate, TypeInv
  <1>2. /\ orders[o] = NoOrder /\ orders'[o] # NoOrder
        /\ orders'[o].student = q.student /\ orders'[o].total = q.total
        /\ orders'[o].status = "CONFIRMED" /\ orders'[o].reserved = q.need
        /\ \A p \in OrderIds \ {o} : orders'[p] = orders[p]
    BY CreatedRow
  <1>3. \A p \in OrderIds \ {o} : SameInBooks(p)
    BY <1>2, RowSame
  <1>4. UNCHANGED <<adjusted, balance>>
    BY DEF CommitCreate
  <1>5. \A s \in Students : wallet'[s] + Paid(o, s)' = wallet[s] + Paid(o, s)
    <2> SUFFICES ASSUME NEW s \in Students
                 PROVE  wallet'[s] + Paid(o, s)' = wallet[s] + Paid(o, s)
      OBVIOUS
    <2>1. Paid(o, s) = 0 /\ Paid(o, s)' = IF s = q.student THEN q.total ELSE 0
      BY <1>2 DEF Paid, PaidBy, Existing
    <2>2. wallet'[s] = IF s = q.student THEN wallet[s] - q.total ELSE wallet[s]
      BY DEF CommitCreate, TypeInv, TypeOK
    <2>3. wallet[s] \in Nat /\ q.total \in Nat
      BY <1>1, TotalsAssumption DEF TypeInv, TypeOK
    <2> QED
      BY <2>1, <2>2, <2>3
  <1>6. \A v \in Vendors : balance'[v] + Earned(o, v) = balance[v] + Earned(o, v)'
    <2> SUFFICES ASSUME NEW v \in Vendors
                 PROVE  balance'[v] + Earned(o, v) = balance[v] + Earned(o, v)'
      OBVIOUS
    <2>1. Earned(o, v) = 0 /\ Earned(o, v)' = 0
      BY <1>2 DEF Earned, CreditedTo, OrdersOf, Existing
    <2> QED
      BY <1>4, <2>1
  <1>7. \A c \in Components : stock'[c] + Taken(o, c)' = stock[c] + Taken(o, c)
    <2> SUFFICES ASSUME NEW c \in Components
                 PROVE  stock'[c] + Taken(o, c)' = stock[c] + Taken(o, c)
      OBVIOUS
    <2>1. Taken(o, c) = 0 /\ Taken(o, c)' = q.need[c]
      BY <1>2 DEF Taken, Reserving, Existing
    <2>2. stock'[c] = stock[c] - q.need[c]
      BY DEF CommitCreate
    <2>3. stock[c] \in Nat /\ q.need[c] \in Nat
      BY <1>1 DEF TypeInv, TypeOK
    <2> QED
      BY <2>1, <2>2, <2>3
  <1> QED
    BY <1>3, <1>4, <1>5, <1>6, <1>7, BooksFollow DEF TypeInv

LEMMA CommitUpdateBooks ==
  ASSUME TypeInv, TypeInv', Books, NEW r \in Requests, CommitUpdate(r),
         NEW o \in OrderIds, o = request[r].order
  PROVE  Books'
  <1> DEFINE q == request[r]
             row == orders[o]
  <1>1. /\ row \in OrderRow /\ row # NoOrder /\ orders'[o] # NoOrder
        /\ row.status = q.from /\ orders'[o].status = q.to
        /\ SameParties(row, orders'[o])
        /\ \A p \in OrderIds \ {o} : orders'[p] = orders[p]
    <2>1. /\ orders[o] \in OrderRow /\ orders'[o] # NoOrder
          /\ row.status = request[r].from /\ SameParties(row, orders'[o])
          /\ orders'[o].status = request[r].to
          /\ \A p \in OrderIds \ {o} : orders'[p] = orders[p]
      BY UpdatedRow
    <2> QED
      BY <2>1, NoOrderAssumption, SMTT(30)
  <1>2. q.to = NextStatus(q.from) /\ q.to \in Statuses /\ q.from \in Statuses
    BY RequestKinds DEF CommitUpdate, RequestsSound, TypeInv
  <1>3. \A p \in OrderIds \ {o} : SameInBooks(p)
    BY <1>1, RowSame
  <1>4. UNCHANGED <<adjusted, wallet, stock>>
    BY DEF CommitUpdate
  <1>5. q.from # "CANCELLED" /\ q.to # "CANCELLED"
    BY <1>2 DEF NextStatus, Statuses
  <1>6. \A s \in Students : wallet'[s] + Paid(o, s)' = wallet[s] + Paid(o, s)
    BY <1>1, <1>4, <1>5 DEF Paid, PaidBy, Existing, SameParties
  <1>7. \A c \in Components : stock'[c] + Taken(o, c)' = stock[c] + Taken(o, c)
    BY <1>1, <1>4, <1>5 DEF Taken, Reserving, Existing, SameParties
  <1>8. \A v \in Vendors : balance'[v] + Earned(o, v) = balance[v] + Earned(o, v)'
    <2> SUFFICES ASSUME NEW v \in Vendors
                 PROVE  balance'[v] + Earned(o, v) = balance[v] + Earned(o, v)'
      OBVIOUS
    <2>1. /\ Earned(o, v) = IF row.vendor = v /\ q.from \in {"READY", "RECEIVED"}
                              THEN row.total ELSE 0
          /\ Earned(o, v)' = IF row.vendor = v /\ q.to \in {"READY", "RECEIVED"}
                              THEN row.total ELSE 0
      BY <1>1 DEF Earned, CreditedTo, OrdersOf, Existing, SameParties
    <2>2. row.total \in Nat /\ balance[v] \in Nat
      BY <1>1 DEF OrderRow, TypeInv, TypeOK
    <2>3. CASE q.to = "READY"
      <3>1. q.from = "IN_PREPARATION"
        BY <1>2, <2>3, SMTT(30) DEF NextStatus, Statuses
      <3>2. balance' = [balance EXCEPT ![row.vendor] = @ + row.total]
        BY <2>3 DEF CommitUpdate
      <3>3. balance'[v] = IF row.vendor = v THEN balance[v] + row.total ELSE balance[v]
        BY <3>2 DEF TypeInv, TypeOK
      <3> QED
        BY <2>1, <2>2, <2>3, <3>1, <3>3
    <2>4. CASE q.to # "READY"
      <3>1. q.from \in {"READY", "RECEIVED"} <=> q.to \in {"READY", "RECEIVED"}
        BY <1>2, <2>4 DEF NextStatus, Statuses
      <3>2. UNCHANGED balance
        BY <2>4 DEF CommitUpdate
      <3> QED
        BY <2>1, <3>1, <3>2
    <2> QED
      BY <2>3, <2>4
  <1> QED
    BY <1>3, <1>4, <1>6, <1>7, <1>8, BooksFollow DEF TypeInv

LEMMA CommitCancelBooks ==
  ASSUME TypeInv, TypeInv', Books, NEW r \in Requests, CommitCancel(r),
         NEW o \in OrderIds, o = request[r].order
  PROVE  Books'
  <1> DEFINE row == orders[o]
  <1>1. /\ row \in OrderRow /\ row # NoOrder /\ orders'[o] # NoOrder
        /\ row.status = request[r].from /\ orders'[o].status = "CANCELLED"
        /\ SameParties(row, orders'[o])
        /\ \A p \in OrderIds \ {o} : orders'[p] = orders[p]
    <2>1. /\ orders[o] \in OrderRow /\ orders'[o] # NoOrder
          /\ row.status = request[r].from /\ SameParties(row, orders'[o])
          /\ orders'[o].status = "CANCELLED"
          /\ \A p \in OrderIds \ {o} : orders'[p] = orders[p]
      BY CancelledRow, ZenonT(30)
    <2> QED
      BY <2>1, NoOrderAssumption
  <1>2. row.status \in {"CONFIRMED", "IN_PREPARATION"}
    BY <1>1, RequestKinds DEF CommitCancel, RequestsSound, CancellableFrom, TypeInv
  <1>3. \A p \in OrderIds \ {o} : SameInBooks(p)
    BY <1>1, RowSame, SMTT(30)
  <1>4. UNCHANGED <<adjusted, balance>>
    BY DEF CommitCancel
  <1>5. \A s \in Students : wallet'[s] + Paid(o, s)' = wallet[s] + Paid(o, s)
    <2> SUFFICES ASSUME NEW s \in Students
                 PROVE  wallet'[s] + Paid(o, s)' = wallet[s] + Paid(o, s)
      OBVIOUS
    <2>1. Paid(o, s)' = 0 /\ Paid(o, s) = IF row.student = s THEN row.total ELSE 0
      BY <1>1, <1>2, SMTT(30) DEF Paid, PaidBy, Existing
    <2>2. wallet'[s] = IF row.student = s THEN wallet[s] + row.total ELSE wallet[s]
      BY DEF CommitCancel, TypeInv, TypeOK
    <2>3. wallet[s] \in Nat /\ row.total \in Nat
      BY <1>1 DEF OrderRow, TypeInv, TypeOK
    <2> QED
      BY <2>1, <2>2, <2>3
  <1>6. \A v \in Vendors : balance'[v] + Earned(o, v) = balance[v] + Earned(o, v)'
    <2> SUFFICES ASSUME NEW v \in Vendors
                 PROVE  balance'[v] + Earned(o, v) = balance[v] + Earned(o, v)'
      OBVIOUS
    <2>1. Earned(o, v) = 0 /\ Earned(o, v)' = 0
      BY <1>1, <1>2 DEF Earned, CreditedTo, OrdersOf, Existing
    <2> QED
      BY <1>4, <2>1
  <1>7. \A c \in Components : stock'[c] + Taken(o, c)' = stock[c] + Taken(o, c)
    <2> SUFFICES ASSUME NEW c \in Components
                 PROVE  stock'[c] + Taken(o, c)' = stock[c] + Taken(o, c)
      OBVIOUS
    <2>1. Taken(o, c)' = 0 /\ Taken(o, c) = row.reserved[c]
      BY <1>1, <1>2, SMTT(30) DEF Taken, Reserving, Existing
    <2>2. stock'[c] = stock[c] + row.reserved[c]
      BY DEF CommitCancel, Restored
    <2>3. stock[c] \in Nat /\ row.reserved[c] \in Nat
      BY <1>1 DEF OrderRow, TypeInv, TypeOK
    <2> QED
      BY <2>1, <2>2, <2>3
  <1> QED
    BY <1>3, <1>4, <1>5, <1>6, <1>7, BooksFollow DEF TypeInv

(* What a canteen adds or removes by hand is in adjusted. *)
LEMMA CanteenWritesBooks ==
  ASSUME TypeInv, TypeInv', Books, CanteenWrites
  PROVE  Books'
  <1>1. UNCHANGED <<orders, wallet, balance>>
    BY DEF CanteenWrites, AddStock, RemoveStock, SetCatalog, SetCapacity, SetActive
  <1>2. \A c \in Components : stock'[c] - adjusted'[c] = stock[c] - adjusted[c]
    <2> SUFFICES ASSUME NEW c \in Components
                 PROVE  stock'[c] - adjusted'[c] = stock[c] - adjusted[c]
      OBVIOUS
    <2>1. stock[c] \in Nat /\ adjusted[c] \in Int
      BY DEF TypeInv, TypeOK
    <2>2. ASSUME NEW d \in Components, NEW units \in StockMoves,
                 AddStock(d, units) \/ RemoveStock(d, units)
          PROVE  stock'[c] - adjusted'[c] = stock[c] - adjusted[c]
      <3>1. units \in Nat
        BY FundsAssumption
      <3>2. \/ stock'[c] = stock[c] /\ adjusted'[c] = adjusted[c]
            \/ stock'[c] = stock[c] + units /\ adjusted'[c] = adjusted[c] + units
            \/ stock'[c] = stock[c] - units /\ adjusted'[c] = adjusted[c] - units
        BY <2>2 DEF AddStock, RemoveStock, TypeInv, TypeOK
      <3> QED
        BY <2>1, <3>1, <3>2
    <2>3. ASSUME UNCHANGED <<stock, adjusted>>
          PROVE  stock'[c] - adjusted'[c] = stock[c] - adjusted[c]
      BY <2>3
    <2> QED
      BY <2>2, <2>3 DEF CanteenWrites, SetCatalog, SetCapacity, SetActive
  <1>3. \A o \in OrderIds : SameInBooks(o)
    BY <1>1, RowSame
  <1> QED
    BY <1>1, <1>2, <1>3, BooksStill DEF TypeInv

LEMMA NextBooks == TypeInv /\ TypeInv' /\ Books /\ [Next]_vars => Books'
  <1> SUFFICES ASSUME TypeInv, TypeInv', Books, [Next]_vars PROVE Books'
    OBVIOUS
  <1>1. ASSUME UNCHANGED <<wallet, balance, stock, adjusted>>,
               \A o \in OrderIds : SameInBooks(o)
        PROVE  Books'
    BY <1>1, BooksStill DEF TypeInv
  <1>2. ASSUME UNCHANGED <<orders, wallet, balance, stock, adjusted>> PROVE Books'
    BY <1>1, <1>2, RowSame
  <1>3. ASSUME NEW r \in Requests, Arrive(r) PROVE Books'
    BY <1>2, <1>3 DEF Arrive, ReadForCreate, ReadForUpdate, ReadForCancel, tables
  <1>4. ASSUME NEW r \in Requests, Continue(r) PROVE Books'
    <2>1. CASE \E o \in OrderIds : CommitCreate(r, o)
      BY <2>1, CommitCreateBooks
    <2>2. CASE CommitUpdate(r)
      <3>1. PICK o \in OrderIds : o = request[r].order
        BY <1>4, <2>2, RequestKinds, SMTT(30) DEF CommitUpdate, TypeInv
      <3> QED
        BY <2>2, <3>1, CommitUpdateBooks
    <2>3. CASE CommitCancel(r)
      <3>1. PICK o \in OrderIds : o = request[r].order
        BY <1>4, <2>3, RequestKinds DEF CommitCancel, TypeInv
      <3> QED
        BY <2>3, <3>1, CommitCancelBooks
    <2>4. CASE LockCanteen(r) \/ RefuseNumber(r) \/ RefuseCreate(r) \/ LoseClaim(r)
      BY <1>2, <2>4 DEF LockCanteen, RefuseNumber, RefuseCreate, LoseClaim, tables
    <2> QED
      BY <1>4, <2>1, <2>2, <2>3, <2>4 DEF Continue
  <1>5. ASSUME NEW r \in Requests, Abort(r) PROVE Books'
    BY <1>2, <1>5 DEF Abort, tables
  <1>6. CASE CanteenWrites
    BY <1>6, CanteenWritesBooks
  <1>7. CASE FlagUnclaimed
    <2>1. UNCHANGED <<wallet, balance, stock, adjusted>>
      BY <1>7 DEF FlagUnclaimed
    <2>2. ASSUME NEW o \in OrderIds PROVE SameInBooks(o)
      <3>1. \/ orders'[o] = orders[o]
            \/ /\ orders[o] \in OrderRow
               /\ orders'[o] = [orders[o] EXCEPT !.unclaimed = TRUE]
        BY <1>7 DEF FlagUnclaimed, Existing, TypeInv, TypeOK
      <3>2. CASE orders'[o] = orders[o]
        BY <3>2, RowSame
      <3>3. CASE /\ orders[o] \in OrderRow
                 /\ orders'[o] = [orders[o] EXCEPT !.unclaimed = TRUE]
        <4>1. orders'[o] \in OrderRow /\ orders'[o].status = orders[o].status
          BY <3>3 DEF OrderRow
        <4>2. SameParties(orders[o], orders'[o])
          BY <3>3 DEF OrderRow, SameParties
        <4> QED
          BY <3>3, <4>1, <4>2, RowSame, NoOrderAssumption
      <3> QED
        BY <3>1, <3>2, <3>3
    <2> QED
      BY <1>1, <2>1, <2>2
  <1>8. CASE UNCHANGED vars
    BY <1>2, <1>8 DEF vars, tables
  <1> QED
    BY <1>3, <1>4, <1>5, <1>6, <1>7, <1>8 DEF Next

LEMMA InitBooks == Init => Books
  <1> SUFFICES ASSUME Init PROVE Books
    OBVIOUS
  <1>1. /\ \A s \in Students : PaidBy(s) = {}
        /\ \A v \in Vendors : CreditedTo(v) = {}
        /\ Reserving = {}
    BY DEF Init, PaidBy, CreditedTo, OrdersOf, Reserving, Existing
  <1>2. /\ \A s \in Students : TotalOf(PaidBy(s)) = 0
        /\ \A v \in Vendors : TotalOf(CreditedTo(v)) = 0
        /\ \A c \in Components : SumOf(TakenColumn(c)) = 0
    BY <1>1, SumEmpty DEF TotalOf, TakenColumn
  <1> QED
    BY <1>2, FundsAssumption
    DEF Init, Books, AccountsBalance, StockConserved, TakenColumn

LEMMA BooksInvariance == Spec => []Books
  BY InitBooks, NextBooks, TypeInvariance, PTL DEF Spec

(* No ticket appears or is lost, however many students, canteens and       *)
(* orders: a wallet is short of exactly the orders its student paid and    *)
(* did not get back, and a balance is exactly the orders that became       *)
(* READY, whatever createWithinTransaction, update and cancel interleave.  *)
THEOREM TicketsAreConserved == Spec => []AccountsBalance
  BY BooksInvariance, PTL DEF Books

(* No unit is sold twice or lost: the shelf and what the orders still      *)
(* reserve add up to what the canteen stocked.                             *)
THEOREM UnitsAreConserved == Spec => []StockConserved
  BY BooksInvariance, PTL DEF Books

=============================================================================

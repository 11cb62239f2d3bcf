--------------------------- MODULE ScheduledOrders ---------------------------
(***************************************************************************)
(* Scheduled orders (src/src/modules/scheduled-orders) on top of the order *)
(* core: a student programs an order, a cron job executes those whose hour *)
(* has come.                                                               *)
(*                                                                         *)
(* A call of the cron job (a pass) takes a batch of due rows and runs each *)
(* in a transaction of its own: it claims the row, creates the order with  *)
(* the very code of the HTTP creation, links the two.  Passes may overlap, *)
(* may be killed in the middle, and race with the student's cancellation.  *)
(* The slots of Requests are shared: those of Passes are creations made by *)
(* a pass, the others are HTTP requests.                                   *)
(***************************************************************************)
EXTENDS Orders

CONSTANTS
    Jobs,           \* ids of the scheduled orders (a bound)
    Passes,         \* the slots of Requests that belong to cron passes
    MaxPending,     \* pending scheduled orders of one student (5 in the code)
    BatchSize,      \* rows a pass takes (20 in the code)
    MaxFaults,      \* bound on kills and technical errors of the passes
    NoJob

ASSUME PassesAssumption == Passes \subseteq Requests
ASSUME LimitsAssumption == MaxPending \in Nat /\ BatchSize \in Nat /\ MaxFaults \in Nat
ASSUME NoJobAssumption  == NoJob \notin Jobs
ASSUME JobsAssumption   == IsFiniteSet(Jobs)

Http == Requests \ Passes

JobStatuses == {"PENDING", "PLACED", "FAILED", "CANCELLED"}

ScheduledRow ==
    [status : JobStatuses, student : Students, vendor : Vendors, cart : Carts,
     order : OrderIds \cup {NoOrder}]

ASSUME NoRowAssumption == NoOrder \notin ScheduledRow /\ NoOrder \notin OrderIds

NoDraft == [stage |-> "none"]
Off == [stage |-> "off", todo |-> {}, job |-> NoJob]

VARIABLES
    scheduled,  \* table ScheduledOrder: Jobs -> ScheduledRow, or NoOrder
    dueAt,      \* rank at which scheduledFor came, 0 before it comes
    jobLock,    \* the pass whose transaction claimed the row
    studentLock,\* the request that holds User ... FOR UPDATE
    draft,      \* the programming each HTTP request is in the middle of
    pass,       \* where each pass is: its batch, and the row it is at
    origin,     \* history variable: the scheduled order each order comes from
    told,       \* history variable: failure notifications of each row
    faults      \* kills and technical errors so far

scheduledVars == <<scheduled, dueAt, jobLock, studentLock, draft, pass,
                   origin, told, faults>>
allVars == <<vars, scheduledVars>>

Programmed == {j \in Jobs : scheduled[j] # NoOrder}
PendingJobs == {j \in Programmed : scheduled[j].status = "PENDING"}
PendingOf(s) == {j \in PendingJobs : scheduled[j].student = s}

Drafts == {r \in Http : draft[r] # NoDraft}

(* The bounds on OrderIds and Jobs keep an order id for every row that is  *)
(* or may become pending, and a row for every programming under way.       *)
Room == Cardinality(Existing) + Cardinality(InFlightCreations)
            + Cardinality(PendingJobs) + Cardinality(Drafts) < Cardinality(OrderIds)
RoomForJob == Cardinality(Programmed) + Cardinality(Drafts) < Cardinality(Jobs)

(***************************************************************************)
(* The requests of the order core, with the lock of the student's row that *)
(* a debit and a refund (UPDATE "User") wait for.                          *)
(***************************************************************************)

StudentFree(s) == studentLock[s] = NoRequest

(* What comes before the debit or the refund held, and its row is free. *)
MayWriteStudent(r) ==
    LET q == request[r] IN
    /\ q.op = "locked" /\ CanDeduct(q.need) => StudentFree(q.student)
    /\ q.op = "cancel" /\ ClaimHolds(q.order, q.from) =>
            StudentFree(orders[q.order].student)

(* POST /orders refuses a BUSY canteen. *)
HttpArrive(r) ==
    /\ draft[r] = NoDraft
    /\ Arrive(r)
    /\ request'[r].op = "create" =>
            Room /\ capacity[request'[r].vendor] = "OPEN"
    /\ UNCHANGED scheduledVars

HttpContinue(r) == MayWriteStudent(r) /\ Continue(r) /\ UNCHANGED scheduledVars

HttpAbort(r) == Abort(r) /\ UNCHANGED scheduledVars

Surroundings == (CanteenWrites \/ FlagUnclaimed) /\ UNCHANGED scheduledVars

(***************************************************************************)
(* ScheduledOrdersService.create: three steps of an HTTP request.          *)
(***************************************************************************)

(* The canteen is active and not closed; the articles exist and are its    *)
(* own.  Neither stock, nor availability, nor wallet are looked at.        *)
ReadForProgram(r, s, v, cart) ==
    /\ request[r] = Idle /\ draft[r] = NoDraft
    /\ RoomForJob /\ Room
    /\ active[v]
    /\ capacity[v] # "CLOSED"
    /\ \A c \in Components :
          cart.need[c] > 0 => Canteen[c] = v /\ catalog[c] # "DELETED"
    /\ draft' = [draft EXCEPT ![r] =
            [stage |-> "read", student |-> s, vendor |-> v, cart |-> cart]]
    /\ UNCHANGED <<vars, scheduled, dueAt, jobLock, studentLock, pass, origin,
                   told, faults>>

MayLockStudentMutant(s) == TRUE

MayLockStudent(s) == StudentFree(s)

(* SELECT ... FOR UPDATE on the student, then the count of pending rows. *)
LockStudent(r) ==
    /\ draft[r].stage = "read"
    /\ LET s == draft[r].student IN
        /\ MayLockStudent(s)
        /\ Cardinality(PendingOf(s)) < MaxPending
        /\ studentLock' = [studentLock EXCEPT ![s] = r]
        /\ draft' = [draft EXCEPT ![r] =
                [stage |-> "counted", student |-> s,
                 vendor |-> draft[r].vendor, cart |-> draft[r].cart]]
    /\ UNCHANGED <<vars, scheduled, dueAt, jobLock, pass, origin, told, faults>>

RefuseCap(r) ==
    /\ draft[r].stage = "read"
    /\ MayLockStudent(draft[r].student)
    /\ Cardinality(PendingOf(draft[r].student)) >= MaxPending
    /\ draft' = [draft EXCEPT ![r] = NoDraft]
    /\ UNCHANGED <<vars, scheduled, dueAt, jobLock, studentLock, pass, origin,
                   told, faults>>

(* The foreign key of the inserted row shares the lock of the canteen's    *)
(* row: the insertion waits while a creation holds it.                     *)
CommitProgram(r, j) ==
    LET d == draft[r] IN
    /\ d.stage = "counted"
    /\ scheduled[j] = NoOrder
    /\ RowFree(d.vendor)
    /\ scheduled' = [scheduled EXCEPT ![j] =
            [status |-> "PENDING", student |-> d.student, vendor |-> d.vendor,
             cart |-> d.cart, order |-> NoOrder]]
    /\ studentLock' = [studentLock EXCEPT ![d.student] = NoRequest]
    /\ draft' = [draft EXCEPT ![r] = NoDraft]
    /\ UNCHANGED <<vars, dueAt, jobLock, pass, origin, told, faults>>

AbortProgram(r) ==
    /\ draft[r] # NoDraft
    /\ studentLock' = [s \in Students |->
            IF studentLock[s] = r THEN NoRequest ELSE studentLock[s]]
    /\ draft' = [draft EXCEPT ![r] = NoDraft]
    /\ UNCHANGED <<vars, scheduled, dueAt, jobLock, pass, origin, told, faults>>

(***************************************************************************)
(* ScheduledOrdersService.cancel, one UPDATE, and the clock.               *)
(***************************************************************************)

StudentMayCancel(j) == scheduled[j].status = "PENDING"

CancelScheduled(j) ==
    /\ j \in Programmed
    /\ jobLock[j] = NoRequest
    /\ StudentMayCancel(j)
    /\ scheduled' = [scheduled EXCEPT ![j].status = "CANCELLED"]
    /\ UNCHANGED <<vars, dueAt, jobLock, studentLock, draft, pass, origin, told,
                   faults>>

(* scheduledFor <= now(), from here on. *)
BecomeDue(j) ==
    /\ j \in Programmed
    /\ dueAt[j] = 0
    /\ dueAt' = [dueAt EXCEPT ![j] = 1 + Cardinality({k \in Jobs : dueAt[k] > 0})]
    /\ UNCHANGED <<vars, scheduled, jobLock, studentLock, draft, pass, origin,
                   told, faults>>

(***************************************************************************)
(* ScheduledOrdersService.executeDue and executeOne.                       *)
(***************************************************************************)

DueJobs == {j \in PendingJobs : dueAt[j] > 0}

(* ORDER BY scheduledFor LIMIT BatchSize *)
Batch == {j \in DueJobs : Cardinality({k \in DueJobs : dueAt[k] < dueAt[j]}) < BatchSize}

StartPass(p) ==
    /\ pass[p] = Off
    /\ Batch # {}
    /\ pass' = [pass EXCEPT ![p] = [stage |-> "next", todo |-> Batch, job |-> NoJob]]
    /\ UNCHANGED <<vars, scheduled, dueAt, jobLock, studentLock, draft, origin,
                   told, faults>>

At(p, stage) == pass[p].stage = stage

(* The rows of the batch are taken from the oldest on. *)
IsNext(p, j) == /\ j \in pass[p].todo
                /\ \A k \in pass[p].todo : dueAt[j] <= dueAt[k]

GoTo(p, stage) == [pass EXCEPT ![p].stage = stage]

(* The row is done with: on to the next one, if there is one. *)
DoneWith(p, j) ==
    [pass EXCEPT ![p] =
        IF pass[p].todo = {j} THEN Off
        ELSE [stage |-> "next", todo |-> pass[p].todo \ {j}, job |-> NoJob]]

ClaimableMutant(j) == scheduled[j].status # "CANCELLED"

Claimable(j) == scheduled[j].status = "PENDING"

(* UPDATE ... WHERE status = 'PENDING': it waits for another pass that     *)
(* claimed the row, then looks at the row that pass left.                  *)
Claim(p, j) ==
    /\ At(p, "next") /\ IsNext(p, j)
    /\ jobLock[j] = NoRequest
    /\ Claimable(j)
    /\ jobLock' = [jobLock EXCEPT ![j] = p]
    /\ pass' = [pass EXCEPT ![p].stage = "claimed", ![p].job = j]
    /\ UNCHANGED <<vars, scheduled, dueAt, studentLock, draft, origin, told, faults>>

Skip(p, j) ==
    /\ At(p, "next") /\ IsNext(p, j)
    /\ jobLock[j] = NoRequest
    /\ ~Claimable(j)
    /\ pass' = DoneWith(p, j)
    /\ UNCHANGED <<vars, scheduled, dueAt, jobLock, studentLock, draft, origin,
                   told, faults>>

ReadJobMutant(p, total) ==
    /\ At(p, "claimed")
    /\ request[p] = Idle
    /\ LET row == scheduled[pass[p].job] IN
            request' = [request EXCEPT ![p] =
                [op |-> "create", student |-> row.student, vendor |-> row.vendor,
                 need |-> row.cart.need, total |-> total]]
    /\ pass' = GoTo(p, "creating")
    /\ UNCHANGED <<tables, canteenLock, scheduled, dueAt, jobLock, studentLock,
                   draft, origin, told, faults>>

(* createWithinTransaction, with acceptBusy, at the prices of the moment. *)
ReadJob(p, total) ==
    /\ At(p, "claimed")
    /\ LET row == scheduled[pass[p].job] IN
            ReadForCreate(p, row.student, row.vendor, row.cart, total, TRUE)
    /\ pass' = GoTo(p, "creating")
    /\ UNCHANGED <<scheduled, dueAt, jobLock, studentLock, draft, origin, told, faults>>

PassLocks(p) ==
    /\ At(p, "creating")
    /\ LockCanteen(p)
    /\ UNCHANGED scheduledVars

RollbackMutant(p) ==
    /\ pass' = GoTo(p, "failing")
    /\ UNCHANGED <<scheduled, dueAt, jobLock, studentLock, draft, origin, told>>

(* The transaction is rolled back, the claim included. *)
Rollback(p) ==
    /\ jobLock' = [jobLock EXCEPT ![pass[p].job] = NoRequest]
    /\ pass' = GoTo(p, "failing")
    /\ UNCHANGED <<scheduled, dueAt, studentLock, draft, origin, told>>

RejectJob(p) ==
    /\ At(p, "claimed")
    /\ LET row == scheduled[pass[p].job] IN ~Orderable(row.vendor, row.cart, TRUE)
    /\ Rollback(p)
    /\ UNCHANGED <<vars, faults>>

RefuseJob(p) ==
    /\ At(p, "creating")
    /\ MayWriteStudent(p)
    /\ RefuseNumber(p) \/ RefuseCreate(p)
    /\ Rollback(p)
    /\ UNCHANGED faults

(* The order is created, the row is PLACED and linked to it: one COMMIT. *)
Place(p, o) ==
    LET j == pass[p].job IN
    /\ At(p, "creating")
    /\ MayWriteStudent(p)
    /\ CommitCreate(p, o)
    /\ scheduled' = [scheduled EXCEPT ![j].status = "PLACED", ![j].order = o]
    /\ origin' = [origin EXCEPT ![o] = j]
    /\ jobLock' = [jobLock EXCEPT ![j] = NoRequest]
    /\ pass' = DoneWith(p, j)
    /\ UNCHANGED <<dueAt, studentLock, draft, told, faults>>

StillPendingMutant(j) == scheduled[j].status # "PLACED"

StillPending(j) == scheduled[j].status = "PENDING"

(* FAILED, outside the transaction, if the row is still pending; only then *)
(* is the student told, if the process lives and the message goes through. *)
MarkFailed(p, sent) ==
    LET j == pass[p].job IN
    /\ At(p, "failing")
    /\ jobLock[j] = NoRequest
    /\ StillPending(j)
    /\ scheduled' = [scheduled EXCEPT ![j].status = "FAILED"]
    /\ told' = [told EXCEPT ![j] = IF sent THEN @ + 1 ELSE @]
    /\ pass' = DoneWith(p, j)
    /\ UNCHANGED <<vars, dueAt, jobLock, studentLock, draft, origin, faults>>

LoseMark(p) ==
    /\ At(p, "failing")
    /\ jobLock[pass[p].job] = NoRequest
    /\ ~StillPending(pass[p].job)
    /\ pass' = DoneWith(p, pass[p].job)
    /\ UNCHANGED <<vars, scheduled, dueAt, jobLock, studentLock, draft, origin,
                   told, faults>>

(***************************************************************************)
(* What goes wrong.                                                        *)
(***************************************************************************)

(* The bound on faults, which the code does not have. *)
OneFault == faults < MaxFaults /\ faults' = faults + 1

DropRequest(p) == IF request[p] = Idle THEN UNCHANGED vars ELSE Abort(p)

(* Lost connection or transaction timeout: caught, then marked FAILED. *)
TechnicalError(p) ==
    /\ OneFault
    /\ At(p, "claimed") \/ At(p, "creating")
    /\ DropRequest(p)
    /\ Rollback(p)

(* The database cannot be reached to mark the row: it stays PENDING. *)
LeavePending(p) ==
    /\ OneFault
    /\ At(p, "failing")
    /\ pass' = DoneWith(p, pass[p].job)
    /\ UNCHANGED <<vars, scheduled, dueAt, jobLock, studentLock, draft, origin, told>>

(* The process of the pass is killed (30 seconds at most). *)
Kill(p) ==
    /\ OneFault
    /\ pass[p] # Off
    /\ DropRequest(p)
    /\ jobLock' = [j \in Jobs |-> IF jobLock[j] = p THEN NoRequest ELSE jobLock[j]]
    /\ pass' = [pass EXCEPT ![p] = Off]
    /\ UNCHANGED <<scheduled, dueAt, studentLock, draft, origin, told>>

(* A programming holds its student and wants its canteen's row; a creation *)
(* for that student holds the canteen and wants the student's row.         *)
Deadlocked(r, q) ==
    /\ draft[r].stage = "counted"
    /\ request[q].op = "locked"
    /\ request[q].vendor = draft[r].vendor
    /\ request[q].student = draft[r].student
    /\ CanDeduct(request[q].need)

(* PostgreSQL detects the cycle and rolls one of the two back. *)
BreakDeadlock(r, q) ==
    /\ Deadlocked(r, q)
    /\ \/ AbortProgram(r)
       \/ q \in Http /\ HttpAbort(q)
       \/ q \in Passes /\ Abort(q) /\ Rollback(q) /\ UNCHANGED faults

-----------------------------------------------------------------------------

ScheduledInit ==
    /\ Init
    /\ scheduled = [j \in Jobs |-> NoOrder]
    /\ dueAt = [j \in Jobs |-> 0]
    /\ jobLock = [j \in Jobs |-> NoRequest]
    /\ studentLock = [s \in Students |-> NoRequest]
    /\ draft = [r \in Http |-> NoDraft]
    /\ pass = [p \in Passes |-> Off]
    /\ origin = [o \in OrderIds |-> NoJob]
    /\ told = [j \in Jobs |-> 0]
    /\ faults = 0

ContinueProgram(r) ==
    \/ LockStudent(r)
    \/ RefuseCap(r)
    \/ \E j \in Jobs : CommitProgram(r, j)

ContinuePass(p) ==
    \/ \E j \in Jobs : Claim(p, j) \/ Skip(p, j)
    \/ \E total \in Totals : ReadJob(p, total)
    \/ PassLocks(p)
    \/ RejectJob(p)
    \/ RefuseJob(p)
    \/ \E o \in OrderIds : Place(p, o)
    \/ \E sent \in BOOLEAN : MarkFailed(p, sent)
    \/ LoseMark(p)

HttpStep(r) ==
    \/ HttpArrive(r) \/ HttpContinue(r) \/ HttpAbort(r)
    \/ \E s \in Students, v \in Vendors, cart \in Carts : ReadForProgram(r, s, v, cart)
    \/ ContinueProgram(r)
    \/ AbortProgram(r)

PassStep(p) ==
    \/ StartPass(p) \/ ContinuePass(p)
    \/ TechnicalError(p) \/ LeavePending(p) \/ Kill(p)

ScheduledNext ==
    \/ \E r \in Http : HttpStep(r)
    \/ \E p \in Passes : PassStep(p)
    \/ \E r \in Http, q \in Requests : BreakDeadlock(r, q)
    \/ \E j \in Jobs : CancelScheduled(j) \/ BecomeDue(j)
    \/ Surroundings

ScheduledSpec == ScheduledInit /\ [][ScheduledNext]_allVars

(* The workflow that calls the cron job keeps calling it; PostgreSQL grants *)
(* a row lock to its waiters in the order they asked for it, so a call that *)
(* can go on again and again does unless its process dies, and it breaks    *)
(* deadlocks.  Nobody has to program, order or cancel, but every hour comes. *)
ScheduledFairness ==
    /\ \A r \in Http : /\ SF_allVars(HttpContinue(r))
                       /\ SF_allVars(ContinueProgram(r))
    /\ \A p \in Passes : SF_allVars(ContinuePass(p))
    /\ WF_allVars(\E p \in Passes : StartPass(p))
    /\ \A r \in Http, q \in Requests : WF_allVars(BreakDeadlock(r, q))
    /\ \A j \in Jobs : WF_allVars(BecomeDue(j))

ScheduledLiveSpec == ScheduledSpec /\ ScheduledFairness

-----------------------------------------------------------------------------
(***************************************************************************)
(* Properties.                                                             *)
(***************************************************************************)

Draft ==
    [stage : {"none"}]
    \cup [stage : {"read", "counted"}, student : Students, vendor : Vendors,
          cart : Carts]

Pass ==
    [stage : {"off", "next", "claimed", "creating", "failing"},
     todo : SUBSET Jobs, job : Jobs \cup {NoJob}]

(* Who holds what: the student's row is locked exactly by a programming    *)
(* that counted, the row of a scheduled order exactly by the one pass that *)
(* claimed it, and a pass has a creation of the order core under way       *)
(* exactly while it is creating.                                           *)
CallsInStep ==
    /\ \A s \in Students, r \in Http : studentLock[s] = r
            <=> draft[r].stage = "counted" /\ draft[r].student = s
    /\ \A j \in Jobs, p \in Passes : jobLock[j] = p
            <=> pass[p].job = j /\ pass[p].stage \in {"claimed", "creating"}
    /\ \A p \in Passes : request[p] # Idle <=> At(p, "creating")

(* The shape of the rows and of the calls in progress, whose locks are     *)
(* those their stage says they hold.                                       *)
ScheduledTypeOK ==
    /\ scheduled \in [Jobs -> ScheduledRow \cup {NoOrder}]
    /\ dueAt \in [Jobs -> Nat]
    /\ jobLock \in [Jobs -> Passes \cup {NoRequest}]
    /\ studentLock \in [Students -> Http \cup {NoRequest}]
    /\ draft \in [Http -> Draft]
    /\ pass \in [Passes -> Pass]
    /\ origin \in [OrderIds -> Jobs \cup {NoJob}]
    /\ told \in [Jobs -> Nat]
    /\ faults \in 0..MaxFaults
    /\ CallsInStep

(* A scheduled order is executed at most once, whatever passes overlap or  *)
(* are killed: PLACED rows and the orders made by passes are in bijection, *)
(* and each order is the one its row asked for.  No other row, FAILED or   *)
(* cancelled by the student included, ever cost a ticket.                  *)
PlacedOnce ==
    /\ \A j \in Programmed :
          scheduled[j].status = "PLACED" <=> scheduled[j].order # NoOrder
    /\ \A o \in OrderIds, j \in Jobs :
          origin[o] = j <=> scheduled[j] # NoOrder /\ scheduled[j].order = o
    /\ \A j \in Programmed : scheduled[j].order # NoOrder =>
          LET row == scheduled[j]
              order == orders[row.order] IN
          /\ order # NoOrder
          /\ order.student = row.student
          /\ order.vendor = row.vendor
          /\ order.reserved = row.cart.need

(* "Aucun ticket n'a été débité" is said at most once of a row, and only   *)
(* of one that is FAILED, for good, and was never placed.                  *)
ToldOnlyOfFailures ==
    \A j \in Jobs : told[j] > 0 =>
        /\ told[j] = 1
        /\ scheduled[j] # NoOrder
        /\ scheduled[j].status = "FAILED"
        /\ \A o \in OrderIds : origin[o] # j

(* However many programmings are under way, a student never has more       *)
(* pending scheduled orders than the cap.                                  *)
PendingCap == \A s \in Students : Cardinality(PendingOf(s)) <= MaxPending

(* Passes and students who program give the order core nothing it does not *)
(* have to expect from HTTP requests: whatever holds of Orders still holds. *)
ImplementsOrders == Spec

(* Every scheduled order whose hour came ends PLACED, FAILED or CANCELLED. *)
DueIsSettled ==
    \A j \in Jobs : j \in PendingJobs ~> j \in Programmed \ PendingJobs

=============================================================================

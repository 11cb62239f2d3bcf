------------------------ MODULE ScheduledOrdersProofs ------------------------
(***************************************************************************)
(* Proofs about the scheduled orders, for every value of the constants:    *)
(* whatever passes overlap or die, the order core below them goes on as if *)
(* there were only HTTP requests, and a row is executed at most once.      *)
(***************************************************************************)
EXTENDS ScheduledOrders, OrdersProofs, FiniteSetTheorems

(* What a pass knows of the rows of its batch, and of the one it claimed.  *)
PassesSound ==
    \A p \in Passes :
        /\ \A j \in pass[p].todo : scheduled[j] # NoOrder
        /\ pass[p].stage \in {"claimed", "creating", "failing"} =>
                pass[p].job \in pass[p].todo
        /\ pass[p].stage \in {"claimed", "creating"} =>
                scheduled[pass[p].job].status = "PENDING"

CallInv == TypeInv /\ ScheduledTypeOK /\ PassesSound

LEMMA InitCallInv == ScheduledInit => CallInv
  <1> SUFFICES ASSUME ScheduledInit PROVE CallInv
    OBVIOUS
  <1>1. TypeInv
    BY InitTypeInv DEF ScheduledInit
  <1>2. /\ \A r \in Http : draft[r] = NoDraft
        /\ \A p \in Passes : pass[p] = Off /\ request[p] = Idle
    BY PassesAssumption DEF ScheduledInit, Init
  <1>3. CallsInStep
    BY <1>2, NoRequestAssumption, PassesAssumption
       DEF ScheduledInit, CallsInStep, NoDraft, Off, At, Http
  <1>4. NoDraft \in Draft /\ Off \in Pass
    BY DEF NoDraft, Draft, Off, Pass
  <1>5. ScheduledTypeOK
    BY <1>3, <1>4, LimitsAssumption DEF ScheduledInit, ScheduledTypeOK
  <1>6. PassesSound
    BY <1>2 DEF PassesSound, Off
  <1> QED
    BY <1>1, <1>5, <1>6 DEF CallInv

(* The row that a pass is at, once it claimed it. *)
LEMMA ClaimedRow ==
  ASSUME CallInv, NEW p \in Passes, At(p, "claimed") \/ At(p, "creating")
  PROVE  /\ p \in Requests /\ p \notin Http /\ p # NoRequest
         /\ pass[p] \in Pass
         /\ pass[p].job \in Jobs /\ pass[p].job \in pass[p].todo
         /\ jobLock[pass[p].job] = p
         /\ scheduled[pass[p].job] \in ScheduledRow
         /\ scheduled[pass[p].job].status = "PENDING"
  <1>1. pass[p] \in Pass
    BY DEF CallInv, ScheduledTypeOK
  <1>2. pass[p].job \in pass[p].todo /\ pass[p].job \in Jobs
    BY <1>1 DEF CallInv, PassesSound, At, Pass
  <1>3. /\ scheduled[pass[p].job] \in ScheduledRow
        /\ scheduled[pass[p].job].status = "PENDING"
    BY <1>2 DEF CallInv, ScheduledTypeOK, PassesSound, At
  <1>4. jobLock[pass[p].job] = p
    BY <1>2 DEF CallInv, ScheduledTypeOK, CallsInStep, At
  <1> QED
    BY <1>1, <1>2, <1>3, <1>4, PassesAssumption, NoRequestAssumption DEF Http

-----------------------------------------------------------------------------
(***************************************************************************)
(* Every step is a step of the order core, or leaves it alone.             *)
(***************************************************************************)

LEMMA HttpStepIsOrders ==
  ASSUME NEW r \in Http, HttpStep(r)
  PROVE  [Next]_vars
  <1>1. r \in Requests
    BY DEF Http
  <1>2. CASE HttpArrive(r) \/ HttpContinue(r) \/ HttpAbort(r)
    BY <1>1, <1>2 DEF HttpArrive, HttpContinue, HttpAbort, Next
  <1>3. CASE \E s \in Students, v \in Vendors, cart \in Carts : ReadForProgram(r, s, v, cart)
    BY <1>3 DEF ReadForProgram
  <1>4. CASE ContinueProgram(r) \/ AbortProgram(r)
    BY <1>4 DEF ContinueProgram, LockStudent, RefuseCap, CommitProgram, AbortProgram
  <1> QED
    BY <1>2, <1>3, <1>4 DEF HttpStep

LEMMA PassStepIsOrders ==
  ASSUME CallInv, NEW p \in Passes, PassStep(p)
  PROVE  [Next]_vars
  <1>1. p \in Requests
    BY PassesAssumption
  <1>2. ASSUME NEW total \in Totals, ReadJob(p, total) PROVE [Next]_vars
    <2> DEFINE row == scheduled[pass[p].job]
    <2>1. row.student \in Students /\ row.vendor \in Vendors /\ row.cart \in Carts
      BY <1>2, ClaimedRow DEF ReadJob, ScheduledRow
    <2>2. ReadForCreate(p, row.student, row.vendor, row.cart, total, TRUE)
      BY <1>2 DEF ReadJob
    <2>3. Arrive(p)
      BY <2>1, <2>2 DEF Arrive
    <2> QED
      BY <1>1, <2>3 DEF Next
  <1>3. CASE PassLocks(p)
    BY <1>1, <1>3 DEF PassLocks, Next, Continue
  <1>4. CASE RefuseJob(p)
    BY <1>1, <1>4 DEF RefuseJob, Next, Continue
  <1>5. ASSUME NEW o \in OrderIds, Place(p, o) PROVE [Next]_vars
    BY <1>1, <1>5 DEF Place, Next, Continue
  <1>6. CASE \/ StartPass(p) \/ LeavePending(p) \/ LoseMark(p) \/ RejectJob(p)
             \/ \E j \in Jobs : Claim(p, j) \/ Skip(p, j)
             \/ \E sent \in BOOLEAN : MarkFailed(p, sent)
    BY <1>6 DEF StartPass, LeavePending, LoseMark, RejectJob, Claim, Skip, MarkFailed
  <1>7. CASE TechnicalError(p) \/ Kill(p)
    BY <1>1, <1>7 DEF TechnicalError, Kill, DropRequest, Next
  <1> QED
    BY <1>2, <1>3, <1>4, <1>5, <1>6, <1>7 DEF PassStep, ContinuePass

LEMMA ScheduledNextIsOrders ==
  ASSUME CallInv, [ScheduledNext]_allVars
  PROVE  [Next]_vars
  <1>1. ASSUME NEW r \in Http, HttpStep(r) PROVE [Next]_vars
    BY <1>1, HttpStepIsOrders
  <1>2. ASSUME NEW p \in Passes, PassStep(p) PROVE [Next]_vars
    BY <1>2, PassStepIsOrders
  <1>3. ASSUME NEW r \in Http, NEW q \in Requests, BreakDeadlock(r, q) PROVE [Next]_vars
    BY <1>3 DEF BreakDeadlock, AbortProgram, HttpAbort, Next
  <1>4. ASSUME NEW j \in Jobs, CancelScheduled(j) \/ BecomeDue(j) PROVE [Next]_vars
    BY <1>4 DEF CancelScheduled, BecomeDue
  <1>5. CASE Surroundings
    BY <1>5 DEF Surroundings, Next
  <1>6. CASE UNCHANGED allVars
    BY <1>6 DEF allVars
  <1> QED
    BY <1>1, <1>2, <1>3, <1>4, <1>5, <1>6 DEF ScheduledNext

-----------------------------------------------------------------------------
(***************************************************************************)
(* Type correctness and the locks that go with each stage.                 *)
(***************************************************************************)

CallsSound == ScheduledTypeOK /\ PassesSound

LEMMA OtherSlots ==
  ASSUME TypeOK, NEW r \in Requests, Arrive(r) \/ Continue(r) \/ Abort(r),
         NEW p \in Requests \ {r}
  PROVE  request'[p] = request[p]
  <1>1. CASE Arrive(r)
    BY <1>1, SMTT(30) DEF Arrive, ReadForCreate, ReadForUpdate, ReadForCancel, TypeOK
  <1>2. CASE Continue(r)
    BY <1>2 DEF Continue, LockCanteen, RefuseNumber, CommitCreate, RefuseCreate,
                CommitUpdate, CommitCancel, LoseClaim, TypeOK
  <1>3. CASE Abort(r)
    BY <1>3 DEF Abort, TypeOK
  <1> QED
    BY <1>1, <1>2, <1>3

(* The order core moved, and no pass with it. *)
LEMMA CoreMoves ==
  ASSUME CallInv, UNCHANGED scheduledVars,
         \A p \in Passes : request'[p] = Idle <=> request[p] = Idle
  PROVE  CallsSound'
  <1>1. CallsInStep'
    BY DEF CallInv, ScheduledTypeOK, CallsInStep, At, scheduledVars
  <1>2. ScheduledTypeOK'
    BY <1>1 DEF CallInv, ScheduledTypeOK, scheduledVars
  <1>3. PassesSound'
    BY DEF CallInv, PassesSound, scheduledVars
  <1> QED
    BY <1>2, <1>3 DEF CallsSound

LEMMA HttpMoves ==
  ASSUME CallInv, NEW r \in Http, HttpArrive(r) \/ HttpContinue(r) \/ HttpAbort(r)
  PROVE  CallsSound'
  <1>1. \A p \in Passes : p \in Requests \ {r}
    BY PassesAssumption DEF Http
  <1>2. Arrive(r) \/ Continue(r) \/ Abort(r)
    BY DEF HttpArrive, HttpContinue, HttpAbort
  <1>3. r \in Requests /\ TypeOK
    BY DEF Http, CallInv, TypeInv
  <1>4. \A p \in Passes : request'[p] = request[p]
    BY <1>1, <1>2, <1>3, OtherSlots
  <1>5. UNCHANGED scheduledVars
    BY DEF HttpArrive, HttpContinue, HttpAbort
  <1> QED
    BY <1>4, <1>5, CoreMoves

(* A programming moves: its draft, and perhaps the lock on its student and *)
(* the row it programs.                                                    *)
LEMMA ProgrammingMoves ==
  ASSUME CallInv, NEW r \in Http, NEW d \in Draft,
         draft' = [draft EXCEPT ![r] = d],
         studentLock' \in [Students -> Http \cup {NoRequest}],
         \A s \in Students : studentLock'[s] = r
                <=> d.stage = "counted" /\ d.student = s,
         \A s \in Students, q \in Http \ {r} :
                studentLock'[s] = q <=> studentLock[s] = q,
         scheduled' \in [Jobs -> ScheduledRow \cup {NoOrder}],
         \A j \in Jobs : scheduled[j] # NoOrder => scheduled'[j] = scheduled[j],
         UNCHANGED <<request, dueAt, jobLock, pass, origin, told, faults>>
  PROVE  CallsSound'
  <1>1. draft' \in [Http -> Draft] /\ draft'[r] = d
        /\ \A q \in Http \ {r} : draft'[q] = draft[q]
    BY DEF CallInv, ScheduledTypeOK
  <1>2. CallsInStep'
    <2>1. \A s \in Students, q \in Http : studentLock'[s] = q
            <=> draft'[q].stage = "counted" /\ draft'[q].student = s
      BY <1>1 DEF CallInv, ScheduledTypeOK, CallsInStep
    <2> QED
      BY <2>1 DEF CallInv, ScheduledTypeOK, CallsInStep, At
  <1>3. ScheduledTypeOK'
    BY <1>1, <1>2 DEF CallInv, ScheduledTypeOK
  <1>4. \A p \in Passes : pass[p].todo \subseteq Jobs
    BY DEF CallInv, ScheduledTypeOK, Pass
  <1>5. PassesSound'
    BY <1>4 DEF CallInv, PassesSound
  <1> QED
    BY <1>3, <1>5 DEF CallsSound

LEMMA DraftMoves ==
  ASSUME CallInv, NEW r \in Http, NEW d \in Draft,
         draft' = [draft EXCEPT ![r] = d],
         studentLock' \in [Students -> Http \cup {NoRequest}],
         \A s \in Students : studentLock'[s] = r
                <=> d.stage = "counted" /\ d.student = s,
         \A s \in Students, q \in Http \ {r} :
                studentLock'[s] = q <=> studentLock[s] = q,
         UNCHANGED <<request, scheduled, dueAt, jobLock, pass, origin, told, faults>>
  PROVE  CallsSound'
  <1>1. /\ scheduled' \in [Jobs -> ScheduledRow \cup {NoOrder}]
        /\ \A j \in Jobs : scheduled[j] # NoOrder => scheduled'[j] = scheduled[j]
    BY DEF CallInv, ScheduledTypeOK
  <1> QED
    BY <1>1, ProgrammingMoves

LEMMA ReadForProgramSound ==
  ASSUME CallInv, NEW r \in Http, NEW s \in Students, NEW v \in Vendors,
         NEW cart \in Carts, ReadForProgram(r, s, v, cart)
  PROVE  CallsSound'
  <1> DEFINE d == [stage |-> "read", student |-> s, vendor |-> v, cart |-> cart]
  <1>1. d \in Draft /\ d.stage # "counted"
    BY DEF Draft
  <1>2. \A t \in Students : studentLock[t] # r
    BY DEF ReadForProgram, CallInv, ScheduledTypeOK, CallsInStep, NoDraft
  <1>3. /\ draft' = [draft EXCEPT ![r] = d]
        /\ UNCHANGED <<request, scheduled, dueAt, jobLock, studentLock, pass,
                       origin, told, faults>>
    BY DEF ReadForProgram, vars
  <1>4. studentLock' \in [Students -> Http \cup {NoRequest}]
    BY <1>3 DEF CallInv, ScheduledTypeOK
  <1> HIDE DEF d
  <1> QED
    BY <1>1, <1>2, <1>3, <1>4, DraftMoves

LEMMA LockStudentSound ==
  ASSUME CallInv, NEW r \in Http, LockStudent(r)
  PROVE  CallsSound'
  <1> DEFINE s == draft[r].student
             d == [stage |-> "counted", student |-> s,
                   vendor |-> draft[r].vendor, cart |-> draft[r].cart]
  <1>1. s \in Students /\ d \in Draft /\ d.stage = "counted" /\ d.student = s
    BY DEF LockStudent, CallInv, ScheduledTypeOK, Draft
  <1>2. /\ draft' = [draft EXCEPT ![r] = d]
        /\ studentLock' = [studentLock EXCEPT ![s] = r]
        /\ studentLock[s] = NoRequest
        /\ UNCHANGED <<request, scheduled, dueAt, jobLock, pass, origin, told, faults>>
    BY DEF LockStudent, MayLockStudent, StudentFree, vars
  <1>3. \A t \in Students : studentLock[t] # r
    BY DEF LockStudent, CallInv, ScheduledTypeOK, CallsInStep
  <1>4. /\ studentLock' \in [Students -> Http \cup {NoRequest}]
        /\ studentLock'[s] = r
        /\ \A t \in Students \ {s} : studentLock'[t] = studentLock[t]
    BY <1>1, <1>2 DEF CallInv, ScheduledTypeOK
  <1>5. NoRequest \notin Http
    BY NoRequestAssumption DEF Http
  <1> HIDE DEF s, d
  <1>6. \A t \in Students : studentLock'[t] = r <=> d.stage = "counted" /\ d.student = t
    BY <1>1, <1>3, <1>4
  <1>7. \A t \in Students, q \in Http \ {r} :
            studentLock'[t] = q <=> studentLock[t] = q
    BY <1>2, <1>4, <1>5
  <1> QED
    BY <1>1, <1>2, <1>4, <1>6, <1>7, DraftMoves

(* What the end of a programming does to the locks. *)
LEMMA Unlocked ==
  ASSUME NEW r \in Http, NEW d, d.stage # "counted",
         \A s \in Students : studentLock'[s] =
            IF studentLock[s] = r THEN NoRequest ELSE studentLock[s]
  PROVE  /\ \A s \in Students : studentLock'[s] = r
                <=> d.stage = "counted" /\ d.student = s
         /\ \A s \in Students, q \in Http \ {r} :
                studentLock'[s] = q <=> studentLock[s] = q
  BY NoRequestAssumption DEF Http

LEMMA DropDraft ==
  ASSUME CallInv, NEW r \in Http, RefuseCap(r) \/ AbortProgram(r)
  PROVE  CallsSound'
  <1> DEFINE d == NoDraft
  <1>1. d \in Draft /\ d.stage # "counted"
    BY DEF NoDraft, Draft
  <1>2. /\ draft' = [draft EXCEPT ![r] = d]
        /\ UNCHANGED <<request, scheduled, dueAt, jobLock, pass, origin, told, faults>>
    BY DEF RefuseCap, AbortProgram, vars
  <1>3. \A s \in Students : studentLock'[s] =
            IF studentLock[s] = r THEN NoRequest ELSE studentLock[s]
    <2>1. CASE RefuseCap(r)
      BY <2>1 DEF RefuseCap, CallInv, ScheduledTypeOK, CallsInStep
    <2>2. CASE AbortProgram(r)
      BY <2>2 DEF AbortProgram
    <2> QED
      BY <2>1, <2>2
  <1>4. studentLock' \in [Students -> Http \cup {NoRequest}]
    BY <1>3 DEF RefuseCap, AbortProgram, CallInv, ScheduledTypeOK
  <1> HIDE DEF d
  <1>5. /\ \A s \in Students : studentLock'[s] = r
                <=> d.stage = "counted" /\ d.student = s
        /\ \A s \in Students, q \in Http \ {r} :
                studentLock'[s] = q <=> studentLock[s] = q
    BY <1>1, <1>3, Unlocked
  <1> QED
    BY <1>1, <1>2, <1>4, <1>5, DraftMoves

LEMMA CommitProgramSound ==
  ASSUME CallInv, NEW r \in Http, NEW j \in Jobs, CommitProgram(r, j)
  PROVE  CallsSound'
  <1> DEFINE d == NoDraft
             t == draft[r].student
             row == [status |-> "PENDING", student |-> t, vendor |-> draft[r].vendor,
                     cart |-> draft[r].cart, order |-> NoOrder]
  <1>1. d \in Draft /\ d.stage # "counted"
    BY DEF NoDraft, Draft
  <1>2. /\ draft[r].stage = "counted" /\ scheduled[j] = NoOrder
        /\ draft' = [draft EXCEPT ![r] = d]
        /\ scheduled' = [scheduled EXCEPT ![j] = row]
        /\ studentLock' = [studentLock EXCEPT ![t] = NoRequest]
        /\ UNCHANGED <<request, dueAt, jobLock, pass, origin, told, faults>>
    BY DEF CommitProgram, vars
  <1>3. t \in Students /\ row \in ScheduledRow
    BY <1>2 DEF CallInv, ScheduledTypeOK, Draft, ScheduledRow, JobStatuses
  <1>4. \A s \in Students : studentLock'[s] =
            IF studentLock[s] = r THEN NoRequest ELSE studentLock[s]
    BY <1>2, <1>3 DEF CallInv, ScheduledTypeOK, CallsInStep
  <1>5. studentLock' \in [Students -> Http \cup {NoRequest}]
    BY <1>2 DEF CallInv, ScheduledTypeOK
  <1> HIDE DEF d, row, t
  <1>6. /\ scheduled' \in [Jobs -> ScheduledRow \cup {NoOrder}]
        /\ \A k \in Jobs : scheduled[k] # NoOrder => scheduled'[k] = scheduled[k]
    BY <1>2, <1>3 DEF CallInv, ScheduledTypeOK
  <1>7. /\ \A s \in Students : studentLock'[s] = r
                <=> d.stage = "counted" /\ d.student = s
        /\ \A s \in Students, q \in Http \ {r} :
                studentLock'[s] = q <=> studentLock[s] = q
    BY <1>1, <1>4, Unlocked
  <1>8. /\ d \in Draft
        /\ draft' = [draft EXCEPT ![r] = d]
        /\ UNCHANGED <<request, dueAt, jobLock, pass, origin, told, faults>>
    BY <1>1, <1>2
  <1> QED
    BY <1>5, <1>6, <1>7, <1>8, ProgrammingMoves

LEMMA HttpStepSound ==
  ASSUME CallInv, NEW r \in Http, HttpStep(r)
  PROVE  CallsSound'
  <1>1. CASE HttpArrive(r) \/ HttpContinue(r) \/ HttpAbort(r)
    BY <1>1, HttpMoves
  <1>2. CASE \E s \in Students, v \in Vendors, cart \in Carts : ReadForProgram(r, s, v, cart)
    BY <1>2, ReadForProgramSound
  <1>3. CASE LockStudent(r)
    BY <1>3, LockStudentSound
  <1>4. CASE RefuseCap(r) \/ AbortProgram(r)
    BY <1>4, DropDraft
  <1>5. CASE \E j \in Jobs : CommitProgram(r, j)
    BY <1>5, CommitProgramSound
  <1> QED
    BY <1>1, <1>2, <1>3, <1>4, <1>5 DEF HttpStep, ContinueProgram

(* The step of a pass, to w, and what it may do to the rows on the way. *)
LEMMA PassMoves ==
  ASSUME CallInv, NEW p \in Passes, NEW w \in Pass,
         pass' = [pass EXCEPT ![p] = w],
         jobLock' \in [Jobs -> Passes \cup {NoRequest}],
         \A j \in Jobs : jobLock'[j] = p
                <=> w.job = j /\ w.stage \in {"claimed", "creating"},
         \A j \in Jobs, q \in Passes \ {p} : jobLock'[j] = q <=> jobLock[j] = q,
         request'[p] # Idle <=> w.stage = "creating",
         \A q \in Passes \ {p} : request'[q] = request[q],
         scheduled' \in [Jobs -> ScheduledRow \cup {NoOrder}],
         \A j \in Jobs : scheduled[j] # NoOrder => scheduled'[j] # NoOrder,
         \A j \in Jobs : jobLock[j] \in Passes \ {p} => scheduled'[j] = scheduled[j],
         \A j \in w.todo : scheduled'[j] # NoOrder,
         w.stage \in {"claimed", "creating", "failing"} => w.job \in w.todo,
         w.stage \in {"claimed", "creating"} => scheduled'[w.job].status = "PENDING",
         origin' \in [OrderIds -> Jobs \cup {NoJob}],
         told' \in [Jobs -> Nat], faults' \in 0..MaxFaults,
         UNCHANGED <<dueAt, studentLock, draft>>
  PROVE  CallsSound'
  <1>1. /\ pass' \in [Passes -> Pass] /\ pass'[p] = w
        /\ \A q \in Passes \ {p} : pass'[q] = pass[q] /\ pass[q] \in Pass
    BY DEF CallInv, ScheduledTypeOK
  <1>2. CallsInStep'
    <2>1. \A j \in Jobs, q \in Passes : jobLock'[j] = q
            <=> pass'[q].job = j /\ pass'[q].stage \in {"claimed", "creating"}
      BY <1>1 DEF CallInv, ScheduledTypeOK, CallsInStep
    <2>2. \A q \in Passes : request'[q] # Idle <=> pass'[q].stage = "creating"
      BY <1>1 DEF CallInv, ScheduledTypeOK, CallsInStep, At
    <2> QED
      BY <2>1, <2>2 DEF CallInv, ScheduledTypeOK, CallsInStep, At
  <1>3. ScheduledTypeOK'
    BY <1>1, <1>2 DEF CallInv, ScheduledTypeOK
  <1>4. PassesSound'
    <2> SUFFICES ASSUME NEW q \in Passes \ {p}
                 PROVE  /\ \A j \in pass[q].todo : scheduled'[j] # NoOrder
                        /\ pass[q].stage \in {"claimed", "creating", "failing"} =>
                                pass[q].job \in pass[q].todo
                        /\ pass[q].stage \in {"claimed", "creating"} =>
                                scheduled'[pass[q].job].status = "PENDING"
      BY <1>1 DEF PassesSound
    <2>1. pass[q].todo \subseteq Jobs
      BY <1>1 DEF Pass
    <2>2. \A j \in pass[q].todo : scheduled'[j] # NoOrder
      BY <2>1 DEF CallInv, PassesSound
    <2>3. ASSUME pass[q].stage \in {"claimed", "creating"}
          PROVE  scheduled'[pass[q].job].status = "PENDING"
      <3>1. pass[q].job \in Jobs /\ jobLock[pass[q].job] = q
        BY <2>3, ClaimedRow DEF At
      <3>2. scheduled[pass[q].job].status = "PENDING"
        BY <2>3, ClaimedRow DEF At
      <3> QED
        BY <3>1, <3>2
    <2> QED
      BY <2>2, <2>3 DEF CallInv, PassesSound
  <1> QED
    BY <1>3, <1>4 DEF CallsSound

(* A pass that has claimed no row, and claims none. *)
LEMMA PassWalks ==
  ASSUME CallInv, NEW p \in Passes, NEW w \in Pass,
         pass' = [pass EXCEPT ![p] = w],
         pass[p].stage \notin {"claimed", "creating"},
         w.stage \notin {"claimed", "creating"},
         \A j \in w.todo : scheduled[j] # NoOrder,
         w.stage = "failing" => w.job \in w.todo,
         faults' \in 0..MaxFaults,
         UNCHANGED <<request, scheduled, dueAt, jobLock, studentLock, draft, origin, told>>
  PROVE  CallsSound'
  <1>1. /\ jobLock' \in [Jobs -> Passes \cup {NoRequest}]
        /\ scheduled' \in [Jobs -> ScheduledRow \cup {NoOrder}]
        /\ origin' \in [OrderIds -> Jobs \cup {NoJob}]
        /\ told' \in [Jobs -> Nat]
    BY DEF CallInv, ScheduledTypeOK
  <1>2. \A j \in Jobs : jobLock'[j] = p
                <=> w.job = j /\ w.stage \in {"claimed", "creating"}
    BY DEF CallInv, ScheduledTypeOK, CallsInStep
  <1>3. request'[p] # Idle <=> w.stage = "creating"
    BY DEF CallInv, ScheduledTypeOK, CallsInStep, At
  <1> QED
    BY <1>1, <1>2, <1>3, PassMoves

(* A pass whose transaction ends: the claim goes with it. *)
LEMMA PassLets ==
  ASSUME CallInv, NEW p \in Passes, NEW w \in Pass,
         pass' = [pass EXCEPT ![p] = w],
         w.stage \notin {"claimed", "creating"},
         \A j \in w.todo : scheduled[j] # NoOrder,
         w.stage = "failing" => w.job \in w.todo,
         jobLock' \in [Jobs -> Passes \cup {NoRequest}],
         \A j \in Jobs : jobLock'[j] = IF jobLock[j] = p THEN NoRequest ELSE jobLock[j],
         request'[p] = Idle,
         \A q \in Passes \ {p} : request'[q] = request[q],
         scheduled' \in [Jobs -> ScheduledRow \cup {NoOrder}],
         \A j \in Jobs : scheduled[j] # NoOrder => scheduled'[j] # NoOrder,
         \A j \in Jobs : jobLock[j] # p => scheduled'[j] = scheduled[j],
         origin' \in [OrderIds -> Jobs \cup {NoJob}],
         faults' \in 0..MaxFaults,
         UNCHANGED <<dueAt, studentLock, draft, told>>
  PROVE  CallsSound'
  <1>1. NoRequest \notin Passes
    BY PassesAssumption, NoRequestAssumption
  <1>2. \A j \in Jobs : jobLock'[j] = p
                <=> w.job = j /\ w.stage \in {"claimed", "creating"}
    BY <1>1
  <1>3. \A j \in Jobs, q \in Passes \ {p} : jobLock'[j] = q <=> jobLock[j] = q
    BY <1>1
  <1>4. \A j \in Jobs : jobLock[j] \in Passes \ {p} => scheduled'[j] = scheduled[j]
    OBVIOUS
  <1>5. \A j \in w.todo : scheduled'[j] # NoOrder
    BY DEF Pass
  <1>6. told' \in [Jobs -> Nat] /\ (request'[p] # Idle <=> w.stage = "creating")
    BY DEF CallInv, ScheduledTypeOK
  <1> QED
    BY <1>2, <1>3, <1>4, <1>5, <1>6, PassMoves, ZenonT(30)

LEMMA DoneWithPass ==
  ASSUME NEW p \in Passes, pass[p] \in Pass, NEW j
  PROVE  \E w \in Pass : /\ DoneWith(p, j) = [pass EXCEPT ![p] = w]
                         /\ w.todo \subseteq pass[p].todo
                         /\ w.stage \in {"off", "next"}
  <1>1. CASE pass[p].todo = {j}
    <2>1. Off \in Pass /\ Off.todo = {} /\ Off.stage = "off"
      BY DEF Off, Pass
    <2>2. DoneWith(p, j) = [pass EXCEPT ![p] = Off]
      BY <1>1 DEF DoneWith
    <2> QED
      BY <2>1, <2>2
  <1>2. CASE pass[p].todo # {j}
    <2> DEFINE w == [stage |-> "next", todo |-> pass[p].todo \ {j}, job |-> NoJob]
    <2>1. w \in Pass /\ w.todo \subseteq pass[p].todo /\ w.stage = "next"
      BY DEF Pass
    <2>2. DoneWith(p, j) = [pass EXCEPT ![p] = w]
      BY <1>2 DEF DoneWith
    <2> QED
      BY <2>1, <2>2
  <1> QED
    BY <1>1, <1>2

LEMMA GoToPass ==
  ASSUME NEW p \in Passes, pass \in [Passes -> Pass],
         NEW stage \in {"claimed", "creating", "failing"}
  PROVE  \E w \in Pass : /\ GoTo(p, stage) = [pass EXCEPT ![p] = w]
                         /\ w.stage = stage
                         /\ w.todo = pass[p].todo /\ w.job = pass[p].job
  <1> DEFINE w == [pass[p] EXCEPT !.stage = stage]
  <1>1. w \in Pass /\ w.stage = stage /\ w.todo = pass[p].todo /\ w.job = pass[p].job
    BY DEF Pass
  <1>2. GoTo(p, stage) = [pass EXCEPT ![p] = w]
    BY DEF GoTo
  <1> QED
    BY <1>1, <1>2

LEMMA RowsOfPass ==
  ASSUME CallInv, NEW p \in Passes
  PROVE  /\ pass \in [Passes -> Pass] /\ pass[p] \in Pass
         /\ pass[p].todo \subseteq Jobs
         /\ \A j \in pass[p].todo : scheduled[j] # NoOrder
  <1>1. pass \in [Passes -> Pass] /\ pass[p] \in Pass
    BY DEF CallInv, ScheduledTypeOK
  <1> QED
    BY <1>1 DEF Pass, CallInv, PassesSound

LEMMA FaultsTyped ==
  ASSUME CallInv, OneFault \/ UNCHANGED faults
  PROVE  faults' \in 0..MaxFaults
  BY LimitsAssumption DEF OneFault, CallInv, ScheduledTypeOK

LEMMA StartPassSound ==
  ASSUME CallInv, NEW p \in Passes, StartPass(p)
  PROVE  CallsSound'
  <1> DEFINE w == [stage |-> "next", todo |-> Batch, job |-> NoJob]
  <1>1. Batch \subseteq Jobs /\ \A j \in Batch : scheduled[j] # NoOrder
    BY DEF Batch, DueJobs, PendingJobs, Programmed
  <1>2. w \in Pass /\ w.stage = "next" /\ w.todo = Batch
    BY <1>1 DEF Pass
  <1>3. /\ pass' = [pass EXCEPT ![p] = w]
        /\ pass[p].stage = "off"
        /\ UNCHANGED <<request, scheduled, dueAt, jobLock, studentLock, draft, origin, told>>
    BY DEF StartPass, Off, vars
  <1>4. faults' \in 0..MaxFaults
    BY FaultsTyped DEF StartPass
  <1> HIDE DEF w
  <1> QED
    BY <1>1, <1>2, <1>3, <1>4, PassWalks

LEMMA WalkOn ==
  ASSUME CallInv, NEW p \in Passes,
         LeavePending(p) \/ LoseMark(p) \/ \E j \in Jobs : Skip(p, j)
  PROVE  CallsSound'
  <1>1. PICK j : pass' = DoneWith(p, j)
    BY DEF LeavePending, LoseMark, Skip
  <1>2. PICK w \in Pass : /\ pass' = [pass EXCEPT ![p] = w]
                          /\ w.todo \subseteq pass[p].todo
                          /\ w.stage \in {"off", "next"}
    BY <1>1, DoneWithPass, RowsOfPass
  <1>3. /\ pass[p].stage \notin {"claimed", "creating"}
        /\ UNCHANGED <<request, scheduled, dueAt, jobLock, studentLock, draft, origin, told>>
    BY DEF LeavePending, LoseMark, Skip, At, vars
  <1>4. faults' \in 0..MaxFaults
    BY FaultsTyped DEF LeavePending, LoseMark, Skip
  <1>5. \A k \in w.todo : scheduled[k] # NoOrder
    BY <1>2, RowsOfPass
  <1> QED
    BY <1>2, <1>3, <1>4, <1>5, PassWalks

LEMMA Dropped ==
  ASSUME CallInv, NEW p \in Passes, DropRequest(p)
  PROVE  request'[p] = Idle /\ \A q \in Passes \ {p} : request'[q] = request[q]
  <1>1. p \in Requests /\ TypeOK
    BY PassesAssumption DEF CallInv, TypeInv
  <1>2. CASE request[p] = Idle
    BY <1>2 DEF DropRequest, vars
  <1>3. CASE request[p] # Idle
    BY <1>1, <1>3, PassesAssumption DEF DropRequest, Abort, TypeOK
  <1> QED
    BY <1>2, <1>3

(* The claim of a pass is the only lock it has. *)
LEMMA ClaimGiven ==
  ASSUME CallInv, NEW p \in Passes, At(p, "claimed") \/ At(p, "creating"),
         jobLock' = [jobLock EXCEPT ![pass[p].job] = NoRequest]
  PROVE  /\ jobLock' \in [Jobs -> Passes \cup {NoRequest}]
         /\ \A j \in Jobs : jobLock'[j] = IF jobLock[j] = p THEN NoRequest ELSE jobLock[j]
         /\ \A j \in Jobs : jobLock[j] # p => j # pass[p].job
  <1>1. pass[p].job \in Jobs /\ jobLock[pass[p].job] = p
    BY ClaimedRow
  <1>2. \A j \in Jobs : jobLock[j] = p => j = pass[p].job
    BY DEF CallInv, ScheduledTypeOK, CallsInStep
  <1>3. jobLock \in [Jobs -> Passes \cup {NoRequest}]
    BY DEF CallInv, ScheduledTypeOK
  <1> QED
    BY <1>1, <1>2, <1>3

LEMMA RollbackSound ==
  ASSUME CallInv, NEW p \in Passes, At(p, "claimed") \/ At(p, "creating"),
         Rollback(p), OneFault \/ UNCHANGED faults,
         request'[p] = Idle, \A q \in Passes \ {p} : request'[q] = request[q]
  PROVE  CallsSound'
  <1>1. PICK w \in Pass : /\ pass' = [pass EXCEPT ![p] = w]
                          /\ w.stage = "failing"
                          /\ w.todo = pass[p].todo /\ w.job = pass[p].job
    BY GoToPass, RowsOfPass DEF Rollback
  <1>2. /\ jobLock' \in [Jobs -> Passes \cup {NoRequest}]
        /\ \A j \in Jobs : jobLock'[j] = IF jobLock[j] = p THEN NoRequest ELSE jobLock[j]
    BY ClaimGiven DEF Rollback
  <1>3. /\ scheduled' \in [Jobs -> ScheduledRow \cup {NoOrder}]
        /\ \A j \in Jobs : scheduled[j] # NoOrder => scheduled'[j] # NoOrder
        /\ \A j \in Jobs : jobLock[j] # p => scheduled'[j] = scheduled[j]
        /\ origin' \in [OrderIds -> Jobs \cup {NoJob}]
        /\ UNCHANGED <<dueAt, studentLock, draft, told>>
    BY DEF Rollback, CallInv, ScheduledTypeOK
  <1>4. faults' \in 0..MaxFaults
    BY FaultsTyped
  <1>5. (\A j \in w.todo : scheduled[j] # NoOrder) /\ w.job \in w.todo
    BY <1>1, RowsOfPass, ClaimedRow
  <1> QED
    BY <1>1, <1>2, <1>3, <1>4, <1>5, PassLets

LEMMA FailSound ==
  ASSUME CallInv, NEW p \in Passes, RejectJob(p) \/ RefuseJob(p) \/ TechnicalError(p)
  PROVE  CallsSound'
  <1>1. p \in Requests /\ TypeOK
    BY PassesAssumption DEF CallInv, TypeInv
  <1>2. CASE RejectJob(p)
    <2>1. request[p] = Idle
      BY <1>2 DEF RejectJob, At, CallInv, ScheduledTypeOK, CallsInStep
    <2> QED
      BY <1>2, <2>1, RollbackSound DEF RejectJob, vars
  <1>3. CASE RefuseJob(p)
    <2>1. request' = [request EXCEPT ![p] = Idle]
      BY <1>3 DEF RefuseJob, RefuseNumber, RefuseCreate
    <2>2. request'[p] = Idle /\ \A q \in Passes \ {p} : request'[q] = request[q]
      BY <1>1, <2>1, PassesAssumption DEF TypeOK
    <2> QED
      BY <1>3, <2>2, RollbackSound DEF RefuseJob
  <1>4. CASE TechnicalError(p)
    BY <1>4, Dropped, RollbackSound DEF TechnicalError
  <1> QED
    BY <1>2, <1>3, <1>4

LEMMA KillSound ==
  ASSUME CallInv, NEW p \in Passes, Kill(p)
  PROVE  CallsSound'
  <1> DEFINE w == Off
  <1>1. w \in Pass /\ w.todo = {} /\ w.stage = "off"
    BY DEF Off, Pass
  <1>2. /\ pass' = [pass EXCEPT ![p] = w]
        /\ \A j \in Jobs : jobLock'[j] = IF jobLock[j] = p THEN NoRequest ELSE jobLock[j]
        /\ jobLock' \in [Jobs -> Passes \cup {NoRequest}]
    BY DEF Kill, CallInv, ScheduledTypeOK
  <1>3. /\ scheduled' \in [Jobs -> ScheduledRow \cup {NoOrder}]
        /\ \A j \in Jobs : scheduled[j] # NoOrder => scheduled'[j] # NoOrder
        /\ \A j \in Jobs : jobLock[j] # p => scheduled'[j] = scheduled[j]
        /\ origin' \in [OrderIds -> Jobs \cup {NoJob}]
        /\ UNCHANGED <<dueAt, studentLock, draft, told>>
    BY DEF Kill, CallInv, ScheduledTypeOK
  <1>4. faults' \in 0..MaxFaults
    BY FaultsTyped DEF Kill
  <1>5. request'[p] = Idle /\ \A q \in Passes \ {p} : request'[q] = request[q]
    BY Dropped DEF Kill
  <1> HIDE DEF w
  <1> QED
    BY <1>1, <1>2, <1>3, <1>4, <1>5, PassLets

LEMMA PlaceSound ==
  ASSUME CallInv, NEW p \in Passes, NEW o \in OrderIds, Place(p, o)
  PROVE  CallsSound'
  <1> DEFINE j == pass[p].job
  <1>1. /\ j \in Jobs /\ j \in pass[p].todo /\ jobLock[j] = p
        /\ scheduled[j] \in ScheduledRow
    BY ClaimedRow DEF Place
  <1>2. PICK w \in Pass : /\ pass' = [pass EXCEPT ![p] = w]
                          /\ w.todo \subseteq pass[p].todo
                          /\ w.stage \in {"off", "next"}
    BY DoneWithPass, RowsOfPass DEF Place
  <1>3. /\ jobLock' \in [Jobs -> Passes \cup {NoRequest}]
        /\ \A k \in Jobs : jobLock'[k] = IF jobLock[k] = p THEN NoRequest ELSE jobLock[k]
    BY ClaimGiven DEF Place
  <1>4. scheduled' = [scheduled EXCEPT ![j].status = "PLACED", ![j].order = o]
    BY DEF Place
  <1>5. [scheduled[j] EXCEPT !.status = "PLACED", !.order = o] \in ScheduledRow
    BY <1>1 DEF ScheduledRow, JobStatuses
  <1>6. scheduled'[j] \in ScheduledRow /\ \A k \in Jobs \ {j} : scheduled'[k] = scheduled[k]
    BY <1>1, <1>4, <1>5 DEF CallInv, ScheduledTypeOK
  <1>7. /\ scheduled' \in [Jobs -> ScheduledRow \cup {NoOrder}]
        /\ \A k \in Jobs : scheduled[k] # NoOrder => scheduled'[k] # NoOrder
        /\ \A k \in Jobs : jobLock[k] # p => scheduled'[k] = scheduled[k]
    BY <1>1, <1>4, <1>6, NoRowAssumption DEF CallInv, ScheduledTypeOK
  <1>8. /\ origin' \in [OrderIds -> Jobs \cup {NoJob}]
        /\ faults' \in 0..MaxFaults
        /\ UNCHANGED <<dueAt, studentLock, draft, told>>
    BY <1>1 DEF Place, CallInv, ScheduledTypeOK
  <1>9. request'[p] = Idle /\ \A q \in Passes \ {p} : request'[q] = request[q]
    BY PassesAssumption DEF Place, CommitCreate, CallInv, TypeInv, TypeOK
  <1>10. \A k \in w.todo : scheduled[k] # NoOrder
    BY <1>2, RowsOfPass
  <1> QED
    BY <1>2, <1>3, <1>7, <1>8, <1>9, <1>10, PassLets

LEMMA ClaimSound ==
  ASSUME CallInv, NEW p \in Passes, NEW j \in Jobs, Claim(p, j)
  PROVE  CallsSound'
  <1> DEFINE w == [pass[p] EXCEPT !.stage = "claimed", !.job = j]
  <1>1. /\ pass[p] \in Pass /\ pass[p].stage = "next" /\ j \in pass[p].todo
        /\ jobLock[j] = NoRequest /\ scheduled[j].status = "PENDING"
        /\ jobLock' = [jobLock EXCEPT ![j] = p]
        /\ pass' = [pass EXCEPT ![p] = w]
    BY RowsOfPass DEF Claim, At, IsNext, Claimable
  <1>2. w \in Pass /\ w.stage = "claimed" /\ w.job = j /\ w.todo = pass[p].todo
    BY <1>1 DEF Pass
  <1>3. NoRequest \notin Passes /\ p \in Requests
    BY PassesAssumption, NoRequestAssumption
  <1>4. \A k \in Jobs : jobLock[k] # p
    BY <1>1 DEF CallInv, ScheduledTypeOK, CallsInStep
  <1>5. /\ jobLock' \in [Jobs -> Passes \cup {NoRequest}]
        /\ jobLock'[j] = p /\ \A k \in Jobs \ {j} : jobLock'[k] = jobLock[k]
    BY <1>1 DEF CallInv, ScheduledTypeOK
  <1> HIDE DEF w
  <1>6. \A k \in Jobs : jobLock'[k] = p
                <=> w.job = k /\ w.stage \in {"claimed", "creating"}
    BY <1>2, <1>4, <1>5
  <1>7. \A k \in Jobs, q \in Passes \ {p} : jobLock'[k] = q <=> jobLock[k] = q
    BY <1>1, <1>3, <1>5
  <1>8. /\ UNCHANGED <<request, scheduled, dueAt, studentLock, draft>>
        /\ origin' \in [OrderIds -> Jobs \cup {NoJob}]
        /\ told' \in [Jobs -> Nat] /\ faults' \in 0..MaxFaults
        /\ scheduled' \in [Jobs -> ScheduledRow \cup {NoOrder}]
    BY DEF Claim, vars, CallInv, ScheduledTypeOK
  <1>9. request[p] = Idle
    BY <1>1 DEF At, CallInv, ScheduledTypeOK, CallsInStep
  <1>10. request'[p] # Idle <=> w.stage = "creating"
    BY <1>2, <1>8, <1>9
  <1>11. \A k \in w.todo : scheduled'[k] # NoOrder
    BY <1>2, <1>8, RowsOfPass
  <1>12. w.job \in w.todo /\ scheduled'[w.job].status = "PENDING"
    BY <1>1, <1>2, <1>8
  <1>13. \A k \in Jobs : scheduled'[k] = scheduled[k]
    BY <1>8
  <1> QED
    BY <1>1, <1>2, <1>5, <1>6, <1>7, <1>8, <1>10, <1>11, <1>12, <1>13, PassMoves

(* The claim stays as it is: the pass goes on to, or on with, its creation. *)
LEMMA CreatingSound ==
  ASSUME CallInv, NEW p \in Passes, NEW total \in Totals, ReadJob(p, total)
  PROVE  CallsSound'
  <1>1. PICK w \in Pass : /\ pass' = [pass EXCEPT ![p] = w]
                          /\ w.stage = "creating"
                          /\ w.todo = pass[p].todo /\ w.job = pass[p].job
    BY GoToPass, RowsOfPass DEF ReadJob
  <1>2. /\ w.job \in Jobs /\ w.job \in w.todo /\ jobLock[w.job] = p
        /\ scheduled[w.job].status = "PENDING"
    BY <1>1, ClaimedRow DEF ReadJob
  <1>3. /\ UNCHANGED <<scheduled, dueAt, jobLock, studentLock, draft>>
        /\ origin' \in [OrderIds -> Jobs \cup {NoJob}]
        /\ told' \in [Jobs -> Nat] /\ faults' \in 0..MaxFaults
        /\ scheduled' \in [Jobs -> ScheduledRow \cup {NoOrder}]
        /\ jobLock' \in [Jobs -> Passes \cup {NoRequest}]
    BY DEF ReadJob, CallInv, ScheduledTypeOK
  <1>4. \A k \in Jobs : jobLock[k] = p => k = w.job
    BY <1>1 DEF CallInv, ScheduledTypeOK, CallsInStep
  <1>5. \A k \in Jobs : jobLock'[k] = p
                <=> w.job = k /\ w.stage \in {"claimed", "creating"}
    BY <1>1, <1>2, <1>3, <1>4
  <1>6. request'[p].op = "create" /\ \A r \in Passes \ {p} : request'[r] = request[r]
    BY PassesAssumption DEF ReadJob, ReadForCreate, CallInv, TypeInv, TypeOK
  <1>7. request'[p] # Idle /\ \A r \in Passes \ {p} : request'[r] = request[r]
    BY <1>6 DEF Idle
  <1>8. \A k \in w.todo : scheduled'[k] # NoOrder
    BY <1>1, <1>3, RowsOfPass
  <1>9. (\A k \in Jobs : scheduled'[k] = scheduled[k])
        /\ \A k \in Jobs, r \in Passes \ {p} : jobLock'[k] = r <=> jobLock[k] = r
    BY <1>3
  <1>10. (request'[p] # Idle <=> w.stage = "creating")
         /\ scheduled'[w.job].status = "PENDING"
    BY <1>1, <1>2, <1>3, <1>7
  <1> QED
    BY <1>1, <1>2, <1>3, <1>5, <1>7, <1>8, <1>9, <1>10, PassMoves

LEMMA PassLocksSound ==
  ASSUME CallInv, NEW p \in Passes, PassLocks(p)
  PROVE  CallsSound'
  <1>1. p \in Requests /\ TypeOK
    BY PassesAssumption DEF CallInv, TypeInv
  <1>2. request'[p].op = "locked" /\ \A r \in Passes \ {p} : request'[r] = request[r]
    BY <1>1, PassesAssumption DEF PassLocks, LockCanteen, TypeOK
  <1>3. request'[p] # Idle /\ \A r \in Passes \ {p} : request'[r] = request[r]
    BY <1>2 DEF Idle
  <1>4. request[p] # Idle
    BY DEF PassLocks, CallInv, ScheduledTypeOK, CallsInStep
  <1> QED
    BY <1>3, <1>4, CoreMoves DEF PassLocks

LEMMA MarkFailedSound ==
  ASSUME CallInv, NEW p \in Passes, NEW sent \in BOOLEAN, MarkFailed(p, sent)
  PROVE  CallsSound'
  <1> DEFINE j == pass[p].job
  <1>1. /\ pass[p].stage = "failing" /\ j \in pass[p].todo /\ j \in Jobs
        /\ jobLock[j] = NoRequest /\ scheduled[j] \in ScheduledRow
    BY RowsOfPass DEF MarkFailed, At, CallInv, PassesSound, ScheduledTypeOK
  <1>2. PICK w \in Pass : /\ pass' = [pass EXCEPT ![p] = w]
                          /\ w.todo \subseteq pass[p].todo
                          /\ w.stage \in {"off", "next"}
    BY DoneWithPass, RowsOfPass DEF MarkFailed
  <1>3. [scheduled[j] EXCEPT !.status = "FAILED"] \in ScheduledRow
    BY <1>1 DEF ScheduledRow, JobStatuses
  <1>4. scheduled'[j] \in ScheduledRow /\ \A k \in Jobs \ {j} : scheduled'[k] = scheduled[k]
    BY <1>1, <1>3 DEF MarkFailed, CallInv, ScheduledTypeOK
  <1>5. scheduled' \in [Jobs -> ScheduledRow \cup {NoOrder}]
    BY <1>1, <1>3 DEF MarkFailed, CallInv, ScheduledTypeOK
  <1>6. NoRequest \notin Passes
    BY PassesAssumption, NoRequestAssumption
  <1>7. /\ \A k \in Jobs : scheduled[k] # NoOrder => scheduled'[k] # NoOrder
        /\ \A k \in Jobs : jobLock[k] \in Passes \ {p} => scheduled'[k] = scheduled[k]
    BY <1>1, <1>4, <1>6, NoRowAssumption
  <1>8. /\ UNCHANGED <<request, jobLock, dueAt, studentLock, draft>>
        /\ jobLock' \in [Jobs -> Passes \cup {NoRequest}]
        /\ origin' \in [OrderIds -> Jobs \cup {NoJob}]
        /\ told' \in [Jobs -> Nat] /\ faults' \in 0..MaxFaults
    BY <1>1 DEF MarkFailed, vars, CallInv, ScheduledTypeOK
  <1>9. \A k \in Jobs : jobLock'[k] = p
                <=> w.job = k /\ w.stage \in {"claimed", "creating"}
    BY <1>1, <1>2, <1>8 DEF CallInv, ScheduledTypeOK, CallsInStep
  <1>10. request'[p] # Idle <=> w.stage = "creating"
    BY <1>1, <1>2, <1>8 DEF At, CallInv, ScheduledTypeOK, CallsInStep
  <1>11. \A k \in w.todo : scheduled'[k] # NoOrder
    BY <1>2, <1>7, RowsOfPass
  <1>12. w.stage \notin {"claimed", "creating", "failing"}
         /\ (\A k \in Jobs, q \in Passes \ {p} : jobLock'[k] = q <=> jobLock[k] = q)
         /\ \A q \in Passes \ {p} : request'[q] = request[q]
    BY <1>2, <1>8
  <1> QED
    BY <1>2, <1>5, <1>7, <1>8, <1>9, <1>10, <1>11, <1>12, PassMoves, ZenonT(30)

LEMMA PassStepSound ==
  ASSUME CallInv, NEW p \in Passes, PassStep(p)
  PROVE  CallsSound'
  <1>1. CASE StartPass(p)
    BY <1>1, StartPassSound
  <1>2. CASE LeavePending(p) \/ LoseMark(p) \/ \E j \in Jobs : Skip(p, j)
    BY <1>2, WalkOn
  <1>3. CASE \E j \in Jobs : Claim(p, j)
    BY <1>3, ClaimSound
  <1>4. CASE \E total \in Totals : ReadJob(p, total)
    BY <1>4, CreatingSound
  <1>5. CASE PassLocks(p)
    BY <1>5, PassLocksSound
  <1>6. CASE RejectJob(p) \/ RefuseJob(p) \/ TechnicalError(p)
    BY <1>6, FailSound
  <1>7. CASE \E o \in OrderIds : Place(p, o)
    BY <1>7, PlaceSound
  <1>8. CASE \E sent \in BOOLEAN : MarkFailed(p, sent)
    BY <1>8, MarkFailedSound
  <1>9. CASE Kill(p)
    BY <1>9, KillSound
  <1> QED
    BY <1>1, <1>2, <1>3, <1>4, <1>5, <1>6, <1>7, <1>8, <1>9 DEF PassStep, ContinuePass

LEMMA BreakDeadlockSound ==
  ASSUME CallInv, NEW r \in Http, NEW q \in Requests, BreakDeadlock(r, q)
  PROVE  CallsSound'
  <1>1. CASE AbortProgram(r)
    BY <1>1, DropDraft
  <1>2. CASE q \in Http /\ HttpAbort(q)
    BY <1>2, HttpMoves
  <1>3. CASE q \in Passes /\ Abort(q) /\ Rollback(q) /\ UNCHANGED faults
    <2>1. request[q] # Idle
      BY <1>3 DEF Abort
    <2>2. At(q, "creating") /\ DropRequest(q)
      BY <1>3, <2>1 DEF CallInv, ScheduledTypeOK, CallsInStep, DropRequest
    <2>3. request'[q] = Idle /\ \A p \in Passes \ {q} : request'[p] = request[p]
      BY <1>3, <2>2, Dropped
    <2> QED
      BY <1>3, <2>2, <2>3, RollbackSound
  <1> QED
    BY <1>1, <1>2, <1>3 DEF BreakDeadlock

LEMMA CancelScheduledSound ==
  ASSUME CallInv, NEW j \in Jobs, CancelScheduled(j)
  PROVE  CallsSound'
  <1>1. scheduled[j] \in ScheduledRow /\ jobLock[j] = NoRequest
    BY DEF CancelScheduled, Programmed, CallInv, ScheduledTypeOK
  <1>2. [scheduled[j] EXCEPT !.status = "CANCELLED"] \in ScheduledRow
    BY <1>1 DEF ScheduledRow, JobStatuses
  <1>3. /\ scheduled' \in [Jobs -> ScheduledRow \cup {NoOrder}]
        /\ scheduled'[j] # NoOrder
        /\ \A k \in Jobs \ {j} : scheduled'[k] = scheduled[k]
    BY <1>1, <1>2, NoRowAssumption DEF CancelScheduled, CallInv, ScheduledTypeOK
  <1>4. UNCHANGED <<request, dueAt, jobLock, studentLock, draft, pass, origin, told, faults>>
    BY DEF CancelScheduled, vars
  <1>5. CallsInStep'
    BY <1>4 DEF CallInv, ScheduledTypeOK, CallsInStep, At
  <1>6. ScheduledTypeOK'
    BY <1>3, <1>4, <1>5 DEF CallInv, ScheduledTypeOK
  <1>7. PassesSound'
    <2> SUFFICES ASSUME NEW p \in Passes
                 PROVE  /\ \A k \in pass[p].todo : scheduled'[k] # NoOrder
                        /\ pass[p].stage \in {"claimed", "creating", "failing"} =>
                                pass[p].job \in pass[p].todo
                        /\ pass[p].stage \in {"claimed", "creating"} =>
                                scheduled'[pass[p].job].status = "PENDING"
      BY <1>4 DEF PassesSound
    <2>1. \A k \in pass[p].todo : scheduled'[k] # NoOrder
      BY <1>3, RowsOfPass
    <2>2. ASSUME pass[p].stage \in {"claimed", "creating"}
          PROVE  scheduled'[pass[p].job].status = "PENDING"
      BY <1>1, <1>3, <2>2, ClaimedRow DEF At
    <2> QED
      BY <2>1, <2>2 DEF CallInv, PassesSound
  <1> QED
    BY <1>6, <1>7 DEF CallsSound

LEMMA BecomeDueSound ==
  ASSUME CallInv, NEW j \in Jobs, BecomeDue(j)
  PROVE  CallsSound'
  <1>1. Cardinality({k \in Jobs : dueAt[k] > 0}) \in Nat
    BY JobsAssumption, FS_Subset, FS_CardinalityType
  <1>2. dueAt' \in [Jobs -> Nat]
    BY <1>1 DEF BecomeDue, CallInv, ScheduledTypeOK
  <1>3. UNCHANGED <<request, scheduled, jobLock, studentLock, draft, pass,
                    origin, told, faults>>
    BY DEF BecomeDue, vars
  <1>4. CallsInStep'
    BY <1>3 DEF CallInv, ScheduledTypeOK, CallsInStep, At
  <1>5. ScheduledTypeOK'
    BY <1>2, <1>3, <1>4 DEF CallInv, ScheduledTypeOK
  <1>6. PassesSound'
    BY <1>3 DEF CallInv, PassesSound
  <1> QED
    BY <1>5, <1>6 DEF CallsSound

LEMMA ScheduledNextSound ==
  ASSUME CallInv, [ScheduledNext]_allVars
  PROVE  CallsSound'
  <1>1. ASSUME NEW r \in Http, HttpStep(r) PROVE CallsSound'
    BY <1>1, HttpStepSound
  <1>2. ASSUME NEW p \in Passes, PassStep(p) PROVE CallsSound'
    BY <1>2, PassStepSound
  <1>3. ASSUME NEW r \in Http, NEW q \in Requests, BreakDeadlock(r, q) PROVE CallsSound'
    BY <1>3, BreakDeadlockSound
  <1>4. ASSUME NEW j \in Jobs, CancelScheduled(j) \/ BecomeDue(j) PROVE CallsSound'
    BY <1>4, CancelScheduledSound, BecomeDueSound
  <1>5. CASE Surroundings
    <2>1. UNCHANGED request /\ UNCHANGED scheduledVars
      BY <1>5 DEF Surroundings, CanteenWrites, AddStock, RemoveStock, SetCatalog,
                  SetCapacity, SetActive, FlagUnclaimed
    <2> QED
      BY <2>1, CoreMoves
  <1>6. CASE UNCHANGED allVars
    <2>1. UNCHANGED request /\ UNCHANGED scheduledVars
      BY <1>6 DEF allVars, vars
    <2> QED
      BY <2>1, CoreMoves
  <1> QED
    BY <1>1, <1>2, <1>3, <1>4, <1>5, <1>6 DEF ScheduledNext

LEMMA CallInvariance == ScheduledSpec => []CallInv
  <1>1. CallInv /\ [ScheduledNext]_allVars => CallInv'
    <2> SUFFICES ASSUME CallInv, [ScheduledNext]_allVars PROVE CallInv'
      OBVIOUS
    <2>1. TypeInv'
      BY ScheduledNextIsOrders, NextTyped DEF CallInv
    <2> QED
      BY <2>1, ScheduledNextSound DEF CallInv, CallsSound
  <1> QED
    BY <1>1, InitCallInv, PTL DEF ScheduledSpec

(* The rows, the batches and the locks of every call are those of its      *)
(* stage: no pass of executeDue and no programming leaves a lock behind,   *)
(* wherever it dies.                                                       *)
THEOREM ScheduledTypeCorrect == ScheduledSpec => []ScheduledTypeOK
  BY CallInvariance, PTL DEF CallInv

(* Whatever passes and programmings do, the order core only sees creations *)
(* it has to expect from HTTP requests: executeOne calls                   *)
(* createWithinTransaction and nothing else of it.                         *)
THEOREM ScheduledImplementsOrders == ScheduledSpec => ImplementsOrders
  <1>1. ScheduledInit => Init
    BY DEF ScheduledInit
  <1>2. CallInv /\ [ScheduledNext]_allVars => [Next]_vars
    BY ScheduledNextIsOrders
  <1> QED
    BY <1>1, <1>2, CallInvariance, PTL DEF ScheduledSpec, ImplementsOrders, Spec

-----------------------------------------------------------------------------
(***************************************************************************)
(* What a step may do to the rows, and what follows.                       *)
(***************************************************************************)

RowsKept == UNCHANGED <<scheduled, origin, told>>

(* The row is cancelled by its student or marked FAILED by a pass. *)
Closed(j, status) ==
    /\ scheduled[j] \in ScheduledRow
    /\ scheduled[j].status = "PENDING"
    /\ scheduled' = [scheduled EXCEPT ![j].status = status]
    /\ origin' = origin
    /\ \/ told' = told
       \/ status = "FAILED" /\ told' = [told EXCEPT ![j] = @ + 1]

RowStep ==
    \/ RowsKept
    \/ \E r \in Http, j \in Jobs : CommitProgram(r, j)
    \/ \E j \in Jobs, status \in {"CANCELLED", "FAILED"} : Closed(j, status)
    \/ \E p \in Passes, o \in OrderIds : Place(p, o)

LEMMA MarkFailedCloses ==
  ASSUME CallInv, NEW p \in Passes, NEW sent \in BOOLEAN, MarkFailed(p, sent)
  PROVE  \E j \in Jobs : Closed(j, "FAILED")
  <1> DEFINE j == pass[p].job
  <1>1. j \in Jobs /\ scheduled[j] # NoOrder
    BY RowsOfPass DEF MarkFailed, At, CallInv, PassesSound
  <1>2. scheduled[j] \in ScheduledRow /\ scheduled[j].status = "PENDING"
    BY <1>1 DEF MarkFailed, StillPending, CallInv, ScheduledTypeOK
  <1>3. told' = told \/ told' = [told EXCEPT ![j] = @ + 1]
    BY <1>1 DEF MarkFailed, CallInv, ScheduledTypeOK
  <1>4. Closed(j, "FAILED")
    BY <1>2, <1>3 DEF MarkFailed, Closed
  <1> QED
    BY <1>1, <1>4

LEMMA RowsMove ==
  ASSUME CallInv, [ScheduledNext]_allVars
  PROVE  RowStep
  <1>1. ASSUME NEW r \in Http, HttpStep(r) PROVE RowStep
    <2>1. CASE \E j \in Jobs : CommitProgram(r, j)
      BY <2>1 DEF RowStep
    <2>2. CASE ~ \E j \in Jobs : CommitProgram(r, j)
      <3>1. RowsKept
        BY <1>1, <2>2 DEF HttpStep, ContinueProgram, HttpArrive, HttpContinue, HttpAbort,
              ReadForProgram, LockStudent, RefuseCap, AbortProgram, RowsKept, scheduledVars
      <3> QED
        BY <3>1 DEF RowStep
    <2> QED
      BY <2>1, <2>2
  <1>2. ASSUME NEW p \in Passes, PassStep(p) PROVE RowStep
    <2>1. CASE \E o \in OrderIds : Place(p, o)
      BY <2>1 DEF RowStep
    <2>2. CASE \E sent \in BOOLEAN : MarkFailed(p, sent)
      BY <2>2, MarkFailedCloses DEF RowStep
    <2>3. CASE \/ StartPass(p) \/ LeavePending(p) \/ LoseMark(p) \/ PassLocks(p)
               \/ RejectJob(p) \/ RefuseJob(p) \/ TechnicalError(p) \/ Kill(p)
               \/ \E j \in Jobs : Claim(p, j) \/ Skip(p, j)
               \/ \E total \in Totals : ReadJob(p, total)
      <3>1. RowsKept
        BY <2>3 DEF StartPass, LeavePending, LoseMark, PassLocks, RejectJob, RefuseJob,
              TechnicalError, Kill, Claim, Skip, ReadJob, Rollback, RowsKept, scheduledVars
      <3> QED
        BY <3>1 DEF RowStep
    <2> QED
      BY <1>2, <2>1, <2>2, <2>3 DEF PassStep, ContinuePass
  <1>3. ASSUME NEW r \in Http, NEW q \in Requests, BreakDeadlock(r, q) PROVE RowStep
    BY <1>3 DEF BreakDeadlock, AbortProgram, HttpAbort, Rollback, RowStep, RowsKept,
                scheduledVars
  <1>4. ASSUME NEW j \in Jobs, CancelScheduled(j) PROVE RowStep
    <2>1. Closed(j, "CANCELLED")
      BY <1>4 DEF CancelScheduled, StudentMayCancel, Programmed, Closed, CallInv,
                  ScheduledTypeOK
    <2> QED
      BY <2>1 DEF RowStep
  <1>5. ASSUME NEW j \in Jobs, BecomeDue(j) PROVE RowStep
    BY <1>5 DEF BecomeDue, RowStep, RowsKept
  <1>6. CASE Surroundings \/ UNCHANGED allVars
    BY <1>6 DEF Surroundings, allVars, scheduledVars, RowStep, RowsKept
  <1> QED
    BY <1>1, <1>2, <1>3, <1>4, <1>5, <1>6 DEF ScheduledNext

(* The row that a closing leaves, and the one that a programming inserts. *)
LEMMA ClosedRow ==
  ASSUME CallInv, NEW j \in Jobs, NEW status \in {"CANCELLED", "FAILED"}, Closed(j, status)
  PROVE  /\ scheduled'[j] \in ScheduledRow /\ scheduled'[j] # NoOrder
         /\ scheduled'[j].status = status
         /\ scheduled'[j].student = scheduled[j].student
         /\ scheduled'[j].vendor = scheduled[j].vendor
         /\ scheduled'[j].cart = scheduled[j].cart
         /\ scheduled'[j].order = scheduled[j].order
         /\ \A k \in Jobs \ {j} : scheduled'[k] = scheduled[k]
  <1>1. /\ scheduled'[j] = [scheduled[j] EXCEPT !.status = status]
        /\ \A k \in Jobs \ {j} : scheduled'[k] = scheduled[k]
        /\ scheduled[j] \in ScheduledRow
    BY DEF Closed, CallInv, ScheduledTypeOK
  <1>2. /\ scheduled'[j] \in ScheduledRow
        /\ scheduled'[j].status = status
        /\ scheduled'[j].student = scheduled[j].student
        /\ scheduled'[j].vendor = scheduled[j].vendor
        /\ scheduled'[j].cart = scheduled[j].cart
        /\ scheduled'[j].order = scheduled[j].order
    BY <1>1 DEF ScheduledRow, JobStatuses
  <1> QED
    BY <1>1, <1>2, NoRowAssumption

LEMMA ProgrammedRow ==
  ASSUME CallInv, NEW r \in Http, NEW j \in Jobs, CommitProgram(r, j)
  PROVE  /\ scheduled[j] = NoOrder /\ scheduled'[j] # NoOrder
         /\ draft[r].stage = "counted" /\ draft[r].student \in Students
         /\ scheduled'[j].status = "PENDING"
         /\ scheduled'[j].student = draft[r].student
         /\ scheduled'[j].order = NoOrder
         /\ \A k \in Jobs \ {j} : scheduled'[k] = scheduled[k]
         /\ origin' = origin /\ told' = told
  <1> DEFINE d == draft[r]
             row == [status |-> "PENDING", student |-> d.student, vendor |-> d.vendor,
                     cart |-> d.cart, order |-> NoOrder]
  <1>1. d.stage = "counted" /\ d \in Draft
    BY DEF CommitProgram, CallInv, ScheduledTypeOK
  <1>2. row \in ScheduledRow /\ d.student \in Students
    BY <1>1 DEF Draft, ScheduledRow, JobStatuses
  <1>3. scheduled'[j] = row /\ \A k \in Jobs \ {j} : scheduled'[k] = scheduled[k]
    BY DEF CommitProgram, CallInv, ScheduledTypeOK
  <1>4. scheduled[j] = NoOrder /\ origin' = origin /\ told' = told
    BY DEF CommitProgram
  <1> QED
    BY <1>1, <1>2, <1>3, <1>4, NoRowAssumption

LEMMA PlacedRow ==
  ASSUME CallInv, NEW p \in Passes, NEW o \in OrderIds, Place(p, o), NEW j, j = pass[p].job
  PROVE  /\ j \in Jobs /\ scheduled[j] \in ScheduledRow /\ scheduled'[j] # NoOrder
         /\ scheduled[j].status = "PENDING"
         /\ scheduled'[j].status = "PLACED" /\ scheduled'[j].order = o
         /\ scheduled'[j].student = scheduled[j].student
         /\ scheduled'[j].vendor = scheduled[j].vendor
         /\ scheduled'[j].cart = scheduled[j].cart
         /\ \A k \in Jobs \ {j} : scheduled'[k] = scheduled[k]
         /\ origin'[o] = j /\ \A n \in OrderIds \ {o} : origin'[n] = origin[n]
         /\ told' = told
  <1>1. /\ j \in Jobs /\ scheduled[j] \in ScheduledRow
        /\ scheduled[j].status = "PENDING"
    BY ClaimedRow DEF Place
  <1>2. /\ scheduled'[j] = [scheduled[j] EXCEPT !.status = "PLACED", !.order = o]
        /\ \A k \in Jobs \ {j} : scheduled'[k] = scheduled[k]
    BY <1>1 DEF Place, CallInv, ScheduledTypeOK
  <1>3. /\ scheduled'[j] \in ScheduledRow
        /\ scheduled'[j].status = "PLACED" /\ scheduled'[j].order = o
        /\ scheduled'[j].student = scheduled[j].student
        /\ scheduled'[j].vendor = scheduled[j].vendor
        /\ scheduled'[j].cart = scheduled[j].cart
    BY <1>1, <1>2 DEF ScheduledRow, JobStatuses
  <1>4. /\ origin'[o] = j /\ \A n \in OrderIds \ {o} : origin'[n] = origin[n]
        /\ told' = told
    BY DEF Place, CallInv, ScheduledTypeOK
  <1> QED
    BY <1>1, <1>2, <1>3, <1>4, NoRowAssumption

(* What one row, its order and its notifications say together. *)
JobInv(j) ==
    /\ scheduled[j] # NoOrder =>
          (scheduled[j].status = "PLACED" <=> scheduled[j].order # NoOrder)
    /\ \A o \in OrderIds :
          origin[o] = j <=> scheduled[j] # NoOrder /\ scheduled[j].order = o
    /\ scheduled[j] # NoOrder /\ scheduled[j].order # NoOrder =>
          LET row == scheduled[j]
              order == orders[row.order] IN
          /\ order # NoOrder
          /\ order.student = row.student
          /\ order.vendor = row.vendor
          /\ order.reserved = row.cart.need
    /\ told[j] > 0 => /\ told[j] = 1
                      /\ scheduled[j] # NoOrder
                      /\ scheduled[j].status = "FAILED"

JobsInv == \A j \in Jobs : JobInv(j)

(* The creation of a pass is the one its row asks for. *)
Creates(p) ==
    LET row == scheduled[pass[p].job] IN
    /\ request[p].op \in {"create", "locked"}
    /\ request[p].student = row.student
    /\ request[p].vendor = row.vendor
    /\ request[p].need = row.cart.need

CreationsMatch == \A p \in Passes : At(p, "creating") => Creates(p)

LEMMA JobsInvSays == JobsInv => PlacedOnce /\ ToldOnlyOfFailures
  <1> SUFFICES ASSUME JobsInv PROVE PlacedOnce /\ ToldOnlyOfFailures
    OBVIOUS
  <1>1. PlacedOnce
    BY DEF JobsInv, JobInv, PlacedOnce, Programmed
  <1>2. ToldOnlyOfFailures
    <2> SUFFICES ASSUME NEW j \in Jobs, told[j] > 0
                 PROVE  /\ told[j] = 1 /\ scheduled[j] # NoOrder
                        /\ scheduled[j].status = "FAILED"
                        /\ \A o \in OrderIds : origin[o] # j
      BY DEF ToldOnlyOfFailures
    <2>1. told[j] = 1 /\ scheduled[j] # NoOrder /\ scheduled[j].status = "FAILED"
      BY DEF JobsInv, JobInv
    <2>2. scheduled[j].order = NoOrder
      BY <2>1 DEF JobsInv, JobInv
    <2> QED
      BY <2>1, <2>2, NoRowAssumption DEF JobsInv, JobInv
  <1> QED
    BY <1>1, <1>2

(* No step of the order core takes an order away or changes whose it is. *)
LEMMA OrdersKeepParties ==
  ASSUME TypeInv, [Next]_vars, NEW o \in OrderIds, orders[o] # NoOrder
  PROVE  /\ orders'[o] # NoOrder
         /\ orders'[o].student = orders[o].student
         /\ orders'[o].vendor = orders[o].vendor
         /\ orders'[o].reserved = orders[o].reserved
  <1>1. OrderStep(o)
    BY NextSteps
  <1> QED
    BY <1>1, NoOrderAssumption
       DEF OrderStep, Kept, Born, Advanced, Withdrawn, Flagged, SameParties

(* A row that the step leaves alone. *)
LEMMA JobLeft ==
  ASSUME CallInv, [Next]_vars, NEW j \in Jobs, JobInv(j),
         scheduled'[j] = scheduled[j],
         \A o \in OrderIds : origin'[o] = j <=> origin[o] = j,
         told'[j] = told[j]
  PROVE  JobInv(j)'
  <1>1. scheduled[j] # NoOrder => scheduled[j].order \in OrderIds \cup {NoOrder}
    BY DEF CallInv, ScheduledTypeOK, ScheduledRow
  <1>2. scheduled[j] # NoOrder /\ scheduled[j].order # NoOrder =>
          LET o == scheduled[j].order IN
          /\ orders'[o] # NoOrder
          /\ orders'[o].student = orders[o].student
          /\ orders'[o].vendor = orders[o].vendor
          /\ orders'[o].reserved = orders[o].reserved
    BY <1>1, OrdersKeepParties DEF JobInv, CallInv
  <1> QED
    BY <1>2 DEF JobInv

(* A row that is programmed, cancelled or marked: it has no order, and no  *)
(* order has it.                                                           *)
LEMMA JobWithoutOrder ==
  ASSUME CallInv, NEW j \in Jobs, JobInv(j),
         scheduled[j] = NoOrder \/ scheduled[j].order = NoOrder,
         scheduled'[j] # NoOrder, scheduled'[j].order = NoOrder,
         scheduled'[j].status # "PLACED", origin' = origin,
         told'[j] > 0 => told'[j] = 1 /\ scheduled'[j].status = "FAILED"
  PROVE  JobInv(j)'
  <1>1. \A o \in OrderIds : origin[o] # j
    BY NoRowAssumption DEF JobInv
  <1> QED
    BY <1>1, NoRowAssumption DEF JobInv

LEMMA PlaceKeepsJobs ==
  ASSUME CallInv, JobsInv, CreationsMatch, [Next]_vars,
         NEW p \in Passes, NEW o \in OrderIds, Place(p, o)
  PROVE  JobsInv'
  <1>1. PICK j : j = pass[p].job
    OBVIOUS
  <1>2. p \in Requests /\ CommitCreate(p, o) /\ TypeInv
    BY PassesAssumption DEF Place, CallInv
  <1>3. /\ orders[o] = NoOrder /\ orders'[o] # NoOrder
        /\ orders'[o].student = request[p].student
        /\ orders'[o].vendor = request[p].vendor
        /\ orders'[o].reserved = request[p].need
    BY <1>2, CreatedRow
  <1>4. /\ request[p].student = scheduled[j].student
        /\ request[p].vendor = scheduled[j].vendor
        /\ request[p].need = scheduled[j].cart.need
    BY <1>1 DEF CreationsMatch, Creates, Place
  <1>5. \A n \in Jobs : origin[o] # n
    BY <1>3, NoRowAssumption DEF JobsInv, JobInv
  <1>6. JobInv(j)'
    <2>1. /\ j \in Jobs /\ scheduled[j] \in ScheduledRow /\ scheduled[j] # NoOrder
          /\ scheduled[j].status = "PENDING"
          /\ scheduled'[j] # NoOrder
          /\ scheduled'[j].status = "PLACED" /\ scheduled'[j].order = o
          /\ scheduled'[j].student = scheduled[j].student
          /\ scheduled'[j].vendor = scheduled[j].vendor
          /\ scheduled'[j].cart = scheduled[j].cart
          /\ origin'[o] = j /\ \A n \in OrderIds \ {o} : origin'[n] = origin[n]
          /\ told' = told
      BY <1>1, PlacedRow, NoRowAssumption
    <2>2. JobInv(j)
      BY <2>1 DEF JobsInv
    <2>3. scheduled[j].order = NoOrder /\ ~(told[j] > 0)
      BY <2>1, <2>2 DEF JobInv
    <2>4. \A n \in OrderIds : origin[n] # j
      BY <2>2, <2>3, NoRowAssumption DEF JobInv
    <2>5. \A n \in OrderIds : origin'[n] = j <=> n = o
      BY <2>1, <2>4
    <2>6. o # NoOrder
      BY NoRowAssumption
    <2>7. /\ orders'[o].student = scheduled'[j].student
          /\ orders'[o].vendor = scheduled'[j].vendor
          /\ orders'[o].reserved = scheduled'[j].cart.need
      BY <1>3, <1>4, <2>1
    <2>8. ~(told'[j] > 0)
      BY <2>1, <2>3
    <2> QED
      BY <1>3, <2>1, <2>5, <2>6, <2>7, <2>8 DEF JobInv
  <1>7. ASSUME NEW n \in Jobs \ {j} PROVE JobInv(n)'
    <2>1. /\ scheduled'[n] = scheduled[n]
          /\ origin'[o] = j /\ \A m \in OrderIds \ {o} : origin'[m] = origin[m]
          /\ told' = told
      BY <1>1, PlacedRow
    <2>2. \A m \in OrderIds : origin'[m] = n <=> origin[m] = n
      BY <1>5, <2>1
    <2>3. JobInv(n)
      BY DEF JobsInv
    <2> QED
      BY <2>1, <2>2, <2>3, JobLeft
  <1> QED
    BY <1>6, <1>7 DEF JobsInv

LEMMA StepKeepsJobs ==
  ASSUME CallInv, JobsInv, CreationsMatch, [ScheduledNext]_allVars
  PROVE  JobsInv'
  <1>1. [Next]_vars /\ RowStep
    BY ScheduledNextIsOrders, RowsMove
  <1>2. ASSUME NEW j \in Jobs, \A k \in Jobs \ {j} : scheduled'[k] = scheduled[k],
               origin' = origin, \A k \in Jobs \ {j} : told'[k] = told[k], JobInv(j)'
        PROVE  JobsInv'
    <2>1. ASSUME NEW k \in Jobs \ {j} PROVE JobInv(k)'
      <3>1. JobInv(k) /\ \A o \in OrderIds : origin'[o] = k <=> origin[o] = k
        BY <1>2 DEF JobsInv
      <3>2. scheduled'[k] = scheduled[k] /\ told'[k] = told[k]
        BY <1>2
      <3> QED
        BY <1>1, <3>1, <3>2, JobLeft
    <2> QED
      BY <1>2, <2>1 DEF JobsInv
  <1>3. CASE RowsKept
    <2>1. ASSUME NEW j \in Jobs PROVE JobInv(j)'
      <3>1. scheduled'[j] = scheduled[j] /\ told'[j] = told[j] /\ origin' = origin
        BY <1>3 DEF RowsKept
      <3>2. JobInv(j)
        BY DEF JobsInv
      <3> QED
        BY <1>1, <3>1, <3>2, JobLeft
    <2> QED
      BY <2>1 DEF JobsInv
  <1>4. ASSUME NEW r \in Http, NEW j \in Jobs, CommitProgram(r, j) PROVE JobsInv'
    <2>1. JobInv(j)
      BY DEF JobsInv
    <2>2. ~(told[j] > 0) /\ told' = told
      BY <1>4, <2>1, ProgrammedRow DEF JobInv
    <2>3. JobInv(j)'
      BY <1>4, <2>1, <2>2, ProgrammedRow, JobWithoutOrder
    <2> QED
      BY <1>2, <1>4, <2>2, <2>3, ProgrammedRow
  <1>5. ASSUME NEW j \in Jobs, NEW status \in {"CANCELLED", "FAILED"}, Closed(j, status)
        PROVE  JobsInv'
    <2>1. JobInv(j) /\ scheduled[j] # NoOrder /\ scheduled[j].status = "PENDING"
      BY <1>5, NoRowAssumption DEF JobsInv, Closed
    <2>2. scheduled[j].order = NoOrder /\ ~(told[j] > 0)
      BY <2>1 DEF JobInv
    <2>3. /\ told'[j] > 0 => told'[j] = 1 /\ status = "FAILED"
          /\ \A k \in Jobs \ {j} : told'[k] = told[k]
          /\ origin' = origin
      BY <1>5, <2>2 DEF Closed, CallInv, ScheduledTypeOK
    <2>4. JobInv(j)'
      BY <1>5, <2>1, <2>2, <2>3, ClosedRow, JobWithoutOrder
    <2> QED
      BY <1>2, <1>5, <2>3, <2>4, ClosedRow
  <1>6. ASSUME NEW p \in Passes, NEW o \in OrderIds, Place(p, o) PROVE JobsInv'
    BY <1>1, <1>6, PlaceKeepsJobs
  <1> QED
    BY <1>1, <1>3, <1>4, <1>5, <1>6 DEF RowStep

-----------------------------------------------------------------------------
(***************************************************************************)
(* The creation of a pass stays the one its row asks for.                  *)
(***************************************************************************)

(* No step changes whose row it is, nor what it asks for. *)
LEMMA RowsKeepParties ==
  ASSUME CallInv, [ScheduledNext]_allVars, NEW j \in Jobs, scheduled[j] # NoOrder
  PROVE  /\ scheduled'[j].student = scheduled[j].student
         /\ scheduled'[j].vendor = scheduled[j].vendor
         /\ scheduled'[j].cart = scheduled[j].cart
  <1>1. RowStep
    BY RowsMove
  <1>2. CASE RowsKept
    BY <1>2 DEF RowsKept
  <1>3. ASSUME NEW r \in Http, NEW k \in Jobs, CommitProgram(r, k)
        PROVE  scheduled'[j] = scheduled[j]
    BY <1>3, ProgrammedRow
  <1>4. ASSUME NEW k \in Jobs, NEW status \in {"CANCELLED", "FAILED"}, Closed(k, status)
        PROVE  /\ scheduled'[j].student = scheduled[j].student
               /\ scheduled'[j].vendor = scheduled[j].vendor
               /\ scheduled'[j].cart = scheduled[j].cart
    BY <1>4, ClosedRow
  <1>5. ASSUME NEW p \in Passes, NEW o \in OrderIds, Place(p, o)
        PROVE  /\ scheduled'[j].student = scheduled[j].student
               /\ scheduled'[j].vendor = scheduled[j].vendor
               /\ scheduled'[j].cart = scheduled[j].cart
    <2>1. PICK k : k = pass[p].job
      OBVIOUS
    <2> QED
      BY <1>5, <2>1, PlacedRow
  <1> QED
    BY <1>1, <1>2, <1>3, <1>4, <1>5 DEF RowStep

PassRests(p) == pass'[p] = pass[p] /\ request'[p] = request[p]

LEMMA HttpLeavesPasses ==
  ASSUME CallInv, NEW r \in Http, HttpStep(r), NEW p \in Passes
  PROVE  PassRests(p)
  <1>1. CASE HttpArrive(r) \/ HttpContinue(r) \/ HttpAbort(r)
    <2>1. p \in Requests \ {r} /\ r \in Requests /\ TypeOK
      BY PassesAssumption DEF Http, CallInv, TypeInv
    <2>2. Arrive(r) \/ Continue(r) \/ Abort(r)
      BY <1>1 DEF HttpArrive, HttpContinue, HttpAbort
    <2>3. request'[p] = request[p]
      BY <2>1, <2>2, OtherSlots
    <2>4. pass' = pass
      BY <1>1 DEF HttpArrive, HttpContinue, HttpAbort, scheduledVars
    <2> QED
      BY <2>3, <2>4 DEF PassRests
  <1>2. CASE \/ \E s \in Students, v \in Vendors, cart \in Carts : ReadForProgram(r, s, v, cart)
             \/ ContinueProgram(r) \/ AbortProgram(r)
    BY <1>2 DEF ReadForProgram, ContinueProgram, LockStudent, RefuseCap, CommitProgram,
                AbortProgram, PassRests, vars
  <1> QED
    BY <1>1, <1>2 DEF HttpStep

(* A pass does nothing to the other ones, and no step of its own but the   *)
(* reading of the canteen and its lock leaves it creating.                 *)
LEMMA PassLeavesPasses ==
  ASSUME CallInv, NEW p \in Passes, PassStep(p), NEW q \in Passes \ {p}
  PROVE  PassRests(q)
  <1>1. p \in Requests /\ q \in Requests \ {p} /\ TypeOK
    BY PassesAssumption DEF CallInv, TypeInv
  <1>2. request'[q] = request[q]
    <2>1. CASE Arrive(p) \/ Continue(p) \/ Abort(p)
      BY <1>1, <2>1, OtherSlots
    <2>2. CASE \E total \in Totals : ReadJob(p, total)
      BY <1>1, <2>2 DEF ReadJob, ReadForCreate, TypeOK
    <2>3. CASE UNCHANGED vars
      BY <2>3 DEF vars
    <2>4. \/ Arrive(p) \/ Continue(p) \/ Abort(p)
          \/ \E total \in Totals : ReadJob(p, total)
          \/ UNCHANGED vars
      BY DEF PassStep, ContinuePass, StartPass, Claim, Skip, PassLocks, RejectJob, RefuseJob,
             Place, MarkFailed, LoseMark, TechnicalError, LeavePending, Kill, DropRequest,
             Continue
    <2> QED
      BY <2>1, <2>2, <2>3, <2>4
  <1>3. pass'[q] = pass[q]
    BY <1>1 DEF PassStep, ContinuePass, StartPass, Claim, Skip, ReadJob, PassLocks, RejectJob,
         RefuseJob, Place, MarkFailed, LoseMark, TechnicalError, LeavePending, Kill, Rollback,
         DoneWith, GoTo, scheduledVars, CallInv, ScheduledTypeOK
  <1> QED
    BY <1>2, <1>3 DEF PassRests

LEMMA PassStopsCreating ==
  ASSUME CallInv, NEW p \in Passes, PassStep(p),
         ~ \E total \in Totals : ReadJob(p, total), ~ PassLocks(p)
  PROVE  pass'[p].stage # "creating"
  <1>1. pass \in [Passes -> Pass]
    BY RowsOfPass
  <1>2. CASE StartPass(p) \/ Kill(p)
    BY <1>1, <1>2 DEF StartPass, Kill, Off
  <1>3. CASE \E j \in Jobs : Claim(p, j)
    BY <1>1, <1>3 DEF Claim, Pass
  <1>4. CASE \/ LoseMark(p) \/ LeavePending(p)
             \/ \E j \in Jobs : Skip(p, j)
             \/ \E o \in OrderIds : Place(p, o)
             \/ \E sent \in BOOLEAN : MarkFailed(p, sent)
    <2>1. PICK j : pass' = DoneWith(p, j)
      BY <1>4 DEF Skip, LoseMark, LeavePending, Place, MarkFailed
    <2>2. PICK w \in Pass : /\ DoneWith(p, j) = [pass EXCEPT ![p] = w]
                           /\ w.stage \in {"off", "next"}
      BY <1>1, DoneWithPass
    <2>3. pass'[p] = w
      BY <1>1, <2>1, <2>2
    <2> QED
      BY <2>2, <2>3
  <1>5. CASE RejectJob(p) \/ RefuseJob(p) \/ TechnicalError(p)
    <2>1. pass' = GoTo(p, "failing")
      BY <1>5 DEF RejectJob, RefuseJob, TechnicalError, Rollback
    <2> QED
      BY <1>1, <2>1, GoToPass
  <1> QED
    BY <1>2, <1>3, <1>4, <1>5 DEF PassStep, ContinuePass

(* A pass that rests, or that locks the canteen, goes on with its row. *)
LEMMA CreationKept ==
  ASSUME CallInv, CreationsMatch, [ScheduledNext]_allVars, NEW p \in Passes,
         At(p, "creating"), pass'[p] = pass[p],
         request'[p].op \in {"create", "locked"},
         request'[p].student = request[p].student,
         request'[p].vendor = request[p].vendor,
         request'[p].need = request[p].need
  PROVE  Creates(p)'
  <1>1. PICK j : j = pass[p].job
    OBVIOUS
  <1>2. j \in Jobs /\ scheduled[j] # NoOrder
    BY <1>1, ClaimedRow, NoRowAssumption
  <1>3. /\ scheduled'[j].student = scheduled[j].student
        /\ scheduled'[j].vendor = scheduled[j].vendor
        /\ scheduled'[j].cart = scheduled[j].cart
    BY <1>2, RowsKeepParties
  <1>4. Creates(p)
    BY DEF CreationsMatch
  <1> QED
    BY <1>1, <1>3, <1>4 DEF Creates

LEMMA ReadJobCreates ==
  ASSUME CallInv, NEW p \in Passes, NEW total \in Totals, ReadJob(p, total)
  PROVE  Creates(p)'
  <1>1. /\ pass \in [Passes -> Pass] /\ p \in Requests
        /\ request \in [Requests -> Request]
    BY RowsOfPass, PassesAssumption DEF CallInv, TypeInv, TypeOK
  <1>2. PICK j : j = pass[p].job
    OBVIOUS
  <1>3. pass'[p].job = j
    BY <1>1, <1>2, GoToPass DEF ReadJob
  <1>4. request'[p] = [op |-> "create", student |-> scheduled[j].student,
                       vendor |-> scheduled[j].vendor,
                       need |-> scheduled[j].cart.need, total |-> total]
    BY <1>1, <1>2 DEF ReadJob, ReadForCreate
  <1>5. scheduled' = scheduled
    BY DEF ReadJob
  <1> QED
    BY <1>3, <1>4, <1>5 DEF Creates

LEMMA StepKeepsCreations ==
  ASSUME CallInv, CreationsMatch, [ScheduledNext]_allVars
  PROVE  CreationsMatch'
  <1>1. ASSUME NEW p \in Passes, PassRests(p), At(p, "creating")' PROVE Creates(p)'
    <2>1. At(p, "creating") /\ Creates(p)
      BY <1>1 DEF PassRests, At, CreationsMatch
    <2> QED
      BY <1>1, <2>1, CreationKept DEF PassRests, Creates
  <1>2. ASSUME NEW r \in Http, HttpStep(r) PROVE CreationsMatch'
    BY <1>1, <1>2, HttpLeavesPasses DEF CreationsMatch
  <1>3. ASSUME NEW p \in Passes, PassStep(p) PROVE CreationsMatch'
    <2> SUFFICES ASSUME NEW q \in Passes, At(q, "creating")' PROVE Creates(q)'
      BY DEF CreationsMatch
    <2>1. CASE q # p
      BY <1>1, <1>3, <2>1, PassLeavesPasses
    <2>2. ASSUME q = p, NEW total \in Totals, ReadJob(p, total) PROVE Creates(q)'
      BY <2>2, ReadJobCreates
    <2>3. CASE q = p /\ PassLocks(p)
      <3>1. /\ pass' = pass /\ At(p, "creating") /\ LockCanteen(p)
            /\ p \in Requests /\ request \in [Requests -> Request]
        BY <2>3, PassesAssumption DEF PassLocks, scheduledVars, CallInv, TypeInv, TypeOK
      <3>2. /\ request'[p].op = "locked"
            /\ request'[p].student = request[p].student
            /\ request'[p].vendor = request[p].vendor
            /\ request'[p].need = request[p].need
        BY <3>1 DEF LockCanteen
      <3> QED
        BY <2>3, <3>1, <3>2, CreationKept
    <2> QED
      BY <1>3, <2>1, <2>2, <2>3, PassStopsCreating DEF At
  <1>4. ASSUME NEW r \in Http, NEW q \in Requests, BreakDeadlock(r, q) PROVE CreationsMatch'
    <2>1. CASE AbortProgram(r)
      <3>1. \A p \in Passes : PassRests(p)
        BY <2>1 DEF AbortProgram, PassRests, vars
      <3> QED
        BY <1>1, <3>1 DEF CreationsMatch
    <2>2. CASE q \in Http /\ HttpAbort(q)
      <3>1. HttpStep(q)
        BY <2>2 DEF HttpStep
      <3> QED
        BY <1>2, <2>2, <3>1
    <2>3. CASE q \in Passes /\ Abort(q) /\ Rollback(q)
      <3> SUFFICES ASSUME NEW p \in Passes, At(p, "creating")' PROVE Creates(p)'
        BY DEF CreationsMatch
      <3>1. pass \in [Passes -> Pass] /\ pass' = GoTo(q, "failing")
        BY <2>3, RowsOfPass DEF Rollback
      <3>2. p # q /\ pass'[p] = pass[p]
        BY <2>3, <3>1, GoToPass DEF At
      <3>3. request'[p] = request[p]
        BY <2>3, <3>2, OtherSlots, PassesAssumption DEF CallInv, TypeInv
      <3> QED
        BY <1>1, <3>2, <3>3 DEF PassRests
    <2> QED
      BY <1>4, <2>1, <2>2, <2>3 DEF BreakDeadlock
  <1>5. CASE \/ \E j \in Jobs : CancelScheduled(j) \/ BecomeDue(j)
             \/ Surroundings \/ UNCHANGED allVars
    <2>1. \A p \in Passes : PassRests(p)
      BY <1>5 DEF CancelScheduled, BecomeDue, Surroundings, CanteenWrites, AddStock,
                  RemoveStock, SetCatalog, SetCapacity, SetActive, FlagUnclaimed,
                  allVars, vars, scheduledVars, PassRests
    <2> QED
      BY <1>1, <2>1 DEF CreationsMatch
  <1> QED
    BY <1>2, <1>3, <1>4, <1>5 DEF ScheduledNext

RowsInv == CallInv /\ JobsInv /\ CreationsMatch

LEMMA RowsInvariance == ScheduledSpec => []RowsInv
  <1>1. ScheduledInit => JobsInv /\ CreationsMatch
    <2> SUFFICES ASSUME ScheduledInit PROVE JobsInv /\ CreationsMatch
      OBVIOUS
    <2>1. JobsInv
      BY NoJobAssumption DEF ScheduledInit, JobsInv, JobInv
    <2>2. CreationsMatch
      BY DEF ScheduledInit, CreationsMatch, At, Off
    <2> QED
      BY <2>1, <2>2
  <1>2. RowsInv /\ [ScheduledNext]_allVars => (JobsInv /\ CreationsMatch)'
    BY StepKeepsJobs, StepKeepsCreations DEF RowsInv
  <1> QED
    BY <1>1, <1>2, CallInvariance, PTL DEF ScheduledSpec, RowsInv

(* executeDue and executeOne, with their claim, their one transaction and  *)
(* their mark outside of it, place a row at most once, with the order it   *)
(* asked for: whatever passes overlap, fail, deadlock or are killed.       *)
THEOREM ScheduledPlacedOnce == ScheduledSpec => []PlacedOnce
  <1>1. RowsInv => PlacedOnce
    BY JobsInvSays DEF RowsInv
  <1> QED
    BY <1>1, RowsInvariance, PTL

(* The notification of markFailed tells the truth: the row it speaks of    *)
(* never cost a ticket, and no second pass says it again.                  *)
THEOREM ScheduledToldOnlyOfFailures == ScheduledSpec => []ToldOnlyOfFailures
  <1>1. RowsInv => ToldOnlyOfFailures
    BY JobsInvSays DEF RowsInv
  <1> QED
    BY <1>1, RowsInvariance, PTL

-----------------------------------------------------------------------------
(***************************************************************************)
(* The cap on pending rows.                                                *)
(***************************************************************************)

(* A student whose pending rows have been counted is not yet at the cap. *)
CapInv ==
    /\ PendingCap
    /\ \A r \in Http : draft[r].stage = "counted" =>
            Cardinality(PendingOf(draft[r].student)) < MaxPending

(* The count of a student's pending rows: it grows by one row at most, and *)
(* only when one of his programmings commits.                              *)
LEMMA PendingFinite ==
  ASSUME NEW s PROVE IsFiniteSet(PendingOf(s)) /\ Cardinality(PendingOf(s)) \in Nat
  <1>1. PendingOf(s) \subseteq Jobs
    BY DEF PendingOf, PendingJobs, Programmed
  <1> QED
    BY <1>1, JobsAssumption, FS_Subset, FS_CardinalityType

LEMMA PendingShrinks ==
  ASSUME CallInv, [ScheduledNext]_allVars, NEW s,
         \A r \in Http, j \in Jobs : CommitProgram(r, j) => draft[r].student # s
  PROVE  Cardinality(PendingOf(s))' <= Cardinality(PendingOf(s))
  <1>1. ASSUME NEW j \in Jobs, scheduled'[j] # NoOrder, scheduled'[j].status = "PENDING",
               scheduled'[j].student = s
        PROVE  /\ scheduled[j] # NoOrder /\ scheduled[j].status = "PENDING"
               /\ scheduled[j].student = s
    <2>1. RowStep
      BY RowsMove
    <2>2. CASE RowsKept
      BY <1>1, <2>2 DEF RowsKept
    <2>3. ASSUME NEW r \in Http, NEW k \in Jobs, CommitProgram(r, k)
          PROVE  scheduled'[j] = scheduled[j]
      BY <1>1, <2>3, ProgrammedRow
    <2>4. ASSUME NEW k \in Jobs, NEW status \in {"CANCELLED", "FAILED"}, Closed(k, status)
          PROVE  scheduled'[j] = scheduled[j]
      BY <1>1, <2>4, ClosedRow
    <2>5. ASSUME NEW p \in Passes, NEW o \in OrderIds, Place(p, o)
          PROVE  scheduled'[j] = scheduled[j]
      <3>1. PICK k : k = pass[p].job
        OBVIOUS
      <3> QED
        BY <1>1, <2>5, <3>1, PlacedRow
    <2> QED
      BY <1>1, <2>1, <2>2, <2>3, <2>4, <2>5 DEF RowStep
  <1>2. PendingOf(s)' \subseteq PendingOf(s)
    BY <1>1 DEF PendingOf, PendingJobs, Programmed
  <1>3. Cardinality(PendingOf(s)') <= Cardinality(PendingOf(s))
    BY <1>2, PendingFinite, FS_Subset
  <1> QED
    BY <1>3

LEMMA PendingGrows ==
  ASSUME CallInv, NEW r \in Http, NEW j \in Jobs, CommitProgram(r, j), NEW s
  PROVE  Cardinality(PendingOf(s))' <= Cardinality(PendingOf(s)) + 1
  <1> DEFINE more == PendingOf(s) \cup {j}
  <1>1. PendingOf(s)' \subseteq more
    BY ProgrammedRow DEF PendingOf, PendingJobs, Programmed
  <1>2. IsFiniteSet(more) /\ Cardinality(more) <= Cardinality(PendingOf(s)) + 1
    BY PendingFinite, FS_AddElement
  <1>3. Cardinality(PendingOf(s)') <= Cardinality(more)
    BY <1>1, <1>2, FS_Subset
  <1>4. /\ Cardinality(PendingOf(s)') \in Nat /\ Cardinality(more) \in Nat
        /\ Cardinality(PendingOf(s)) \in Nat
    BY <1>1, <1>2, PendingFinite, FS_Subset, FS_CardinalityType
  <1> HIDE DEF more
  <1> QED
    BY <1>2, <1>3, <1>4

(* A programming that has counted had counted before, or does so now. *)
LEMMA CountedDraft ==
  ASSUME CallInv, [ScheduledNext]_allVars, NEW r \in Http, draft'[r].stage = "counted"
  PROVE  draft'[r] = draft[r] \/ LockStudent(r)
  <1>1. draft \in [Http -> Draft]
    BY DEF CallInv, ScheduledTypeOK
  <1>2. ASSUME NEW q \in Http, HttpStep(q) PROVE draft'[r] = draft[r] \/ LockStudent(r)
    <2>1. CASE LockStudent(q)
      BY <1>1, <2>1 DEF LockStudent
    <2>2. CASE ~ LockStudent(q)
      BY <1>1, <1>2, <2>2 DEF HttpStep, ContinueProgram, HttpArrive, HttpContinue, HttpAbort,
            ReadForProgram, RefuseCap, CommitProgram, AbortProgram, NoDraft, scheduledVars
    <2> QED
      BY <2>1, <2>2
  <1>3. ASSUME NEW p \in Passes, PassStep(p) PROVE draft' = draft
    BY <1>3 DEF PassStep, ContinuePass, StartPass, Claim, Skip, ReadJob, PassLocks, RejectJob,
         RefuseJob, Place, MarkFailed, LoseMark, TechnicalError, LeavePending, Kill, Rollback,
         scheduledVars
  <1>4. ASSUME NEW q \in Http, NEW p \in Requests, BreakDeadlock(q, p)
        PROVE  draft'[r] = draft[r]
    BY <1>1, <1>4 DEF BreakDeadlock, AbortProgram, HttpAbort, Rollback, NoDraft, scheduledVars
  <1>5. CASE \/ \E j \in Jobs : CancelScheduled(j) \/ BecomeDue(j)
             \/ Surroundings \/ UNCHANGED allVars
    BY <1>5 DEF CancelScheduled, BecomeDue, Surroundings, allVars, scheduledVars
  <1> QED
    BY <1>2, <1>3, <1>4, <1>5 DEF ScheduledNext

LEMMA StepKeepsCap ==
  ASSUME CallInv, CapInv, [ScheduledNext]_allVars
  PROVE  CapInv'
  <1>1. ASSUME NEW s
        PROVE  Cardinality(PendingOf(s)) \in Nat /\ Cardinality(PendingOf(s))' \in Nat
    <2>1. PendingOf(s)' \subseteq Jobs
      BY DEF PendingOf, PendingJobs, Programmed
    <2>2. Cardinality(PendingOf(s)') \in Nat
      BY <2>1, JobsAssumption, FS_Subset, FS_CardinalityType
    <2> QED
      BY <2>2, PendingFinite
  <1>2. PendingCap'
    <2> SUFFICES ASSUME NEW s \in Students PROVE Cardinality(PendingOf(s))' <= MaxPending
      BY DEF PendingCap
    <2>1. CASE \A r \in Http, j \in Jobs : CommitProgram(r, j) => draft[r].student # s
      BY <1>1, <2>1, PendingShrinks, LimitsAssumption DEF CapInv, PendingCap
    <2>2. ASSUME NEW r \in Http, NEW j \in Jobs, CommitProgram(r, j), draft[r].student = s
          PROVE  Cardinality(PendingOf(s))' <= MaxPending
      <3>1. Cardinality(PendingOf(s)) < MaxPending
        BY <2>2 DEF CapInv, CommitProgram
      <3> QED
        BY <1>1, <2>2, <3>1, PendingGrows, LimitsAssumption
    <2> QED
      BY <2>1, <2>2
  <1>3. ASSUME NEW r \in Http, draft'[r].stage = "counted", NEW s, s = draft'[r].student
        PROVE  Cardinality(PendingOf(s))' < MaxPending
    <2>1. CASE LockStudent(r)
      <3>1. scheduled' = scheduled /\ draft \in [Http -> Draft]
        BY <2>1 DEF LockStudent, CallInv, ScheduledTypeOK
      <3>2. s = draft[r].student /\ Cardinality(PendingOf(draft[r].student)) < MaxPending
        BY <1>3, <2>1, <3>1 DEF LockStudent
      <3>3. PendingOf(s)' = PendingOf(s)
        BY <3>1 DEF PendingOf, PendingJobs, Programmed
      <3> QED
        BY <3>2, <3>3
    <2>2. CASE draft'[r] = draft[r]
      <3>1. Cardinality(PendingOf(s)) < MaxPending /\ s \in Students /\ studentLock[s] = r
        <4>1. draft[r] \in Draft /\ draft[r].stage = "counted" /\ draft[r].student = s
          BY <1>3, <2>2 DEF CallInv, ScheduledTypeOK
        <4>2. s \in Students
          BY <4>1 DEF Draft
        <4> QED
          BY <4>1, <4>2 DEF CapInv, CallInv, ScheduledTypeOK, CallsInStep
      <3>2. ASSUME NEW q \in Http, NEW j \in Jobs, CommitProgram(q, j) PROVE draft[q].student # s
        <4>1. q # r
          BY <1>3, <3>2 DEF CommitProgram, NoDraft, CallInv, ScheduledTypeOK
        <4> QED
          BY <3>1, <3>2, <4>1 DEF CommitProgram, CallInv, ScheduledTypeOK, CallsInStep
      <3>3. Cardinality(PendingOf(s))' <= Cardinality(PendingOf(s))
        BY <3>2, PendingShrinks
      <3> QED
        BY <1>1, <3>1, <3>3, LimitsAssumption
    <2> QED
      BY <1>3, <2>1, <2>2, CountedDraft
  <1>4. \A r \in Http : draft'[r].stage = "counted" =>
            Cardinality(PendingOf(draft[r].student))' < MaxPending
    BY <1>3
  <1> QED
    BY <1>2, <1>4 DEF CapInv

(* ScheduledOrdersService.create locks the student before it counts: no    *)
(* number of programmings under way takes him past the cap.                *)
THEOREM ScheduledPendingCap == ScheduledSpec => []PendingCap
  <1>1. ScheduledInit => CapInv
    <2> SUFFICES ASSUME ScheduledInit PROVE CapInv
      OBVIOUS
    <2>1. \A s : PendingOf(s) = {}
      BY DEF ScheduledInit, PendingOf, PendingJobs, Programmed
    <2>2. PendingCap
      BY <2>1, FS_EmptySet, LimitsAssumption DEF PendingCap
    <2> QED
      BY <2>2 DEF ScheduledInit, NoDraft, CapInv
  <1>2. CallInv /\ CapInv /\ [ScheduledNext]_allVars => CapInv'
    BY StepKeepsCap
  <1>3. CapInv => PendingCap
    BY DEF CapInv
  <1> QED
    BY <1>1, <1>2, <1>3, CallInvariance, PTL DEF ScheduledSpec

=============================================================================

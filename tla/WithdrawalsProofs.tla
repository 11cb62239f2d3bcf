-------------------------- MODULE WithdrawalsProofs --------------------------
(***************************************************************************)
(* Proofs about Withdrawals, for any number of canteens, withdrawals and   *)
(* calls.                                                                  *)
(***************************************************************************)
EXTENDS Withdrawals, SumsProofs, TLAPS

(* What a call in flight knows, by its operation. *)
LEMMA CallShape ==
    ASSUME TypeOK, NEW a \in Callers
    PROVE  /\ call[a].op = "request" =>
                call[a].vendor \in Vendors /\ call[a].debit \in Nat
           /\ call[a].op = "accept" => call[a].of \in WithdrawalIds
           /\ call[a].op = "proof" =>
                call[a].of \in WithdrawalIds /\ call[a].image \in Proofs
           /\ call[a].op = "confirm" => call[a].of \in WithdrawalIds
           /\ call[a].op = "close" =>
                call[a].of \in WithdrawalIds /\ call[a].target \in Closed
           /\ Idle \in Call
<1>1. call[a] \in Call
    BY DEF TypeOK
<1>2. CASE call[a] \in [op : {"idle"}]
    BY <1>2 DEF Call, Idle
<1>3. CASE call[a] \in [op : {"request"}, vendor : Vendors, debit : Debits]
    BY <1>3, DebitsAssumption DEF Call, Idle
<1>4. CASE call[a] \in [op : {"accept", "confirm"}, of : WithdrawalIds]
    BY <1>4 DEF Call, Idle
<1>5. CASE call[a] \in [op : {"proof"}, of : WithdrawalIds, image : Proofs]
    BY <1>5 DEF Call, Idle
<1>6. CASE call[a] \in [op : {"close"}, of : WithdrawalIds, target : Closed]
    BY <1>6 DEF Call, Idle
<1> QED
    BY <1>1, <1>2, <1>3, <1>4, <1>5, <1>6 DEF Call

(* A row is a row of the table wherever one exists. *)
LEMMA RowShape ==
    ASSUME TypeOK, NEW w \in WithdrawalIds, withdrawals[w] # NoRow
    PROVE  /\ withdrawals[w] \in WithdrawalRow
           /\ withdrawals[w].status \in Statuses
           /\ withdrawals[w].vendor \in Vendors
           /\ withdrawals[w].debited \in Nat
           /\ withdrawals[w].accepted \in BOOLEAN
           /\ withdrawals[w].paid \in BOOLEAN
<1>1. withdrawals[w] \in WithdrawalRow
    BY DEF TypeOK
<1> QED
    BY <1>1 DEF WithdrawalRow

-----------------------------------------------------------------------------
(* Calls only ever name withdrawals that exist, and nothing deletes one; a *)
(* confirmation in flight has seen an accepted withdrawal and its proof.   *)
CallsSound ==
    \A a \in Callers :
        /\ call[a].op \in {"accept", "proof", "confirm", "close"}
                => withdrawals[call[a].of] # NoRow
        /\ call[a].op = "confirm"
                => withdrawals[call[a].of].accepted /\ proof[call[a].of] # NoRow

(* A withdrawal is PROCESSING or COMPLETED only once accepted, and each    *)
(* payment that was confirmed has its proof.                               *)
RowsSound ==
    \A w \in WithdrawalIds :
        withdrawals[w] # NoRow =>
            /\ Status(w) \in {"PROCESSING", "COMPLETED"} => withdrawals[w].accepted
            /\ withdrawals[w].paid => withdrawals[w].accepted /\ proof[w] # NoRow

Inv == TypeOK /\ CallsSound /\ RowsSound /\ LedgerAgrees

LEMMA InitInv == Init => Inv
<1> SUFFICES ASSUME Init PROVE Inv
    OBVIOUS
<1>1. TypeOK
    BY BalanceAssumption DEF Init, TypeOK, Call, Idle
<1>2. CallsSound
    BY DEF Init, CallsSound, Idle
<1>3. RowsSound
    BY DEF Init, RowsSound
<1>4. LedgerAgrees
    BY DEF Init, LedgerAgrees
<1> QED
    BY <1>1, <1>2, <1>3, <1>4 DEF Inv

LEMMA TypeStep ==
    ASSUME TypeOK, CallsSound, Next
    PROVE  TypeOK'
<1>1. ASSUME NEW a \in Callers, Read(a) PROVE TypeOK'
    <2>1. PICK c : Begin(a, c) /\ c \in Call
        <3>1. ASSUME NEW v \in Vendors, NEW debit \in Debits, ReadForRequest(a, v, debit)
              PROVE  \E c : Begin(a, c) /\ c \in Call
            <4>1. [op |-> "request", vendor |-> v, debit |-> debit] \in Call
                BY DEF Call
            <4> QED BY <3>1, <4>1 DEF ReadForRequest
        <3>2. ASSUME NEW w \in WithdrawalIds, ReadForAccept(a, w)
              PROVE  \E c : Begin(a, c) /\ c \in Call
            <4>1. [op |-> "accept", of |-> w] \in Call
                BY DEF Call
            <4> QED BY <3>2, <4>1 DEF ReadForAccept
        <3>3. ASSUME NEW w \in WithdrawalIds, NEW image \in Proofs, ReadForProof(a, w, image)
              PROVE  \E c : Begin(a, c) /\ c \in Call
            <4>1. [op |-> "proof", of |-> w, image |-> image] \in Call
                BY DEF Call
            <4> QED BY <3>3, <4>1 DEF ReadForProof
        <3>4. ASSUME NEW w \in WithdrawalIds, ReadForConfirm(a, w)
              PROVE  \E c : Begin(a, c) /\ c \in Call
            <4>1. [op |-> "confirm", of |-> w] \in Call
                BY DEF Call
            <4> QED BY <3>4, <4>1 DEF ReadForConfirm
        <3>5. ASSUME NEW w \in WithdrawalIds, NEW target \in Closed, ReadForClose(a, w, target)
              PROVE  \E c : Begin(a, c) /\ c \in Call
            <4>1. [op |-> "close", of |-> w, target |-> target] \in Call
                BY DEF Call
            <4> QED BY <3>5, <4>1 DEF ReadForClose
        <3> QED BY <1>1, <3>1, <3>2, <3>3, <3>4, <3>5 DEF Read
    <2>2. UNCHANGED tables
        BY <1>1 DEF Read, ReadForRequest, ReadForAccept, ReadForProof, ReadForConfirm,
                    ReadForClose
    <2> QED BY <2>1, <2>2 DEF TypeOK, tables, Begin
<1>2. ASSUME NEW a \in Callers, Commit(a) PROVE TypeOK'
    <2>1. call' \in [Callers -> Call]
        BY <1>2, CallShape DEF Commit, CommitRequest, CommitAccept, WriteProof,
                    CommitConfirm, CommitClose, End, TypeOK
    <2>2. ASSUME NEW w \in WithdrawalIds, CommitRequest(a, w) PROVE TypeOK'
        <3> DEFINE row == [status |-> "PENDING", vendor |-> call[a].vendor,
                           debited |-> call[a].debit, accepted |-> FALSE,
                           paid |-> FALSE, cancelled |-> FALSE]
        <3>1. row \in WithdrawalRow
            BY <2>2, CallShape DEF WithdrawalRow, Statuses, Open, CommitRequest
        <3>2. call[a].vendor \in Vendors /\ call[a].debit \in Nat
            BY <2>2, CallShape DEF CommitRequest
        <3>3. CASE CanDebit(call[a].vendor, call[a].debit)
            <4>1. balance[call[a].vendor] - call[a].debit \in Nat
                BY <3>2, <3>3 DEF CanDebit, TypeOK
            <4> QED BY <2>1, <2>2, <3>1, <3>3, <4>1 DEF CommitRequest, TypeOK
        <3>4. CASE ~ CanDebit(call[a].vendor, call[a].debit)
            BY <2>1, <2>2, <3>4 DEF CommitRequest, TypeOK
        <3> QED BY <3>3, <3>4
    <2>3. CASE CommitAccept(a)
        <3>1. call[a].of \in WithdrawalIds /\ withdrawals[call[a].of] # NoRow
            BY <2>3, CallShape DEF CommitAccept, CallsSound
        <3>2. withdrawals[call[a].of] \in WithdrawalRow
            BY <3>1, RowShape
        <3>3. [withdrawals[call[a].of] EXCEPT !.status = "PROCESSING", !.accepted = TRUE]
                \in WithdrawalRow
            BY <3>2 DEF WithdrawalRow, Statuses, Open
        <3>4. withdrawals' \in [WithdrawalIds -> WithdrawalRow \cup {NoRow}]
            BY <2>3, <3>1, <3>3 DEF CommitAccept, TypeOK
        <3> QED BY <2>1, <2>3, <3>4 DEF CommitAccept, TypeOK
    <2>4. CASE WriteProof(a)
        BY <2>1, <2>4, CallShape DEF WriteProof, TypeOK
    <2>5. CASE CommitConfirm(a)
        <3>1. call[a].of \in WithdrawalIds /\ withdrawals[call[a].of] # NoRow
            BY <2>5, CallShape DEF CommitConfirm, CallsSound
        <3>2. withdrawals[call[a].of] \in WithdrawalRow
            BY <3>1, RowShape
        <3>3. [withdrawals[call[a].of] EXCEPT !.status = "COMPLETED", !.paid = TRUE]
                \in WithdrawalRow
            BY <3>2 DEF WithdrawalRow, Statuses
        <3>4. withdrawals' \in [WithdrawalIds -> WithdrawalRow \cup {NoRow}]
            BY <2>5, <3>1, <3>3 DEF CommitConfirm, TypeOK
        <3>5. debitEntry' \in [WithdrawalIds -> {"NONE", "PENDING", "COMPLETED", "FAILED"}]
            BY <2>5, SMTT(30) DEF CommitConfirm, TypeOK
        <3> QED BY <2>1, <2>5, <3>4, <3>5 DEF CommitConfirm, TypeOK
    <2>6. CASE CommitClose(a)
        <3> DEFINE w == call[a].of
        <3>1. w \in WithdrawalIds /\ withdrawals[w] # NoRow /\ call[a].target \in Closed
            BY <2>6, CallShape DEF CommitClose, CallsSound
        <3>2. withdrawals[w] \in WithdrawalRow
            BY <3>1, RowShape
        <3>3. PICK b \in BOOLEAN : withdrawals' = [withdrawals EXCEPT
                    ![w].status = call[a].target, ![w].cancelled = b]
            <4>1. (withdrawals[w].cancelled \/ call[a].target = "CANCELLED") \in BOOLEAN
                OBVIOUS
            <4> QED BY <2>6, <4>1, <3>1, <3>2 DEF CommitClose, TypeOK, WithdrawalRow
        <3>4. [withdrawals[w] EXCEPT !.status = call[a].target, !.cancelled = b]
                \in WithdrawalRow
            BY <3>1, <3>2 DEF WithdrawalRow, Statuses
        <3>5. withdrawals' \in [WithdrawalIds -> WithdrawalRow \cup {NoRow}]
            BY <3>1, <3>3, <3>4 DEF TypeOK
        <3>6. debitEntry' \in [WithdrawalIds -> {"NONE", "PENDING", "COMPLETED", "FAILED"}]
            BY <2>6 DEF CommitClose, ClosedEntry, TypeOK
        <3>7. balance' \in [Vendors -> Nat] /\ refunds' \in [WithdrawalIds -> Nat]
            <4>1. withdrawals[w].vendor \in Vendors /\ withdrawals[w].debited \in Nat
                BY <3>1, RowShape
            <4> QED BY <2>6, <3>1, <4>1 DEF CommitClose, Refund, TypeOK
        <3> QED BY <2>1, <2>6, <3>5, <3>6, <3>7 DEF CommitClose, TypeOK
    <2> QED BY <1>2, <2>2, <2>3, <2>4, <2>5, <2>6 DEF Commit
<1>3. ASSUME NEW a \in Callers, Abort(a) PROVE TypeOK'
    BY <1>3, CallShape DEF Abort, End, tables, TypeOK
<1>4. ASSUME NEW v \in Vendors, NEW amount \in Sales, Sale(v, amount) PROVE TypeOK'
    BY <1>4, SalesAssumption DEF Sale, TypeOK
<1>5. ASSUME NEW v \in Vendors, NEW on \in BOOLEAN, SetActive(v, on) PROVE TypeOK'
    BY <1>5 DEF SetActive, TypeOK
<1> QED
    BY <1>1, <1>2, <1>3, <1>4, <1>5 DEF Next

-----------------------------------------------------------------------------
(***************************************************************************)
(* What one step may do to one withdrawal.                                 *)
(***************************************************************************)

Stays(w) ==
    /\ withdrawals'[w] = withdrawals[w]
    /\ debitEntry'[w] = debitEntry[w]
    /\ refunds'[w] = refunds[w]

Born(w) ==
    /\ withdrawals[w] = NoRow /\ withdrawals'[w] # NoRow
    /\ withdrawals'[w].status = "PENDING"
    /\ ~ withdrawals'[w].accepted /\ ~ withdrawals'[w].paid
    /\ debitEntry'[w] = "PENDING"
    /\ refunds'[w] = refunds[w]

Accepted(w) ==
    /\ withdrawals[w] # NoRow /\ withdrawals'[w] # NoRow
    /\ withdrawals[w].status = "PENDING" /\ withdrawals'[w].status = "PROCESSING"
    /\ withdrawals'[w].accepted /\ withdrawals'[w].paid = withdrawals[w].paid
    /\ debitEntry'[w] = debitEntry[w]
    /\ refunds'[w] = refunds[w]

Paid(w) ==
    /\ withdrawals[w] # NoRow /\ withdrawals'[w] # NoRow
    /\ withdrawals[w].status = "PROCESSING" /\ withdrawals'[w].status = "COMPLETED"
    /\ withdrawals[w].accepted /\ withdrawals'[w].accepted /\ proof[w] # NoRow
    /\ debitEntry'[w] = "COMPLETED"
    /\ refunds'[w] = refunds[w]
    /\ \E a \in Callers : call[a].op = "confirm" /\ End(a)

ClosedNow(w) ==
    /\ withdrawals[w] # NoRow /\ withdrawals'[w] # NoRow
    /\ withdrawals'[w].status \in Closed
    /\ withdrawals'[w].accepted = withdrawals[w].accepted
    /\ withdrawals'[w].paid = withdrawals[w].paid
    /\ debitEntry'[w] = "FAILED"
    /\ refunds'[w] = refunds[w] + 1
    /\ \E a \in Callers : call[a].op = "close" /\ call[a].of = w /\ End(a)

WithdrawalStep ==
    \A w \in WithdrawalIds :
        /\ Stays(w) \/ Born(w) \/ Accepted(w) \/ Paid(w) \/ ClosedNow(w)
        /\ proof[w] # NoRow => proof'[w] # NoRow

LEMMA Steps ==
    ASSUME TypeOK, CallsSound, [Next]_vars
    PROVE  WithdrawalStep
<1> SUFFICES ASSUME NEW w \in WithdrawalIds
             PROVE  /\ Stays(w) \/ Born(w) \/ Accepted(w) \/ Paid(w) \/ ClosedNow(w)
                    /\ proof[w] # NoRow => proof'[w] # NoRow
    BY DEF WithdrawalStep
<1>1. ASSUME NEW a \in Callers, CommitRequest(a, w)
      PROVE  (Stays(w) \/ Born(w)) /\ proof' = proof
    <2> DEFINE row == [status |-> "PENDING", vendor |-> call[a].vendor,
                       debited |-> call[a].debit, accepted |-> FALSE,
                       paid |-> FALSE, cancelled |-> FALSE]
    <2>1. row # NoRow
        <3>1. row \in WithdrawalRow
            BY <1>1, CallShape DEF WithdrawalRow, Statuses, Open, CommitRequest
        <3> QED BY <3>1, NoRowAssumption
    <2> QED BY <1>1, <2>1 DEF CommitRequest, Stays, Born, TypeOK
<1>2. ASSUME NEW a \in Callers, NEW other \in WithdrawalIds, other # w, CommitRequest(a, other)
      PROVE  Stays(w) /\ proof' = proof
    BY <1>2 DEF CommitRequest, Stays, TypeOK
<1>3. ASSUME NEW a \in Callers, CommitAccept(a)
      PROVE  (Stays(w) \/ Accepted(w)) /\ proof' = proof
    <2>1. CASE call[a].of = w /\ Status(w) = "PENDING"
        <3>1. withdrawals[w] # NoRow
            BY <1>3, <2>1 DEF CommitAccept, CallsSound
        <3>2. withdrawals[w] \in WithdrawalRow
            BY <3>1, RowShape
        <3>3. withdrawals'[w] = [withdrawals[w] EXCEPT !.status = "PROCESSING",
                                                       !.accepted = TRUE]
            BY <1>3, <2>1 DEF CommitAccept, TypeOK
        <3>4. withdrawals'[w] \in WithdrawalRow
            BY <3>2, <3>3 DEF WithdrawalRow, Statuses, Open
        <3>5. withdrawals'[w].accepted
            BY <3>2, <3>3 DEF WithdrawalRow
        <3>6. withdrawals'[w].status = "PROCESSING"
            BY <3>2, <3>3 DEF WithdrawalRow
        <3>7. withdrawals'[w].paid = withdrawals[w].paid
            BY <3>2, <3>3 DEF WithdrawalRow
        <3> QED BY <1>3, <2>1, <3>1, <3>4, <3>5, <3>6, <3>7, NoRowAssumption
                DEF CommitAccept, Accepted, Status
    <2>2. CASE ~ (call[a].of = w /\ Status(w) = "PENDING")
        BY <1>3, <2>2 DEF CommitAccept, Stays, TypeOK
    <2> QED BY <1>3, <2>1, <2>2 DEF CommitAccept
<1>4. ASSUME NEW a \in Callers, WriteProof(a)
      PROVE  Stays(w) /\ (proof[w] # NoRow => proof'[w] # NoRow)
    <2>1. call[a].image # NoRow
        BY <1>4, CallShape, ProofsAssumption DEF WriteProof
    <2> QED BY <1>4, <2>1 DEF WriteProof, Stays, TypeOK
<1>5. ASSUME NEW a \in Callers, CommitConfirm(a)
      PROVE  (Stays(w) \/ Paid(w)) /\ proof' = proof
    <2>1. CASE call[a].of = w /\ Status(w) = "PROCESSING"
        <3>1. withdrawals[w] # NoRow /\ withdrawals[w].accepted /\ proof[w] # NoRow
            BY <1>5, <2>1 DEF CommitConfirm, CallsSound
        <3>2. withdrawals[w] \in WithdrawalRow
            BY <3>1, RowShape
        <3>3. withdrawals'[w] = [withdrawals[w] EXCEPT !.status = "COMPLETED",
                                                       !.paid = TRUE]
            BY <1>5, <2>1 DEF CommitConfirm, ConfirmHolds, TypeOK
        <3>4. withdrawals'[w] \in WithdrawalRow
            BY <3>2, <3>3 DEF WithdrawalRow, Statuses
        <3>5. withdrawals'[w].accepted = withdrawals[w].accepted
            BY <3>2, <3>3 DEF WithdrawalRow
        <3>6. withdrawals'[w].status = "COMPLETED"
            BY <3>2, <3>3 DEF WithdrawalRow
        <3>7. debitEntry'[w] = "COMPLETED" /\ refunds'[w] = refunds[w]
            BY <1>5, <2>1 DEF CommitConfirm, ConfirmHolds, TypeOK
        <3>8. proof' = proof /\ call[a].op = "confirm" /\ End(a)
            BY <1>5 DEF CommitConfirm
        <3> QED BY <2>1, <3>1, <3>4, <3>5, <3>6, <3>7, <3>8, NoRowAssumption
                DEF Paid, Status
    <2>2. CASE ~ (call[a].of = w /\ Status(w) = "PROCESSING")
        BY <1>5, <2>2 DEF CommitConfirm, ConfirmHolds, Stays, TypeOK
    <2> QED BY <1>5, <2>1, <2>2 DEF CommitConfirm
<1>6. ASSUME NEW a \in Callers, CommitClose(a)
      PROVE  (Stays(w) \/ ClosedNow(w)) /\ proof' = proof
    <2>1. CASE call[a].of = w
        <3>1. withdrawals[w] # NoRow /\ call[a].target \in Closed
            BY <1>6, <2>1, CallShape DEF CommitClose, CallsSound
        <3>2. withdrawals[w] \in WithdrawalRow
            BY <3>1, RowShape
        <3>3. PICK b \in BOOLEAN : withdrawals'[w] =
                    [withdrawals[w] EXCEPT !.status = call[a].target, !.cancelled = b]
            <4>1. (withdrawals[w].cancelled \/ call[a].target = "CANCELLED") \in BOOLEAN
                OBVIOUS
            <4> QED BY <1>6, <2>1, <4>1 DEF CommitClose, TypeOK
        <3>4. withdrawals'[w].status = call[a].target
            BY <3>2, <3>3 DEF WithdrawalRow
        <3>5. withdrawals'[w].accepted = withdrawals[w].accepted
            BY <3>2, <3>3 DEF WithdrawalRow
        <3>6. withdrawals'[w].paid = withdrawals[w].paid
            BY <3>2, <3>3 DEF WithdrawalRow
        <3>7. withdrawals'[w] # NoRow
            <4>1. withdrawals'[w] \in WithdrawalRow
                BY <3>1, <3>2, <3>3 DEF WithdrawalRow, Statuses
            <4> QED BY <4>1, NoRowAssumption
        <3>8. debitEntry'[w] = "FAILED" /\ refunds'[w] = refunds[w] + 1
            BY <1>6, <2>1 DEF CommitClose, ClosedEntry, TypeOK
        <3> QED BY <1>6, <2>1, <3>1, <3>4, <3>5, <3>6, <3>7, <3>8
                DEF ClosedNow, CommitClose
    <2>2. CASE call[a].of # w
        BY <1>6, <2>2 DEF CommitClose, Stays, TypeOK
    <2> QED BY <1>6, <2>1, <2>2 DEF CommitClose
<1>7. ASSUME NEW a \in Callers, Read(a) \/ Abort(a) PROVE Stays(w) /\ proof' = proof
    BY <1>7 DEF Read, ReadForRequest, ReadForAccept, ReadForProof, ReadForConfirm,
                ReadForClose, Abort, tables, Stays
<1>8. ASSUME NEW v \in Vendors, NEW x, Sale(v, x) \/ SetActive(v, x)
      PROVE  Stays(w) /\ proof' = proof
    BY <1>8 DEF Sale, SetActive, Stays
<1>9. CASE UNCHANGED vars
    BY <1>9 DEF vars, tables, Stays
<1> QED
    BY <1>1, <1>2, <1>3, <1>4, <1>5, <1>6, <1>7, <1>8, <1>9 DEF Next, Commit

-----------------------------------------------------------------------------
(* A call that starts has just seen what CallsSound says of it; one that    *)
(* is under way keeps it, for no step deletes a row, an acceptance or a     *)
(* proof.                                                                   *)
LEMMA CallsStep ==
    ASSUME Inv, [Next]_vars
    PROVE  CallsSound'
<1> USE DEF Inv
<1> SUFFICES ASSUME NEW b \in Callers
             PROVE  /\ call'[b].op \in {"accept", "proof", "confirm", "close"}
                            => withdrawals'[call'[b].of] # NoRow
                    /\ call'[b].op = "confirm"
                            => /\ withdrawals'[call'[b].of].accepted
                               /\ proof'[call'[b].of] # NoRow
    BY DEF CallsSound
<1>1. WithdrawalStep
    BY Steps
<1>2. CASE call'[b] = call[b]
    <2>1. CASE call[b].op \in {"accept", "proof", "confirm", "close"}
        <3>1. call[b].of \in WithdrawalIds /\ withdrawals[call[b].of] # NoRow
            BY <2>1, CallShape DEF CallsSound
        <3>2. withdrawals'[call[b].of] # NoRow
            BY <1>1, <3>1 DEF WithdrawalStep, Stays, Born, Accepted, Paid, ClosedNow
        <3>3. ASSUME call[b].op = "confirm"
              PROVE  withdrawals'[call[b].of].accepted /\ proof'[call[b].of] # NoRow
            <4>1. withdrawals[call[b].of].accepted /\ proof[call[b].of] # NoRow
                BY <3>3 DEF CallsSound
            <4> QED BY <1>1, <3>1, <4>1
                    DEF WithdrawalStep, Stays, Born, Accepted, Paid, ClosedNow
        <3> QED BY <1>2, <3>2, <3>3
    <2>2. CASE call[b].op \notin {"accept", "proof", "confirm", "close"}
        BY <1>2, <2>2
    <2> QED BY <2>1, <2>2
<1>3. CASE call'[b] # call[b]
    <2>1. PICK a \in Callers : Read(a) \/ Commit(a) \/ Abort(a)
        BY <1>3 DEF Next, vars, tables, Sale, SetActive
    <2>2. a = b
        BY <1>3, <2>1 DEF Read, ReadForRequest, ReadForAccept, ReadForProof, ReadForConfirm,
            ReadForClose, Commit, CommitRequest, CommitAccept, WriteProof, CommitConfirm,
            CommitClose, Abort, Begin, End, TypeOK
    <2>3. CASE Commit(b) \/ Abort(b)
        <3>1. call'[b] = Idle
            BY <2>3 DEF Commit, CommitRequest, CommitAccept, WriteProof, CommitConfirm,
                        CommitClose, Abort, End, TypeOK
        <3> QED BY <3>1 DEF Idle
    <2>4. CASE Read(b)
        <3>1. UNCHANGED <<withdrawals, proof>>
            BY <2>4 DEF Read, ReadForRequest, ReadForAccept, ReadForProof, ReadForConfirm,
                        ReadForClose, tables
        <3>2. ASSUME NEW v \in Vendors, NEW debit \in Debits, ReadForRequest(b, v, debit)
              PROVE  call'[b].op = "request"
            BY <3>2 DEF ReadForRequest, Begin, TypeOK
        <3>3. ASSUME NEW w \in WithdrawalIds, ReadForConfirm(b, w)
              PROVE  /\ call'[b].of = w /\ withdrawals[w] # NoRow
                     /\ withdrawals[w].accepted /\ proof[w] # NoRow
            BY <3>3 DEF ReadForConfirm, MayConfirm, Begin, TypeOK, RowsSound
        <3>4. ASSUME NEW w \in WithdrawalIds,
                     \/ ReadForAccept(b, w)
                     \/ \E image \in Proofs : ReadForProof(b, w, image)
                     \/ \E target \in Closed : ReadForClose(b, w, target)
              PROVE  call'[b].of = w /\ call'[b].op # "confirm" /\ withdrawals[w] # NoRow
            BY <3>4 DEF ReadForAccept, ReadForProof, ReadForClose, Begin, TypeOK
        <3> QED BY <2>4, <3>1, <3>2, <3>3, <3>4 DEF Read
    <2> QED BY <2>1, <2>2, <2>3, <2>4
<1> QED
    BY <1>2, <1>3

LEMMA InvStep == Inv /\ [Next]_vars => Inv'
<1> SUFFICES ASSUME Inv, [Next]_vars PROVE Inv'
    OBVIOUS
<1> USE DEF Inv
<1>1. TypeOK'
    BY TypeStep DEF vars, tables, TypeOK
<1>2. CallsSound'
    BY CallsStep
<1>3. WithdrawalStep
    BY Steps
<1>4. RowsSound'
    <2> SUFFICES ASSUME NEW w \in WithdrawalIds, withdrawals'[w] # NoRow
                 PROVE  /\ withdrawals'[w].status \in {"PROCESSING", "COMPLETED"}
                                => withdrawals'[w].accepted
                        /\ withdrawals'[w].paid => withdrawals'[w].accepted /\ proof'[w] # NoRow
        BY DEF RowsSound, Status
    <2>1. proof[w] # NoRow => proof'[w] # NoRow
        BY <1>3 DEF WithdrawalStep
    <2>2. CASE Stays(w)
        BY <2>1, <2>2 DEF Stays, RowsSound, Status
    <2>3. CASE Born(w)
        BY <2>3 DEF Born
    <2>4. CASE Accepted(w)
        BY <2>1, <2>4 DEF Accepted, RowsSound
    <2>5. CASE Paid(w)
        BY <2>1, <2>5 DEF Paid
    <2>6. CASE ClosedNow(w)
        BY <2>1, <2>6 DEF ClosedNow, Closed, RowsSound
    <2> QED BY <1>3, <2>2, <2>3, <2>4, <2>5, <2>6 DEF WithdrawalStep
<1>5. LedgerAgrees'
    <2> SUFFICES ASSUME NEW w \in WithdrawalIds
                 PROVE  debitEntry'[w] =
                            IF withdrawals'[w] = NoRow THEN "NONE"
                            ELSE IF withdrawals'[w].status \in Open THEN "PENDING"
                            ELSE IF withdrawals'[w].status \in Closed THEN "FAILED"
                            ELSE "COMPLETED"
        BY DEF LedgerAgrees, Status
    <2> USE DEF LedgerAgrees, Status, Open, Closed
    <2>1. CASE Stays(w)
        BY <2>1 DEF Stays
    <2>2. CASE Born(w)
        BY <2>2 DEF Born
    <2>3. CASE Accepted(w)
        BY <2>3 DEF Accepted
    <2>4. CASE Paid(w)
        BY <2>4 DEF Paid
    <2>5. CASE ClosedNow(w)
        BY <2>5 DEF ClosedNow
    <2> QED BY <1>3, <2>1, <2>2, <2>3, <2>4, <2>5 DEF WithdrawalStep
<1> QED
    BY <1>1, <1>2, <1>4, <1>5

THEOREM Invariance == Spec => []Inv
BY InitInv, InvStep, PTL DEF Spec

(* The tables stay well typed; in particular no balance goes below zero,   *)
(* which only the WHERE clause of the debit of request sees to.            *)
THEOREM WithdrawalsTyped == Spec => []TypeOK
<1>1. Inv => TypeOK
    BY DEF Inv
<1> QED BY <1>1, Invariance, PTL

(* Whatever calls race, a payment is confirmed only for a withdrawal that  *)
(* an administrator accepted and whose transfer has a proof.               *)
THEOREM PaymentsHaveProof == Spec => []PaidHasProof
<1>1. Inv => PaidHasProof
    BY DEF Inv, RowsSound, PaidHasProof, Existing
<1> QED BY <1>1, Invariance, PTL

(* Whatever calls race, the WITHDRAWAL row of the ledger agrees with the   *)
(* withdrawal.                                                             *)
THEOREM LedgersAgree == Spec => []LedgerAgrees
<1>1. Inv => LedgerAgrees
    BY DEF Inv
<1> QED BY <1>1, Invariance, PTL

-----------------------------------------------------------------------------
(***************************************************************************)
(* The balances, against the whole table of withdrawals.  A withdrawal     *)
(* that does not exist yet was not refunded, so that what it takes when it *)
(* is asked for is not given back at the same time.                        *)
(***************************************************************************)

RefundedExists == \A w \in WithdrawalIds : withdrawals[w] = NoRow => refunds[w] = 0

Accounted == RefundedExists /\ BalanceAccounted

(* What withdrawal w counts for in the two sums of canteen v. *)
Took(w, v) == IF w \in WithdrawalsOf(v) THEN withdrawals[w].debited ELSE 0
Gave(w, v) == IF w \in WithdrawalsOf(v) THEN refunds[w] * withdrawals[w].debited ELSE 0

SameAmounts(w) ==
    \A v \in Vendors : Took(w, v)' = Took(w, v) /\ Gave(w, v)' = Gave(w, v)

(* Both sums are over a finite column of natural numbers. *)
AmountsSound ==
    \A v \in Vendors :
        /\ IsFiniteSet(WithdrawalsOf(v)) /\ WithdrawalsOf(v) \subseteq WithdrawalIds
        /\ [w \in WithdrawalsOf(v) |-> withdrawals[w].debited]
                \in [WithdrawalsOf(v) -> Nat]
        /\ [w \in WithdrawalsOf(v) |-> refunds[w] * withdrawals[w].debited]
                \in [WithdrawalsOf(v) -> Nat]
        /\ TakenFrom(v) \in Nat /\ GivenBack(v) \in Nat
        /\ \A w : Took(w, v) \in Nat /\ Gave(w, v) \in Nat
        /\ balance[v] \in Nat /\ credited[v] \in Nat

LEMMA AmountsTyped == TypeOK => AmountsSound
<1> SUFFICES ASSUME TypeOK, NEW v \in Vendors
             PROVE  AmountsSound!(v)
    BY DEF AmountsSound
<1> DEFINE f == [w \in WithdrawalsOf(v) |-> withdrawals[w].debited]
           g == [w \in WithdrawalsOf(v) |-> refunds[w] * withdrawals[w].debited]
<1>1. IsFiniteSet(WithdrawalsOf(v)) /\ WithdrawalsOf(v) \subseteq WithdrawalIds
    <2>1. WithdrawalsOf(v) \in SUBSET WithdrawalIds
        BY DEF WithdrawalsOf, Existing
    <2> QED BY <2>1, WithdrawalIdsAssumption, FS_Subset
<1>2. \A w \in WithdrawalsOf(v) : withdrawals[w].debited \in Nat /\ refunds[w] \in Nat
    BY RowShape DEF WithdrawalsOf, Existing, TypeOK
<1>3. \A w \in WithdrawalsOf(v) : refunds[w] * withdrawals[w].debited \in Nat
    <2>1. \A m, n \in Nat : m * n \in Nat
        OBVIOUS
    <2> QED BY <1>2, <2>1
<1>4. f \in [WithdrawalsOf(v) -> Nat] /\ g \in [WithdrawalsOf(v) -> Nat]
    BY <1>2, <1>3
<1>5. TakenFrom(v) \in Nat /\ GivenBack(v) \in Nat
    <2>1. SumOf(f) \in Nat /\ SumOf(g) \in Nat
        <3> HIDE DEF f, g
        <3> QED BY <1>1, <1>4, SumType
    <2> QED BY <2>1 DEF TakenFrom, GivenBack
<1>6. \A w : Took(w, v) \in Nat /\ Gave(w, v) \in Nat
    BY <1>2, <1>3 DEF Took, Gave
<1> QED
    BY <1>1, <1>4, <1>5, <1>6 DEF TypeOK

(* The balance keeps up with two sums that change together. *)
LEMMA KeepsUp ==
    ASSUME NEW b \in Nat, NEW c \in Nat, NEW taken \in Nat, NEW given \in Nat,
           NEW t \in Nat, NEW g \in Nat, NEW start \in Nat,
           NEW b2 \in Nat, NEW c2 \in Nat, NEW taken2 \in Nat, NEW given2 \in Nat,
           NEW t2 \in Nat, NEW g2 \in Nat,
           b + taken = start + c + given,
           taken2 + t = taken + t2,
           given2 + g = given + g2,
           b2 + c + t2 + g = b + c2 + t + g2
    PROVE  b2 + taken2 = start + c2 + given2
OBVIOUS

(* When w alone takes or gives back more, and the balance follows, the      *)
(* balances are accounted for again.                                        *)
LEMMA BalanceFollows ==
    ASSUME TypeOK, TypeOK', BalanceAccounted, NEW w,
           \A p \in WithdrawalIds \ {w} : SameAmounts(p),
           \A v \in Vendors :
                balance'[v] + credited[v] + Took(w, v)' + Gave(w, v)
                    = balance[v] + credited'[v] + Took(w, v) + Gave(w, v)'
    PROVE  BalanceAccounted'
<1>1. AmountsSound /\ AmountsSound'
    BY AmountsTyped, PTL
<1> SUFFICES ASSUME NEW v \in Vendors
             PROVE  balance'[v] + TakenFrom(v)'
                        = InitialBalance + credited'[v] + GivenBack(v)'
    BY DEF BalanceAccounted
<1>2. TakenFrom(v)' + Took(w, v) = TakenFrom(v) + Took(w, v)'
    <2> DEFINE f == [p \in WithdrawalsOf(v) |-> withdrawals[p].debited]
               g == [p \in WithdrawalsOf(v)' |-> withdrawals'[p].debited]
    <2>1. /\ f \in [WithdrawalsOf(v) -> Nat] /\ IsFiniteSet(WithdrawalsOf(v))
          /\ g \in [WithdrawalsOf(v)' -> Nat] /\ IsFiniteSet(WithdrawalsOf(v)')
        BY <1>1 DEF AmountsSound
    <2>2. \A p : PartOf(f, p) = Took(p, v) /\ PartOf(g, p) = Took(p, v)'
        BY DEF PartOf, Took
    <2>3. \A p \in (WithdrawalsOf(v) \cup WithdrawalsOf(v)') \ {w} :
                PartOf(f, p) = PartOf(g, p)
        BY <1>1, <2>2 DEF AmountsSound, SameAmounts
    <2>4. SumOf(g) + PartOf(f, w) = SumOf(f) + PartOf(g, w)
        <3> HIDE DEF f, g
        <3> QED BY <2>1, <2>3, SumChange
    <2> QED BY <2>2, <2>4 DEF TakenFrom
<1>3. GivenBack(v)' + Gave(w, v) = GivenBack(v) + Gave(w, v)'
    <2> DEFINE f == [p \in WithdrawalsOf(v) |-> refunds[p] * withdrawals[p].debited]
               g == [p \in WithdrawalsOf(v)' |-> refunds'[p] * withdrawals'[p].debited]
    <2>1. /\ f \in [WithdrawalsOf(v) -> Nat] /\ IsFiniteSet(WithdrawalsOf(v))
          /\ g \in [WithdrawalsOf(v)' -> Nat] /\ IsFiniteSet(WithdrawalsOf(v)')
        BY <1>1 DEF AmountsSound
    <2>2. \A p : PartOf(f, p) = Gave(p, v) /\ PartOf(g, p) = Gave(p, v)'
        BY DEF PartOf, Gave
    <2>3. \A p \in (WithdrawalsOf(v) \cup WithdrawalsOf(v)') \ {w} :
                PartOf(f, p) = PartOf(g, p)
        BY <1>1, <2>2 DEF AmountsSound, SameAmounts
    <2>4. SumOf(g) + PartOf(f, w) = SumOf(f) + PartOf(g, w)
        <3> HIDE DEF f, g
        <3> QED BY <2>1, <2>3, SumChange
    <2> QED BY <2>2, <2>4 DEF GivenBack
<1>4. balance[v] + TakenFrom(v) = InitialBalance + credited[v] + GivenBack(v)
    BY DEF BalanceAccounted
<1>5. balance'[v] + credited[v] + Took(w, v)' + Gave(w, v)
            = balance[v] + credited'[v] + Took(w, v) + Gave(w, v)'
    OBVIOUS
<1>6. /\ TakenFrom(v) \in Nat /\ TakenFrom(v)' \in Nat
      /\ GivenBack(v) \in Nat /\ GivenBack(v)' \in Nat
      /\ Took(w, v) \in Nat /\ Took(w, v)' \in Nat
      /\ Gave(w, v) \in Nat /\ Gave(w, v)' \in Nat
      /\ balance[v] \in Nat /\ balance'[v] \in Nat
      /\ credited[v] \in Nat /\ credited'[v] \in Nat
    BY <1>1 DEF AmountsSound
<1> DEFINE b == balance[v]          b2 == balance'[v]
           c == credited[v]         c2 == credited'[v]
           taken == TakenFrom(v)    taken2 == TakenFrom(v)'
           given == GivenBack(v)    given2 == GivenBack(v)'
           t == Took(w, v)          t2 == Took(w, v)'
           g == Gave(w, v)          g2 == Gave(w, v)'
<1>7. /\ b \in Nat /\ b2 \in Nat /\ c \in Nat /\ c2 \in Nat
      /\ taken \in Nat /\ taken2 \in Nat /\ given \in Nat /\ given2 \in Nat
      /\ t \in Nat /\ t2 \in Nat /\ g \in Nat /\ g2 \in Nat
      /\ b + taken = InitialBalance + c + given
      /\ taken2 + t = taken + t2 /\ given2 + g = given + g2
      /\ b2 + c + t2 + g = b + c2 + t + g2
    BY ONLY <1>2, <1>3, <1>4, <1>5, <1>6
<1>8. b2 + taken2 = InitialBalance + c2 + given2
    <2> HIDE DEF b, b2, c, c2, taken, taken2, given, given2, t, t2, g, g2
    <2> QED BY ONLY <1>7, BalanceAssumption, KeepsUp
<1> QED
    BY ONLY <1>8

(* A withdrawal whose canteen, debit and refunds stay counts for the same. *)
KeepsAmounts(w) ==
    /\ refunds'[w] = refunds[w]
    /\ withdrawals'[w] = NoRow <=> withdrawals[w] = NoRow
    /\ withdrawals[w] # NoRow =>
            /\ withdrawals'[w].vendor = withdrawals[w].vendor
            /\ withdrawals'[w].debited = withdrawals[w].debited

LEMMA AmountsStay ==
    ASSUME NEW w \in WithdrawalIds, KeepsAmounts(w)
    PROVE  SameAmounts(w)
BY DEF KeepsAmounts, SameAmounts, Took, Gave, WithdrawalsOf, Existing

LEMMA StaysKeeps ==
    ASSUME NEW w \in WithdrawalIds, Stays(w)
    PROVE  KeepsAmounts(w)
BY DEF Stays, KeepsAmounts

(* A request takes from the balance what its new row says. *)
LEMMA RequestAccounted ==
    ASSUME Inv, Inv', Accounted, NEW a \in Callers, NEW w \in WithdrawalIds,
           CommitRequest(a, w), CanDebit(call[a].vendor, call[a].debit)
    PROVE  BalanceAccounted'
<1> DEFINE u == call[a].vendor
           row == [status |-> "PENDING", vendor |-> u, debited |-> call[a].debit,
                   accepted |-> FALSE, paid |-> FALSE, cancelled |-> FALSE]
<1> USE DEF Inv
<1>1. u \in Vendors /\ call[a].debit \in Nat
    BY CallShape DEF CommitRequest
<1>2. row # NoRow
    <2>1. row \in WithdrawalRow
        BY <1>1 DEF WithdrawalRow, Statuses, Open
    <2> QED BY <2>1, NoRowAssumption
<1>3. /\ withdrawals[w] = NoRow /\ withdrawals'[w] = row
      /\ \A p \in WithdrawalIds \ {w} : withdrawals'[p] = withdrawals[p]
      /\ refunds' = refunds /\ credited' = credited
      /\ balance'[u] = balance[u] - call[a].debit
      /\ \A v \in Vendors \ {u} : balance'[v] = balance[v]
    BY <1>1 DEF CommitRequest, TypeOK
<1>4. refunds[w] = 0
    BY <1>3 DEF Accounted, RefundedExists
<1>5. \A p \in WithdrawalIds \ {w} : SameAmounts(p)
    <2>1. \A p \in WithdrawalIds \ {w} : KeepsAmounts(p)
        BY <1>3 DEF KeepsAmounts
    <2> QED BY <2>1, AmountsStay
<1>6. ASSUME NEW v \in Vendors
      PROVE  /\ Took(w, v) = 0 /\ Gave(w, v) = 0 /\ Gave(w, v)' = 0
             /\ Took(w, v)' = IF v = u THEN call[a].debit ELSE 0
    <2>1. Took(w, v) = 0 /\ Gave(w, v) = 0
        BY <1>3 DEF Took, Gave, WithdrawalsOf, Existing
    <2>2. Took(w, v)' = IF v = u THEN call[a].debit ELSE 0
        BY <1>2, <1>3 DEF Took, WithdrawalsOf, Existing
    <2>3. Gave(w, v)' = IF v = u THEN 0 * call[a].debit ELSE 0
        BY <1>2, <1>3, <1>4 DEF Gave, WithdrawalsOf, Existing
    <2>4. 0 * call[a].debit = 0
        BY <1>1
    <2> QED BY <2>1, <2>2, <2>3, <2>4
<1>7. ASSUME NEW v \in Vendors
      PROVE  balance'[v] + credited[v] + Took(w, v)' + Gave(w, v)
                = balance[v] + credited'[v] + Took(w, v) + Gave(w, v)'
    <2>1. balance[v] \in Nat /\ credited[v] \in Nat
        BY DEF TypeOK
    <2>2. balance'[v] = balance[v] - Took(w, v)'
        BY <1>3, <1>6, <2>1
    <2>3. credited'[v] = credited[v] /\ Took(w, v)' \in Nat
        BY <1>1, <1>3, <1>6
    <2> QED BY <1>6, <2>1, <2>2, <2>3
<1> QED
    BY <1>5, <1>7, BalanceFollows DEF Accounted

(* A refund gives back what the row of the withdrawal says was taken. *)
LEMMA CloseAccounted ==
    ASSUME Inv, Inv', Accounted, Next, NEW a \in Callers, CommitClose(a)
    PROVE  BalanceAccounted'
<1> USE DEF Inv
<1>1. PICK w \in WithdrawalIds : w = call[a].of /\ withdrawals[w] # NoRow
    BY CallShape DEF CommitClose, CallsSound
<1>2. PICK u \in Vendors, d \in Nat :
            /\ withdrawals[w] \in WithdrawalRow /\ refunds[w] \in Nat
            /\ u = withdrawals[w].vendor /\ d = withdrawals[w].debited
    BY <1>1, RowShape DEF TypeOK
<1>3. /\ refunds'[w] = refunds[w] + 1 /\ credited' = credited
      /\ \A p \in WithdrawalIds \ {w} :
            withdrawals'[p] = withdrawals[p] /\ refunds'[p] = refunds[p]
      /\ balance'[u] = balance[u] + d
      /\ \A v \in Vendors \ {u} : balance'[v] = balance[v]
    BY <1>1, <1>2 DEF CommitClose, Refund, TypeOK
<1>4. withdrawals'[w] # NoRow /\ withdrawals'[w].vendor = u /\ withdrawals'[w].debited = d
    <2>1. PICK b : withdrawals'[w] =
                [withdrawals[w] EXCEPT !.status = call[a].target, !.cancelled = b]
        BY <1>1, CallShape DEF CommitClose, TypeOK
    <2>2. withdrawals'[w].vendor = u /\ withdrawals'[w].debited = d
        BY <1>2, <2>1 DEF WithdrawalRow
    <2>3. withdrawals'[w] # NoRow
        <3>1. WithdrawalStep
            BY Steps
        <3> QED BY <1>1, <3>1 DEF WithdrawalStep, Stays, Born, Accepted, Paid, ClosedNow
    <2> QED BY <2>2, <2>3
<1>5. \A p \in WithdrawalIds \ {w} : SameAmounts(p)
    <2>1. \A p \in WithdrawalIds \ {w} : KeepsAmounts(p)
        BY <1>3 DEF KeepsAmounts
    <2> QED BY <2>1, AmountsStay
<1>6. ASSUME NEW v \in Vendors
      PROVE  /\ Took(w, v)' = Took(w, v)
             /\ Gave(w, v)' = Gave(w, v) + (IF v = u THEN d ELSE 0)
    <2>1. Took(w, v) = (IF v = u THEN d ELSE 0) /\ Took(w, v)' = Took(w, v)
        BY <1>1, <1>2, <1>4 DEF Took, WithdrawalsOf, Existing
    <2>2. /\ Gave(w, v) = IF v = u THEN refunds[w] * d ELSE 0
          /\ Gave(w, v)' = IF v = u THEN (refunds[w] + 1) * d ELSE 0
        BY <1>1, <1>2, <1>3, <1>4 DEF Gave, WithdrawalsOf, Existing
    <2>3. (refunds[w] + 1) * d = refunds[w] * d + d /\ refunds[w] * d \in Nat
        <3>1. \A m, n \in Nat : (m + 1) * n = m * n + n /\ m * n \in Nat
            OBVIOUS
        <3> QED BY <1>2, <3>1
    <2> QED BY <2>1, <2>2, <2>3
<1>7. ASSUME NEW v \in Vendors
      PROVE  balance'[v] + credited[v] + Took(w, v)' + Gave(w, v)
                = balance[v] + credited'[v] + Took(w, v) + Gave(w, v)'
    <2>1. AmountsSound
        BY AmountsTyped
    <2>2. /\ balance[v] \in Nat /\ credited[v] \in Nat
          /\ Took(w, v) \in Nat /\ Gave(w, v) \in Nat
        BY <2>1 DEF AmountsSound
    <2>3. balance'[v] = balance[v] + (IF v = u THEN d ELSE 0)
        BY <1>2, <1>3, <2>2
    <2>4. credited'[v] = credited[v] /\ (IF v = u THEN d ELSE 0) \in Nat
        BY <1>2, <1>3
    <2> QED BY <1>6, <2>2, <2>3, <2>4
<1> QED
    BY <1>1, <1>5, <1>7, BalanceFollows DEF Accounted

(* Any other step leaves every amount alone, and a sale is credited to the *)
(* balance as it is to the canteen.                                        *)
LEMMA RestAccounted ==
    ASSUME Inv, Inv', Accounted, \A w \in WithdrawalIds : KeepsAmounts(w),
           \A v \in Vendors : balance'[v] + credited[v] = balance[v] + credited'[v]
    PROVE  BalanceAccounted'
<1>1. \A w \in WithdrawalIds : SameAmounts(w)
    BY AmountsStay
<1>2. AmountsSound /\ AmountsSound'
    BY AmountsTyped, PTL DEF Inv
<1> DEFINE w == CHOOSE w : w \notin WithdrawalIds
<1>3. ASSUME NEW v \in Vendors
      PROVE  Took(w, v) = Took(w, v)' /\ Gave(w, v) = Gave(w, v)'
    BY <1>1 DEF SameAmounts, Took, Gave, WithdrawalsOf, Existing
<1>4. ASSUME NEW v \in Vendors
      PROVE  balance'[v] + credited[v] + Took(w, v)' + Gave(w, v)
                = balance[v] + credited'[v] + Took(w, v) + Gave(w, v)'
    <2>1. /\ balance[v] \in Nat /\ balance'[v] \in Nat
          /\ credited[v] \in Nat /\ credited'[v] \in Nat
          /\ Took(w, v) \in Nat /\ Gave(w, v) \in Nat
        BY <1>2 DEF AmountsSound
    <2>2. balance'[v] + credited[v] = balance[v] + credited'[v]
        OBVIOUS
    <2> HIDE DEF w
    <2> QED BY <1>3, <2>1, <2>2
<1> QED
    BY <1>1, <1>4, BalanceFollows DEF Accounted, Inv

LEMMA AccountedStep == Inv /\ Inv' /\ Accounted /\ [Next]_vars => Accounted'
<1> SUFFICES ASSUME Inv, Inv', Accounted, [Next]_vars PROVE Accounted'
    OBVIOUS
<1> USE DEF Inv
<1>1. WithdrawalStep
    BY Steps
<1>2. RefundedExists'
    BY <1>1 DEF Accounted, RefundedExists, WithdrawalStep, Stays, Born, Accepted, Paid,
                ClosedNow
<1>3. ASSUME NEW a \in Callers, NEW w \in WithdrawalIds, CommitRequest(a, w)
      PROVE  BalanceAccounted'
    <2>1. CASE ~ CanDebit(call[a].vendor, call[a].debit)
        <3>1. /\ UNCHANGED <<withdrawals, refunds, balance, credited>>
            BY <1>3, <2>1 DEF CommitRequest
        <3>2. \A v \in Vendors : balance'[v] + credited[v] = balance[v] + credited'[v]
            BY <3>1
        <3> QED BY <3>1, <3>2, RestAccounted DEF KeepsAmounts
    <2> QED BY <1>3, <2>1, RequestAccounted
<1>4. ASSUME NEW a \in Callers, CommitAccept(a) \/ CommitConfirm(a)
      PROVE  BalanceAccounted'
    <2>1. UNCHANGED <<refunds, balance, credited>>
        BY <1>4 DEF CommitAccept, CommitConfirm
    <2>2. call[a].of \in WithdrawalIds /\ withdrawals[call[a].of] # NoRow
        BY <1>4, CallShape DEF CommitAccept, CommitConfirm, CallsSound
    <2>3. withdrawals[call[a].of] \in WithdrawalRow
        BY <2>2, RowShape
    <2>4. /\ withdrawals'[call[a].of].vendor = withdrawals[call[a].of].vendor
          /\ withdrawals'[call[a].of].debited = withdrawals[call[a].of].debited
        BY <1>4, <2>2, <2>3 DEF CommitAccept, CommitConfirm, TypeOK, WithdrawalRow
    <2>5. \A p \in WithdrawalIds \ {call[a].of} : withdrawals'[p] = withdrawals[p]
        BY <1>4, <2>2 DEF CommitAccept, CommitConfirm, TypeOK
    <2>6. withdrawals'[call[a].of] # NoRow
        BY <1>1, <2>2 DEF WithdrawalStep, Stays, Born, Accepted, Paid, ClosedNow
    <2>7. \A p \in WithdrawalIds : KeepsAmounts(p)
        BY <2>1, <2>2, <2>4, <2>5, <2>6 DEF KeepsAmounts
    <2>8. \A v \in Vendors : balance'[v] + credited[v] = balance[v] + credited'[v]
        BY <2>1
    <2> QED BY <2>7, <2>8, RestAccounted
<1>5. ASSUME NEW v \in Vendors, NEW amount \in Sales, Sale(v, amount)
      PROVE  BalanceAccounted'
    <2>1. \A p \in WithdrawalIds : KeepsAmounts(p)
        BY <1>5 DEF Sale, KeepsAmounts
    <2>2. \A u \in Vendors : balance'[u] + credited[u] = balance[u] + credited'[u]
        BY <1>5, SalesAssumption DEF Sale, TypeOK
    <2> QED BY <2>1, <2>2, RestAccounted
<1>6. ASSUME UNCHANGED <<withdrawals, refunds, balance, credited>>
      PROVE  BalanceAccounted'
    <2>1. \A p \in WithdrawalIds : KeepsAmounts(p)
        BY <1>6 DEF KeepsAmounts
    <2>2. \A u \in Vendors : balance'[u] + credited[u] = balance[u] + credited'[u]
        BY <1>6
    <2> QED BY <2>1, <2>2, RestAccounted
<1>7. ASSUME NEW a \in Callers, Read(a) \/ Abort(a) \/ WriteProof(a)
      PROVE  UNCHANGED <<withdrawals, refunds, balance, credited>>
    BY <1>7 DEF Read, ReadForRequest, ReadForAccept, ReadForProof, ReadForConfirm,
                ReadForClose, Abort, WriteProof, tables
<1>8. ASSUME NEW v \in Vendors, NEW on \in BOOLEAN, SetActive(v, on)
      PROVE  UNCHANGED <<withdrawals, refunds, balance, credited>>
    BY <1>8 DEF SetActive
<1>9. ASSUME UNCHANGED vars PROVE BalanceAccounted'
    BY <1>6, <1>9 DEF vars, tables
<1>10. BalanceAccounted'
    BY <1>3, <1>4, <1>5, <1>6, <1>7, <1>8, <1>9, CloseAccounted DEF Next, Commit
<1> QED
    BY <1>2, <1>10 DEF Accounted

LEMMA AccountedInit == Init => Accounted
<1> SUFFICES ASSUME Init PROVE Accounted
    OBVIOUS
<1>1. RefundedExists
    BY DEF Init, RefundedExists
<1>2. ASSUME NEW v \in Vendors
      PROVE  TakenFrom(v) = 0 /\ GivenBack(v) = 0 /\ balance[v] = InitialBalance
                /\ credited[v] = 0
    <2>1. WithdrawalsOf(v) = {}
        BY DEF Init, WithdrawalsOf, Existing
    <2>2. /\ DOMAIN [w \in WithdrawalsOf(v) |-> withdrawals[w].debited] = {}
          /\ DOMAIN [w \in WithdrawalsOf(v) |-> refunds[w] * withdrawals[w].debited] = {}
        BY <2>1
    <2>3. TakenFrom(v) = 0 /\ GivenBack(v) = 0
        BY <2>2, SumEmpty DEF TakenFrom, GivenBack
    <2> QED BY <2>3 DEF Init
<1>3. BalanceAccounted
    BY <1>2, BalanceAssumption DEF BalanceAccounted
<1> QED
    BY <1>1, <1>3 DEF Accounted

(* Whatever calls race, and however often a withdrawal is closed, the       *)
(* balance of a canteen is what its sales brought, less what its            *)
(* withdrawals took, plus what was given back: the conditional debit of     *)
(* request, the refund of failOrCancel and the rows they write agree.       *)
THEOREM BalancesAreAccounted == Spec => []BalanceAccounted
<1>1. Accounted => BalanceAccounted
    BY DEF Accounted
<1> QED BY <1>1, AccountedInit, AccountedStep, Invariance, PTL DEF Spec

-----------------------------------------------------------------------------
(***************************************************************************)
(* How often one withdrawal is settled.                                    *)
(***************************************************************************)

(* The calls that have read w open and may still close it. *)
Closing(w) == {a \in Callers : call[a].op = "close" /\ call[a].of = w}

(* Each closing that follows the first settlement was under way at it: the *)
(* settlements made and those still to come never outnumber the calls.     *)
SettledSound(w) ==
    /\ withdrawals[w] = NoRow \/ Status(w) \in Open =>
            refunds[w] = 0 /\ (withdrawals[w] # NoRow => ~ withdrawals[w].paid)
    /\ withdrawals[w] # NoRow /\ Status(w) \notin Open =>
            TimesSettled(w) + Cardinality(Closing(w)) <= Cardinality(Callers)

SettledInv == \A w \in WithdrawalIds : SettledSound(w)

LEMMA ClosingFinite ==
    \A w : /\ IsFiniteSet(Closing(w)) /\ Cardinality(Closing(w)) \in Nat
           /\ Cardinality(Callers) \in Nat
BY CallersAssumption, FS_Subset, FS_CardinalityType DEF Closing

(* A call that ends leaves room for the others only. *)
LEMMA OneLess ==
    ASSUME NEW a \in Callers, NEW S, S \subseteq Callers \ {a}
    PROVE  /\ Cardinality(S) \in Nat /\ Cardinality(Callers) \in Nat
           /\ Cardinality(S) + 1 <= Cardinality(Callers)
<1>1. /\ IsFiniteSet(Callers \ {a})
      /\ Cardinality(Callers \ {a}) = Cardinality(Callers) - 1
    BY CallersAssumption, FS_RemoveElement
<1>2. IsFiniteSet(S) /\ Cardinality(S) <= Cardinality(Callers \ {a})
    BY <1>1, FS_Subset
<1> QED
    BY <1>1, <1>2, CallersAssumption, FS_CardinalityType

LEMMA SettledInit == Init => SettledInv
BY DEF Init, SettledInv, SettledSound

(* Nobody starts to close a withdrawal that is not open. *)
LEMMA NoNewClosing ==
    ASSUME TypeOK, [Next]_vars, NEW w \in WithdrawalIds, Status(w) \notin Open
    PROVE  Closing(w)' \subseteq Closing(w)
<1> SUFFICES ASSUME NEW b \in Callers, call'[b].op = "close", call'[b].of = w,
                    call'[b] # call[b]
             PROVE  FALSE
    BY DEF Closing
<1>1. PICK a \in Callers : Read(a) \/ Commit(a) \/ Abort(a)
    BY DEF Next, vars, tables, Sale, SetActive
<1>2. CASE Commit(a) \/ Abort(a)
    BY <1>2 DEF Commit, CommitRequest, CommitAccept, WriteProof, CommitConfirm,
                CommitClose, Abort, End, TypeOK, Idle
<1>3. CASE Read(a)
    BY <1>3 DEF Read, ReadForRequest, ReadForAccept, ReadForProof, ReadForConfirm,
                ReadForClose, MayClose, Begin, TypeOK
<1> QED BY <1>1, <1>2, <1>3

LEMMA SettledStep ==
    ASSUME Inv, SettledInv, [Next]_vars
    PROVE  SettledInv'
<1> USE DEF Inv
<1> SUFFICES ASSUME NEW w \in WithdrawalIds PROVE SettledSound(w)'
    BY DEF SettledInv
<1>1. SettledSound(w) /\ refunds[w] \in Nat
    BY DEF SettledInv, TypeOK
<1>2. \/ Stays(w) \/ Born(w) \/ Accepted(w) \/ Paid(w) \/ ClosedNow(w)
    BY Steps DEF WithdrawalStep
<1>3. CASE Stays(w)
    <2>1. CASE withdrawals[w] # NoRow /\ Status(w) \notin Open
        <3>1. Closing(w)' \subseteq Closing(w)
            BY <2>1, NoNewClosing
        <3>2. IsFiniteSet(Closing(w)')
            BY <3>1, ClosingFinite, FS_Subset
        <3>3. /\ Cardinality(Closing(w)') <= Cardinality(Closing(w))
              /\ Cardinality(Closing(w)') \in Nat
            BY <3>1, <3>2, ClosingFinite, FS_Subset, FS_CardinalityType
        <3>4. TimesSettled(w)' = TimesSettled(w) /\ TimesSettled(w) \in Nat
            BY <1>1, <1>3 DEF Stays, TimesSettled
        <3>5. Cardinality(Closing(w)) \in Nat /\ Cardinality(Callers) \in Nat
            BY ClosingFinite
        <3>6. TimesSettled(w) + Cardinality(Closing(w)) <= Cardinality(Callers)
            BY <1>1, <2>1 DEF SettledSound
        <3>7. (TimesSettled(w) + Cardinality(Closing(w)))' <= Cardinality(Callers)
            BY <3>3, <3>4, <3>5, <3>6
        <3> QED BY <1>3, <2>1, <3>7 DEF Stays, SettledSound, Status
    <2>2. CASE withdrawals[w] = NoRow \/ Status(w) \in Open
        BY <1>1, <1>3, <2>2 DEF Stays, SettledSound, Status
    <2> QED BY <2>1, <2>2
<1>4. CASE Born(w)
    BY <1>1, <1>4 DEF Born, SettledSound, Status, Open
<1>5. CASE Accepted(w)
    BY <1>1, <1>5 DEF Accepted, SettledSound, Status, Open
<1>6. CASE Paid(w)
    <2>1. PICK a \in Callers : call[a].op = "confirm" /\ End(a)
        BY <1>6 DEF Paid
    <2>2. Closing(w)' \subseteq Callers \ {a}
        BY <2>1 DEF Closing, End, TypeOK, Idle
    <2>3. TimesSettled(w)' \in Nat /\ TimesSettled(w)' <= 1
        BY <1>1, <1>6 DEF Paid, SettledSound, Status, Open, TimesSettled
    <2>4. (TimesSettled(w) + Cardinality(Closing(w)))' <= Cardinality(Callers)
        BY <2>2, <2>3, OneLess
    <2> QED BY <1>6, <2>4 DEF Paid, SettledSound, Status, Open
<1>7. CASE ClosedNow(w)
    <2>1. PICK a \in Callers : call[a].op = "close" /\ call[a].of = w /\ End(a)
        BY <1>7 DEF ClosedNow
    <2>2. Closing(w)' = Closing(w) \ {a} /\ a \in Closing(w)
        BY <2>1 DEF Closing, End, TypeOK, Idle
    <2>3. TimesSettled(w) \in Nat /\ TimesSettled(w)' = TimesSettled(w) + 1
        BY <1>1, <1>7 DEF ClosedNow, TimesSettled
    <2>4. (TimesSettled(w) + Cardinality(Closing(w)))' <= Cardinality(Callers)
        <3>1. CASE Status(w) \in Open
            <4>1. TimesSettled(w) = 0
                BY <1>1, <1>7, <3>1 DEF SettledSound, TimesSettled, ClosedNow
            <4>2. Closing(w)' \subseteq Callers \ {a}
                BY <2>2 DEF Closing
            <4> QED BY <2>3, <4>1, <4>2, OneLess
        <3>2. CASE Status(w) \notin Open
            <4>1. TimesSettled(w) + Cardinality(Closing(w)) <= Cardinality(Callers)
                BY <1>1, <1>7, <3>2 DEF SettledSound, ClosedNow
            <4>2. Cardinality(Closing(w)') = Cardinality(Closing(w)) - 1
                BY <2>2, ClosingFinite, FS_RemoveElement
            <4> QED BY <2>3, <4>1, <4>2, ClosingFinite
        <3> QED BY <3>1, <3>2
    <2> QED BY <1>7, <2>4 DEF ClosedNow, SettledSound, Status, Open, Closed
<1> QED
    BY <1>2, <1>3, <1>4, <1>5, <1>6, <1>7

(* The money of a withdrawal leaves at most once per call that overlaps    *)
(* its first settlement: failOrCancel writes without checking again, but   *)
(* it never starts on a withdrawal that it reads as settled.               *)
THEOREM RefundsAreBounded == Spec => []RefundsBounded
<1>1. ASSUME Inv, SettledInv PROVE RefundsBounded
    <2> SUFFICES ASSUME NEW w \in Existing
                 PROVE  TimesSettled(w) <= Cardinality(Callers)
        BY DEF RefundsBounded
    <2>1. w \in WithdrawalIds /\ withdrawals[w] # NoRow /\ SettledSound(w)
        BY <1>1 DEF Existing, SettledInv
    <2>2. refunds[w] \in Nat
        BY <1>1, <2>1 DEF Inv, TypeOK
    <2>3. CASE Status(w) \in Open
        BY <2>1, <2>2, <2>3, ClosingFinite DEF SettledSound, TimesSettled
    <2>4. CASE Status(w) \notin Open
        BY <2>1, <2>2, <2>4, ClosingFinite DEF SettledSound, TimesSettled
    <2> QED BY <2>3, <2>4
<1> QED BY <1>1, SettledInit, SettledStep, Invariance, PTL DEF Spec

=============================================================================

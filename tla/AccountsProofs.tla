--------------------------- MODULE AccountsProofs ---------------------------
(***************************************************************************)
(* Proofs about the accounts of students and canteens, for any numbers of  *)
(* phones, rows and calls: the codes that open an account (OneTimeCodes),  *)
(* its PIN and its suspensions (Accounts), the number that finds it and    *)
(* the campuses of a canteen (Canteens).                                   *)
(*                                                                         *)
(* Calls read a row and write it later without a lock: each invariant adds *)
(* to the property what a call in flight still knows of what it has read,  *)
(* and what the calls that overtook it have left in a history variable.    *)
(***************************************************************************)
EXTENDS OneTimeCodes, Accounts, Canteens, FiniteSetTheorems, TLAPS

-----------------------------------------------------------------------------
(* One-time codes: one code lets one call through, wrong answers are       *)
(* bounded, and sponsors make a forest.                                    *)

\* A row that may still be answered.
Answerable(row) == row.state = "open" /\ ~row.expired /\ row.attempts < MaxAttempts

\* A row that does not exist yet has no history; an open one was never claimed; and
\* one that may still be answered accounts for every wrong answer to its code.
RowSound(i) ==
    /\ granted[i] <= 1
    /\ codes[i] = NoRow => granted[i] = 0 /\ wrong[i] = 0
    /\ codes[i] # NoRow /\ codes[i].state = "open" => granted[i] = 0
    /\ codes[i] # NoRow /\ Answerable(codes[i]) => wrong[i] <= codes[i].attempts

\* What a call has read: a row that exists, a counter that was below the limit.
ReadSound(r) ==
    /\ r.op = "send" /\ r.id # NoRow => r.id \in Stored /\ r.attempts < MaxAttempts
    /\ r.op \in {"wrong", "right"} => r.id \in Stored
    /\ r.op = "send" => r.phone \in Numbers
    /\ r.op = "right" => r.known \/ r.phone \in Phones
    /\ r.op \in {"register", "insert"} => r.phone \in Phones

OtpInv ==
    /\ OtpTypeOK
    /\ \A i \in CodeIds : RowSound(i)
    /\ \A c \in Callers : ReadSound(otpCall[c])

-----------------------------------------------------------------------------
(* Rows and calls are typed.                                               *)

LEMMA RowTyped ==
    ASSUME OtpTypeOK, NEW i \in Stored
    PROVE  /\ i \in CodeIds
           /\ codes[i] \in OtpCode
           /\ codes[i].phone \in Numbers
           /\ codes[i].expired \in BOOLEAN
           /\ codes[i].attempts \in 0 .. MaxAttempts
           /\ codes[i].state \in {"open", "used", "deleted"}
<1>1. i \in CodeIds /\ codes[i] # NoRow
    BY DEF Stored
<1>2. codes[i] \in OtpCode
    BY <1>1 DEF OtpTypeOK
<1> QED
    BY <1>1, <1>2 DEF OtpCode

LEMMA CallTyped ==
    ASSUME OtpTypeOK, NEW c \in Callers
    PROVE  /\ otpCall[c] \in OtpCall
           /\ otpCall[c].phone \in Numbers \cup {NoRow}
           /\ otpCall[c].id \in CodeIds \cup {NoRow}
           /\ otpCall[c].attempts \in 0 .. MaxAttempts
           /\ otpCall[c].known \in BOOLEAN
           /\ otpCall[c].sponsor \in Phones \cup {NoRow}
<1>1. otpCall[c] \in OtpCall
    BY DEF OtpTypeOK
<1> QED
    BY <1>1 DEF OtpCall

LEMMA IdleSound == OtpIdle \in OtpCall /\ ReadSound(OtpIdle)
  BY AttemptsAssumption DEF OtpIdle, Reading, OtpCall, ReadSound

\* A step that gives one call a sound reading, and deletes no row for good, leaves
\* every reading sound.
LEMMA OneCall ==
    ASSUME OtpInv, NEW c \in Callers, NEW r \in OtpCall, ReadSound(r)',
           otpCall' = [otpCall EXCEPT ![c] = r], Stored \subseteq Stored'
    PROVE  /\ otpCall' \in [Callers -> OtpCall]
           /\ \A d \in Callers : ReadSound(otpCall[d])'
<1>1. otpCall' \in [Callers -> OtpCall]
    BY DEF OtpInv, OtpTypeOK
<1>2. ASSUME NEW d \in Callers PROVE ReadSound(otpCall[d])'
    <2>1. CASE d = c
        <3>1. otpCall'[d] = r
            BY <2>1 DEF OtpInv, OtpTypeOK
        <3> QED BY <3>1 DEF ReadSound
    <2>2. CASE d # c
        <3>1. otpCall'[d] = otpCall[d]
            BY <2>2 DEF OtpInv, OtpTypeOK
        <3>2. ReadSound(otpCall[d])
            BY DEF OtpInv
        <3> QED BY <3>1, <3>2 DEF ReadSound
    <2> QED BY <2>1, <2>2
<1> QED
    BY <1>1, <1>2

\* A call that ends.
LEMMA CallEnds ==
    ASSUME OtpInv, NEW c \in Callers, Answer(c), Stored \subseteq Stored'
    PROVE  /\ otpCall' \in [Callers -> OtpCall]
           /\ \A d \in Callers : ReadSound(otpCall[d])'
<1>1. ReadSound(OtpIdle)'
    BY DEF ReadSound, OtpIdle, Reading
<1> QED
    BY <1>1, IdleSound, OneCall DEF Answer

\* A step that changes the row of one identifier.
LEMMA OneRow ==
    ASSUME OtpInv, NEW i \in CodeIds, NEW r \in OtpCode, NEW g \in Nat, NEW n \in Nat,
           codes' = [codes EXCEPT ![i] = r],
           granted' = [granted EXCEPT ![i] = g],
           wrong' = [wrong EXCEPT ![i] = n],
           g <= 1, r.state = "open" => g = 0, Answerable(r) => n <= r.attempts
    PROVE  /\ codes' \in [CodeIds -> OtpCode \cup {NoRow}]
           /\ granted' \in [CodeIds -> Nat] /\ wrong' \in [CodeIds -> Nat]
           /\ Stored \subseteq Stored'
           /\ \A j \in CodeIds : RowSound(j)'
<1>1. /\ codes' \in [CodeIds -> OtpCode \cup {NoRow}]
      /\ granted' \in [CodeIds -> Nat] /\ wrong' \in [CodeIds -> Nat]
    BY DEF OtpInv, OtpTypeOK
<1>2. Stored \subseteq Stored'
    BY RowAssumption DEF OtpInv, OtpTypeOK, Stored
<1>3. ASSUME NEW j \in CodeIds PROVE RowSound(j)'
    <2>1. CASE j = i
        <3>1. codes'[j] = r /\ granted'[j] = g /\ wrong'[j] = n /\ r # NoRow
            BY <2>1, RowAssumption DEF OtpInv, OtpTypeOK
        <3> QED BY <3>1 DEF RowSound
    <2>2. CASE j # i
        <3>1. codes'[j] = codes[j] /\ granted'[j] = granted[j] /\ wrong'[j] = wrong[j]
            BY <2>2 DEF OtpInv, OtpTypeOK
        <3>2. RowSound(j)
            BY DEF OtpInv
        <3> QED BY <3>1, <3>2 DEF RowSound
    <2> QED BY <2>1, <2>2
<1> QED
    BY <1>1, <1>2, <1>3

\* A step that leaves the rows alone.
LEMMA NoRowChanges ==
    ASSUME OtpInv, UNCHANGED <<codes, granted, wrong>>
    PROVE  /\ codes' \in [CodeIds -> OtpCode \cup {NoRow}]
           /\ granted' \in [CodeIds -> Nat] /\ wrong' \in [CodeIds -> Nat]
           /\ Stored = Stored'
           /\ \A j \in CodeIds : RowSound(j)'
  BY DEF OtpInv, OtpTypeOK, Stored, RowSound

-----------------------------------------------------------------------------
(* The invariant.                                                          *)

LEMMA OtpInitInv == OtpInit => OtpInv
<1> SUFFICES ASSUME OtpInit PROVE OtpInv
    OBVIOUS
<1>1. OtpTypeOK
    BY IdleSound DEF OtpInit, OtpTypeOK
<1>2. \A i \in CodeIds : RowSound(i)
    BY DEF OtpInit, RowSound
<1>3. \A c \in Callers : ReadSound(otpCall[c])
    BY IdleSound DEF OtpInit
<1> QED
    BY <1>1, <1>2, <1>3 DEF OtpInv

LEMMA PurgedRow ==
    ASSUME NEW r \in OtpCode
    PROVE  /\ [r EXCEPT !.state = "deleted", !.attempts = 0] \in OtpCode
           /\ [r EXCEPT !.state = "deleted", !.attempts = 0].state = "deleted"
<1>1. 0 \in 0 .. MaxAttempts
    BY AttemptsAssumption
<1> QED
    BY <1>1 DEF OtpCode

\* sendOtp, up to the hash.
LEMMA SendStep ==
    ASSUME OtpInv, NEW c \in Callers, NEW p \in Numbers, ReadForSend(c, p)
    PROVE  OtpInv'
<1>1. codes' \in [CodeIds -> OtpCode \cup {NoRow}]
    <2>1. ASSUME NEW i \in CodeIds PROVE codes'[i] \in OtpCode \cup {NoRow}
        <3>1. CASE i \in Stored /\ codes[i].phone = p /\ codes[i].expired
            <4>1. codes'[i] = [codes[i] EXCEPT !.state = "deleted", !.attempts = 0]
                BY <3>1 DEF ReadForSend, Purged
            <4>2. codes[i] \in OtpCode
                BY <3>1, RowTyped DEF OtpInv
            <4> QED BY <4>1, <4>2, PurgedRow
        <3>2. CASE ~(i \in Stored /\ codes[i].phone = p /\ codes[i].expired)
            BY <3>2 DEF ReadForSend, Purged, OtpInv, OtpTypeOK
        <3> QED BY <3>1, <3>2
    <2> QED BY <2>1 DEF ReadForSend, Purged
<1>2. ASSUME NEW i \in CodeIds
      PROVE  /\ (i \in Stored) <=> (i \in Stored')
             /\ codes'[i] = codes[i] \/ (codes'[i] # NoRow /\ codes'[i].state = "deleted")
    <2>1. CASE i \in Stored /\ codes[i].phone = p /\ codes[i].expired
        <3>1. codes'[i] = [codes[i] EXCEPT !.state = "deleted", !.attempts = 0]
            BY <2>1 DEF ReadForSend, Purged
        <3>2. codes'[i] \in OtpCode /\ codes'[i].state = "deleted"
            <4>1. codes[i] \in OtpCode
                BY <2>1, RowTyped DEF OtpInv
            <4> QED BY <3>1, <4>1, PurgedRow
        <3> QED BY <2>1, <3>2, RowAssumption DEF Stored
    <2>2. CASE ~(i \in Stored /\ codes[i].phone = p /\ codes[i].expired)
        <3>1. codes'[i] = codes[i]
            BY <2>2 DEF ReadForSend, Purged
        <3> QED BY <3>1 DEF Stored
    <2> QED BY <2>1, <2>2
<1>3. Stored \subseteq Stored'
    BY <1>2 DEF Stored
<1>4. ASSUME NEW i \in CodeIds PROVE RowSound(i)'
    <2>1. RowSound(i)
        BY DEF OtpInv
    <2>2. granted' = granted /\ wrong' = wrong
        BY DEF ReadForSend
    <2> QED BY <2>1, <2>2, <1>2 DEF RowSound, Answerable
<1>5. /\ otpCall' \in [Callers -> OtpCall]
      /\ \A d \in Callers : ReadSound(otpCall[d])'
    <2>1. CASE otpCall' = otpCall
        <3>1. ASSUME NEW d \in Callers PROVE ReadSound(otpCall[d])'
            <4>1. ReadSound(otpCall[d])
                BY DEF OtpInv
            <4> QED BY <2>1, <4>1, <1>3 DEF ReadSound
        <3> QED BY <2>1, <3>1 DEF OtpInv, OtpTypeOK
    <2>2. ASSUME NEW i \in Active(p) \cup {NoRow}, NEW n \in 0 .. MaxAttempts,
                 i # NoRow => n < MaxAttempts,
                 otpCall' = [otpCall EXCEPT ![c] =
                     Reading("send", p, i, n, FALSE)]
          PROVE  /\ otpCall' \in [Callers -> OtpCall]
                 /\ \A d \in Callers : ReadSound(otpCall[d])'
        <3> DEFINE r == Reading("send", p, i, n, FALSE)
        <3>1. i \in CodeIds \cup {NoRow} /\ (i # NoRow => i \in Stored)
            BY DEF Active, Stored
        <3>2. r \in OtpCall
            BY <3>1 DEF OtpCall, Reading
        <3>3. ReadSound(r)'
            BY <2>2, <3>1, <1>3 DEF ReadSound, Reading
        <3> QED BY <2>2, <3>2, <3>3, <1>3, OneCall
    <2>3. CASE Active(p) = {}
        <3>1. otpCall' = [otpCall EXCEPT ![c] = Reading("send", p, NoRow, 0, FALSE)]
            BY <2>3 DEF ReadForSend
        <3>2. 0 \in 0 .. MaxAttempts
            BY AttemptsAssumption
        <3> QED BY <2>2, <3>1, <3>2
    <2>4. CASE Active(p) # {}
        <3>1. PICK i \in Active(p) :
                  otpCall' = IF codes[i].attempts >= MaxAttempts THEN otpCall
                    ELSE [otpCall EXCEPT ![c] =
                             Reading("send", p, i, codes[i].attempts, FALSE)]
            BY <2>4 DEF ReadForSend
        <3>2. codes[i].attempts \in 0 .. MaxAttempts
            BY RowTyped DEF OtpInv, Active
        <3>3. CASE codes[i].attempts >= MaxAttempts
            BY <2>1, <3>1, <3>3
        <3>4. CASE ~(codes[i].attempts >= MaxAttempts)
            <4>1. codes[i].attempts < MaxAttempts
                BY <3>2, <3>4, AttemptsAssumption
            <4> QED BY <2>2, <3>1, <3>2, <3>4, <4>1
        <3> QED BY <3>3, <3>4
    <2> QED BY <2>3, <2>4
<1> QED
    BY <1>1, <1>4, <1>5 DEF ReadForSend, OtpInv, OtpTypeOK

\* sendOtp, after the hash: the row that was read, or a new one.
LEMMA StoreStep ==
    ASSUME OtpInv, NEW c \in Callers, Resend(c) \/ CreateCode(c)
    PROVE  OtpInv'
<1>1. CASE Resend(c)
    <2> DEFINE i == otpCall[c].id
    <2>1. i \in Stored /\ otpCall[c].attempts < MaxAttempts
        BY <1>1 DEF Resend, OtpInv, ReadSound
    <2>2. CASE codes[i].state = "deleted"
        <3>1. UNCHANGED <<codes, granted, wrong>> /\ Answer(c)
            BY <1>1, <2>2 DEF Resend
        <3> QED BY <1>1, <3>1, NoRowChanges, CallEnds DEF Resend, OtpInv, OtpTypeOK
    <2>3. CASE codes[i].state # "deleted"
        <3> DEFINE r == [codes[i] EXCEPT !.expired = FALSE,
                                         !.attempts = otpCall[c].attempts + 1]
        <3>1. otpCall[c].attempts + 1 \in 0 .. MaxAttempts
            BY <2>1, CallTyped, AttemptsAssumption DEF OtpInv
        <3>2. r \in OtpCode /\ r.state = codes[i].state /\ r.attempts = otpCall[c].attempts + 1
            BY <2>1, <3>1, RowTyped DEF OtpInv, OtpCode
        <3>3. i \in CodeIds /\ granted[i] \in Nat /\ RowSound(i) /\ codes[i] # NoRow
            BY <2>1, RowTyped DEF OtpInv, OtpTypeOK, Stored
        <3>4. /\ codes' = [codes EXCEPT ![i] = r]
              /\ granted' = [granted EXCEPT ![i] = granted[i]]
              /\ wrong' = [wrong EXCEPT ![i] = 0]
            BY <1>1, <2>3, <3>3 DEF Resend, OtpInv, OtpTypeOK
        <3>5. granted[i] <= 1 /\ (r.state = "open" => granted[i] = 0) /\ 0 <= r.attempts
            BY <3>1, <3>2, <3>3 DEF RowSound
        <3>6. /\ codes' \in [CodeIds -> OtpCode \cup {NoRow}]
              /\ granted' \in [CodeIds -> Nat] /\ wrong' \in [CodeIds -> Nat]
              /\ Stored \subseteq Stored'
              /\ \A j \in CodeIds : RowSound(j)'
            BY <3>2, <3>3, <3>4, <3>5, OneRow
        <3> QED BY <1>1, <3>6, CallEnds DEF Resend, OtpInv, OtpTypeOK
    <2> QED BY <2>2, <2>3
<1>2. CASE CreateCode(c)
    <2> DEFINE r == [phone |-> otpCall[c].phone, state |-> "open",
                     expired |-> FALSE, attempts |-> 0]
    <2>1. PICK i \in CodeIds \ Stored : codes' = [codes EXCEPT ![i] = r]
        BY <1>2 DEF CreateCode
    <2>2. r \in OtpCode
        BY <1>2, AttemptsAssumption DEF CreateCode, OtpInv, ReadSound, OtpCode
    <2>3. granted[i] = 0 /\ wrong[i] = 0
        BY DEF Stored, OtpInv, RowSound
    <2>4. granted' = [granted EXCEPT ![i] = 0] /\ wrong' = [wrong EXCEPT ![i] = 0]
        BY <1>2, <2>3 DEF CreateCode, OtpInv, OtpTypeOK
    <2>5. /\ codes' \in [CodeIds -> OtpCode \cup {NoRow}]
          /\ granted' \in [CodeIds -> Nat] /\ wrong' \in [CodeIds -> Nat]
          /\ Stored \subseteq Stored'
          /\ \A j \in CodeIds : RowSound(j)'
        <3>1. i \in CodeIds /\ 0 \in Nat /\ 0 <= 1 /\ r.attempts = 0 /\ 0 <= r.attempts
            OBVIOUS
        <3> HIDE DEF r
        <3> QED BY <2>1, <2>2, <2>4, <3>1, OneRow
    <2> QED BY <1>2, <2>5, CallEnds DEF CreateCode, OtpInv, OtpTypeOK
<1> QED
    BY <1>1, <1>2

\* consumeOtp, up to the comparison.
LEMMA AnswerStep ==
    ASSUME OtpInv, NEW c \in Callers, NEW p \in Numbers, ReadForVerify(c, p)
    PROVE  OtpInv'
<1>1. PICK i \in Active(p), right \in BOOLEAN :
          otpCall' = [otpCall EXCEPT ![c] =
              Reading(IF right THEN "right" ELSE "wrong", p, i, 0, Known(p))]
    BY DEF ReadForVerify
<1>2. i \in Stored /\ i \in CodeIds
    BY DEF Active, Stored
<1>3. Known(p) \in BOOLEAN /\ (Known(p) \/ p \in Phones)
    BY DEF Known, Numbers
<1>4. PICK r \in OtpCall :
          /\ otpCall' = [otpCall EXCEPT ![c] = r]
          /\ r.op \in {"right", "wrong"} /\ r.id = i /\ r.phone = p /\ r.known = Known(p)
    <2> DEFINE q == Reading(IF right THEN "right" ELSE "wrong", p, i, 0, Known(p))
    <2>1. q \in OtpCall
        BY <1>2, <1>3, AttemptsAssumption DEF OtpCall, Reading
    <2>2. q.op \in {"right", "wrong"} /\ q.id = i /\ q.phone = p /\ q.known = Known(p)
        BY DEF Reading
    <2>3. otpCall' = [otpCall EXCEPT ![c] = q]
        BY <1>1
    <2> HIDE DEF q
    <2> QED BY <2>1, <2>2, <2>3
<1>5. /\ codes' \in [CodeIds -> OtpCode \cup {NoRow}]
      /\ granted' \in [CodeIds -> Nat] /\ wrong' \in [CodeIds -> Nat]
      /\ Stored = Stored'
      /\ \A j \in CodeIds : RowSound(j)'
    BY NoRowChanges DEF ReadForVerify
<1>6. ReadSound(r)'
    BY <1>2, <1>3, <1>4, <1>5 DEF ReadSound
<1>7. /\ otpCall' \in [Callers -> OtpCall]
      /\ \A d \in Callers : ReadSound(otpCall[d])'
    BY <1>4, <1>5, <1>6, OneCall
<1> QED
    BY <1>5, <1>7 DEF ReadForVerify, OtpInv, OtpTypeOK

\* consumeOtp, after the comparison: a wrong answer is counted.
LEMMA CountStep ==
    ASSUME OtpInv, NEW c \in Callers, CountWrong(c)
    PROVE  OtpInv'
<1> DEFINE i == otpCall[c].id
<1>1. i \in Stored /\ i \in CodeIds
    BY DEF CountWrong, OtpInv, ReadSound, Stored
<1> DEFINE r == IF Countable(i) THEN [codes[i] EXCEPT !.attempts = codes[i].attempts + 1]
                 ELSE codes[i]
<1>2. codes[i] \in OtpCode /\ codes[i].attempts \in 0 .. MaxAttempts /\ codes[i] # NoRow
    BY <1>1, RowTyped DEF OtpInv, Stored
<1>3. granted[i] \in Nat /\ wrong[i] \in Nat /\ RowSound(i)
    BY <1>1 DEF OtpInv, OtpTypeOK
<1>4. /\ codes' = [codes EXCEPT ![i] = r]
      /\ granted' = [granted EXCEPT ![i] = granted[i]]
      /\ wrong' = [wrong EXCEPT ![i] = wrong[i] + 1]
    BY <1>1 DEF CountWrong, OtpInv, OtpTypeOK
<1>5. /\ r \in OtpCode /\ r.state = codes[i].state
      /\ Answerable(r) => wrong[i] + 1 <= r.attempts
    <2>1. CASE Countable(i)
        <3>1. codes[i].attempts + 1 \in 0 .. MaxAttempts
            BY <1>2, <2>1, AttemptsAssumption DEF Countable
        <3>2. /\ r \in OtpCode /\ r.state = codes[i].state /\ r.expired = codes[i].expired
              /\ r.attempts = codes[i].attempts + 1
            BY <1>2, <2>1, <3>1 DEF OtpCode
        <3>3. codes[i].attempts < MaxAttempts
            BY <2>1 DEF Countable
        <3> HIDE DEF i, r
        <3> QED BY <1>2, <1>3, <3>2, <3>3 DEF RowSound, Answerable
    <2>2. CASE ~Countable(i)
        <3>1. ~Answerable(codes[i])
            BY <2>2 DEF Countable, Answerable
        <3> QED BY <1>2, <2>2, <3>1
    <2> QED BY <2>1, <2>2
<1>6. granted[i] <= 1 /\ wrong[i] + 1 \in Nat /\ (r.state = "open" => granted[i] = 0)
    BY <1>2, <1>3, <1>5 DEF RowSound
<1>7. /\ codes' \in [CodeIds -> OtpCode \cup {NoRow}]
      /\ granted' \in [CodeIds -> Nat] /\ wrong' \in [CodeIds -> Nat]
      /\ Stored \subseteq Stored'
      /\ \A j \in CodeIds : RowSound(j)'
    <2> HIDE DEF i, r
    <2> QED BY <1>1, <1>3, <1>4, <1>5, <1>6, OneRow
<1> QED
    BY <1>7, CallEnds DEF CountWrong, OtpInv, OtpTypeOK

\* consumeOtp, after the comparison: the code is claimed.
LEMMA ClaimStep ==
    ASSUME OtpInv, NEW c \in Callers, Claim(c)
    PROVE  OtpInv'
<1> DEFINE i == otpCall[c].id
<1>1. i \in Stored /\ i \in CodeIds /\ (otpCall[c].known \/ otpCall[c].phone \in Phones)
    BY DEF Claim, OtpInv, ReadSound, Stored
<1>2. CASE ~Claimable(i)
    <2>1. UNCHANGED <<codes, granted, wrong>> /\ Answer(c)
        BY <1>2 DEF Claim
    <2> QED BY <2>1, NoRowChanges, CallEnds DEF Claim, OtpInv, OtpTypeOK
<1>3. CASE Claimable(i)
    <2> DEFINE r == [codes[i] EXCEPT !.state = "used"]
    <2>1. codes[i] \in OtpCode /\ codes[i] # NoRow
        BY <1>1, RowTyped DEF OtpInv, Stored
    <2>2. r \in OtpCode /\ r.state = "used"
        BY <2>1 DEF OtpCode
    <2>3. granted[i] = 0 /\ wrong[i] \in Nat
        BY <1>1, <1>3, <2>1 DEF Claimable, Open, OtpInv, OtpTypeOK, RowSound
    <2>4. /\ codes' = [codes EXCEPT ![i] = r]
          /\ granted' = [granted EXCEPT ![i] = 1]
          /\ wrong' = [wrong EXCEPT ![i] = wrong[i]]
        BY <1>1, <1>3, <2>3 DEF Claim, OtpInv, OtpTypeOK
    <2>5. /\ codes' \in [CodeIds -> OtpCode \cup {NoRow}]
          /\ granted' \in [CodeIds -> Nat] /\ wrong' \in [CodeIds -> Nat]
          /\ Stored \subseteq Stored'
          /\ \A j \in CodeIds : RowSound(j)'
        <3>1. 1 \in Nat /\ 1 <= 1 /\ r.state # "open" /\ ~Answerable(r)
            BY <2>2 DEF Answerable
        <3> HIDE DEF i, r
        <3> QED BY <1>1, <2>2, <2>3, <2>4, <3>1, OneRow
    <2>6. /\ otpCall' \in [Callers -> OtpCall]
          /\ \A d \in Callers : ReadSound(otpCall[d])'
        <3>1. CASE otpCall[c].known
            BY <1>3, <2>5, <3>1, CallEnds DEF Claim
        <3>2. CASE ~otpCall[c].known
            <4>1. otpCall[c] \in OtpCall
                BY CallTyped DEF OtpInv
            <4>2. PICK q \in OtpCall :
                      /\ otpCall' = [otpCall EXCEPT ![c] = q]
                      /\ q.op = "register" /\ q.phone = otpCall[c].phone
                <5> DEFINE p == [otpCall[c] EXCEPT !.op = "register", !.id = NoRow]
                <5>1. p \in OtpCall /\ p.op = "register" /\ p.phone = otpCall[c].phone
                    BY <4>1 DEF OtpCall
                <5>2. otpCall' = [otpCall EXCEPT ![c] = p]
                    BY <1>3, <3>2 DEF Claim, OtpInv, OtpTypeOK
                <5> HIDE DEF p
                <5> QED BY <5>1, <5>2
            <4>3. ReadSound(q)'
                BY <1>1, <3>2, <4>2 DEF ReadSound
            <4> QED BY <2>5, <4>2, <4>3, OneCall
        <3> QED BY <3>1, <3>2
    <2> QED BY <2>5, <2>6 DEF Claim, OtpInv, OtpTypeOK
<1> QED
    BY <1>2, <1>3

\* A sponsor is found before the account is inserted.
LEMMA FindStep ==
    ASSUME OtpInv, NEW c \in Callers, FindSponsor(c)
    PROVE  OtpInv'
<1>1. PICK s \in students \cup {NoRow} :
          otpCall' = [otpCall EXCEPT ![c].op = "insert", ![c].sponsor = s]
    BY DEF FindSponsor, Sponsors
<1>2. otpCall[c] \in OtpCall /\ otpCall[c].phone \in Phones
    BY CallTyped DEF FindSponsor, OtpInv, ReadSound
<1>3. s \in Phones \cup {NoRow}
    BY DEF OtpInv, OtpTypeOK
<1>4. PICK q \in OtpCall : /\ q.op = "insert" /\ q.phone = otpCall[c].phone
                           /\ otpCall' = [otpCall EXCEPT ![c] = q]
    <2> DEFINE r == [otpCall[c] EXCEPT !.op = "insert", !.sponsor = s]
    <2>1. r \in OtpCall /\ r.op = "insert" /\ r.phone = otpCall[c].phone
        BY <1>2, <1>3 DEF OtpCall
    <2>2. otpCall' = [otpCall EXCEPT ![c] = r]
        BY <1>1
    <2> HIDE DEF r
    <2> QED BY <2>1, <2>2
<1>5. /\ codes' \in [CodeIds -> OtpCode \cup {NoRow}]
      /\ granted' \in [CodeIds -> Nat] /\ wrong' \in [CodeIds -> Nat]
      /\ Stored = Stored'
      /\ \A j \in CodeIds : RowSound(j)'
    BY NoRowChanges DEF FindSponsor
<1>6. ReadSound(q)'
    BY <1>2, <1>4 DEF ReadSound
<1>7. /\ otpCall' \in [Callers -> OtpCall]
      /\ \A d \in Callers : ReadSound(otpCall[d])'
    BY <1>4, <1>5, <1>6, OneCall
<1> QED
    BY <1>5, <1>7 DEF FindSponsor, OtpInv, OtpTypeOK

\* The end of a call, with or without a registration.
LEMMA EndStep ==
    ASSUME OtpInv, NEW c \in Callers, Register(c) \/ Abandon(c)
    PROVE  OtpInv'
<1>1. /\ codes' \in [CodeIds -> OtpCode \cup {NoRow}]
      /\ granted' \in [CodeIds -> Nat] /\ wrong' \in [CodeIds -> Nat]
      /\ Stored = Stored'
      /\ \A j \in CodeIds : RowSound(j)'
    BY NoRowChanges DEF Register, Abandon
<1>2. /\ otpCall' \in [Callers -> OtpCall]
      /\ \A d \in Callers : ReadSound(otpCall[d])'
    BY <1>1, CallEnds DEF Register, Abandon
<1>3. students' \subseteq Phones /\ referrer' \in [Phones -> Phones \cup {NoRow}]
    <2>1. CASE Abandon(c)
        BY <2>1 DEF Abandon, OtpInv, OtpTypeOK
    <2>2. CASE Register(c)
        <3>1. otpCall[c].phone \in Phones
            BY <2>2 DEF Register, OtpInv, ReadSound
        <3>2. otpCall[c].sponsor \in Phones \cup {NoRow}
            BY CallTyped DEF OtpInv
        <3> QED BY <2>2, <3>1, <3>2 DEF Register, OtpInv, OtpTypeOK
    <2> QED BY <2>1, <2>2
<1> QED
    BY <1>1, <1>2, <1>3 DEF OtpInv, OtpTypeOK

\* The time of a code.
LEMMA ExpireStep ==
    ASSUME OtpInv, Expire
    PROVE  OtpInv'
<1>1. PICK i \in Stored : codes' = [codes EXCEPT ![i].expired = TRUE]
    BY DEF Expire
<1> DEFINE r == [codes[i] EXCEPT !.expired = TRUE]
<1>2. codes[i] \in OtpCode /\ codes[i] # NoRow /\ i \in CodeIds
    BY RowTyped DEF OtpInv, Stored
<1>3. r \in OtpCode /\ r.state = codes[i].state /\ r.attempts = codes[i].attempts
    BY <1>2 DEF OtpCode
<1>4. granted[i] \in Nat /\ wrong[i] \in Nat /\ RowSound(i)
    BY <1>2 DEF OtpInv, OtpTypeOK
<1>5. /\ codes' = [codes EXCEPT ![i] = r]
      /\ granted' = [granted EXCEPT ![i] = granted[i]]
      /\ wrong' = [wrong EXCEPT ![i] = wrong[i]]
    BY <1>1, <1>2 DEF Expire, OtpInv, OtpTypeOK
<1>6. /\ granted[i] <= 1 /\ (r.state = "open" => granted[i] = 0)
      /\ Answerable(r) => wrong[i] <= r.attempts
    BY <1>2, <1>3, <1>4 DEF RowSound, Answerable, OtpCode
<1>7. /\ codes' \in [CodeIds -> OtpCode \cup {NoRow}]
      /\ granted' \in [CodeIds -> Nat] /\ wrong' \in [CodeIds -> Nat]
      /\ Stored \subseteq Stored'
      /\ \A j \in CodeIds : RowSound(j)'
    <2> HIDE DEF r
    <2> QED BY <1>2, <1>3, <1>4, <1>5, <1>6, OneRow
<1>8. \A d \in Callers : ReadSound(otpCall[d])'
    BY <1>7 DEF Expire, OtpInv, ReadSound
<1> QED
    BY <1>7, <1>8 DEF Expire, OtpInv, OtpTypeOK

LEMMA OtpStep == OtpInv /\ [OtpNext]_otpVars => OtpInv'
<1> SUFFICES ASSUME OtpInv, [OtpNext]_otpVars PROVE OtpInv'
    OBVIOUS
<1>1. ASSUME NEW c \in Callers, SendOtp(c) \/ ActivateStart(c) \/ StartPasswordReset(c)
      PROVE  OtpInv'
    <2>1. PICK p \in Numbers : ReadForSend(c, p)
        BY <1>1 DEF SendOtp, ActivateStart, StartPasswordReset, Numbers
    <2> QED BY <2>1, SendStep
<1>2. ASSUME NEW c \in Callers, VerifyOtp(c) \/ ActivateVerifyOtp(c) \/ VerifyResetSms(c)
      PROVE  OtpInv'
    <2>1. PICK p \in Numbers : ReadForVerify(c, p)
        BY <1>2 DEF VerifyOtp, ActivateVerifyOtp, VerifyResetSms, Numbers
    <2> QED BY <2>1, AnswerStep
<1>3. CASE UNCHANGED otpVars
    <2>1. \A j \in CodeIds : RowSound(j)'
        BY <1>3, NoRowChanges DEF otpVars
    <2>2. \A d \in Callers : ReadSound(otpCall[d])'
        BY <1>3 DEF otpVars, OtpInv, ReadSound, Stored
    <2> QED BY <1>3, <2>1, <2>2 DEF otpVars, OtpInv, OtpTypeOK
<1>4. CASE OtpNext
    BY <1>1, <1>2, <1>4, StoreStep, CountStep, ClaimStep, FindStep, EndStep,
       ExpireStep DEF OtpNext
<1> QED
    BY <1>3, <1>4

LEMMA OtpInvariance == OtpSpec => []OtpInv
  BY OtpInitInv, OtpStep, PTL DEF OtpSpec

-----------------------------------------------------------------------------
(* What follows. *)

\* The tables of codes, students and sponsors stay well typed: a counter never
\* exceeds five, not even the one that sendOtp writes back (auth.service.ts:63).
THEOREM OtpTyped == OtpSpec => []OtpTypeOK
<1>1. OtpInv => OtpTypeOK
    BY DEF OtpInv
<1> QED
    BY <1>1, OtpInvariance, PTL

\* One code lets one call through, however many answer it at the same time
\* (auth.service.ts:157).
THEOREM CodesServeOnce == OtpSpec => []CodeServesOnce
<1>1. OtpInv => CodeServesOnce
    BY DEF OtpInv, RowSound, CodeServesOnce
<1> QED
    BY <1>1, OtpInvariance, PTL

\* Whenever his own answer was read, nobody is let through once as many wrong
\* answers as the limit were given since the row holds its code: the claim looks at
\* the counter again, and while a row may be claimed its counter has missed none
\* (auth.service.ts:134, 157).
THEOREM ClaimsWithinTries == OtpSpec => LetInWithinTries
<1>1. OtpInv /\ [OtpNext]_otpVars =>
          [\A i \in CodeIds : granted'[i] # granted[i] =>
               ForReset(i) \/ wrong[i] < MaxAttempts]_otpVars
    <2> SUFFICES ASSUME OtpInv, OtpNext, NEW i \in CodeIds, granted'[i] # granted[i]
                 PROVE  ForReset(i) \/ wrong[i] < MaxAttempts
        BY SMTT(30) DEF otpVars
    <2>1. OtpNext => (\E c \in Callers : Claim(c)) \/ UNCHANGED granted
        BY DEF OtpNext, SendOtp, ActivateStart, StartPasswordReset, ReadForSend, Resend,
               CreateCode, VerifyOtp, ActivateVerifyOtp, VerifyResetSms, ReadForVerify,
               CountWrong, FindSponsor, Register, Abandon, Expire
    <2>2. PICK c \in Callers : Claim(c)
        BY <2>1
    <2>3. otpCall[c].id = i /\ Claimable(i)
        BY <2>2 DEF Claim, OtpInv, OtpTypeOK
    <2>4. i \in Stored
        BY <2>2, <2>3 DEF Claim, OtpInv, ReadSound
    <2>5. codes[i] # NoRow /\ codes[i].attempts \in 0 .. MaxAttempts /\ RowSound(i)
        BY <2>4, RowTyped DEF Stored, OtpInv
    <2>6. wrong[i] \in Nat
        BY DEF OtpInv, OtpTypeOK
    <2> QED BY <2>3, <2>5, <2>6, AttemptsAssumption DEF Claimable, Open, RowSound, Answerable
<1> QED
    BY <1>1, OtpInvariance, PTL DEF OtpSpec, LetInWithinTries

\* The calls that still have to count a wrong answer to a code.
Answering(i) == {c \in Callers : otpCall[c].op = "wrong" /\ otpCall[c].id = i}

Most == MaxAttempts + Cardinality(Callers) - 1
TriesInv == \A i \in CodeIds : wrong[i] + Cardinality(Answering(i)) <= Most

LEMMA AnsweringIsFinite ==
    ASSUME NEW S \in SUBSET Callers
    PROVE  /\ IsFiniteSet(S) /\ Cardinality(S) \in Nat
           /\ Cardinality(Callers) \in Nat /\ Cardinality(S) <= Cardinality(Callers)
<1>1. IsFiniteSet(S) /\ Cardinality(S) <= Cardinality(Callers)
    BY CallersAssumption, FS_Subset
<1> QED
    BY <1>1, CallersAssumption, FS_CardinalityType

\* No more answers in flight, no more wrong ones.
LEMMA FewerTries ==
    ASSUME OtpInv, OtpInv', TriesInv, NEW i \in CodeIds, wrong'[i] <= wrong[i],
           Answering(i)' \subseteq Answering(i)
    PROVE  wrong'[i] + Cardinality(Answering(i)') <= Most
<1>1. /\ Answering(i) \in SUBSET Callers /\ Answering(i)' \in SUBSET Callers
      /\ wrong[i] \in Nat /\ wrong'[i] \in Nat
    BY DEF Answering, OtpInv, OtpTypeOK
<1>2. Cardinality(Answering(i)') <= Cardinality(Answering(i))
    BY <1>1, AnsweringIsFinite, FS_Subset
<1>3. wrong[i] + Cardinality(Answering(i)) <= Most
    BY DEF TriesInv
<1>4. /\ Cardinality(Answering(i)) \in Nat /\ Cardinality(Answering(i)') \in Nat
      /\ Most \in Int
    BY <1>1, AnsweringIsFinite, AttemptsAssumption DEF Most
<1> HIDE DEF Most
<1> QED
    BY <1>1, <1>2, <1>3, <1>4

LEMMA TriesStep == OtpInv /\ TriesInv /\ [OtpNext]_otpVars => TriesInv'
<1> SUFFICES ASSUME OtpInv, TriesInv, [OtpNext]_otpVars, NEW i \in CodeIds
             PROVE  wrong'[i] + Cardinality(Answering(i)') <= Most
    BY DEF TriesInv, Most
<1>1. OtpInv'
    BY OtpStep
<1>2. wrong[i] \in Nat /\ wrong'[i] \in Nat
    BY <1>1 DEF OtpInv, OtpTypeOK
\* An answer that is read while its row may be answered.
<1>3. ASSUME NEW c \in Callers, NEW p \in Numbers, ReadForVerify(c, p)
      PROVE  wrong'[i] + Cardinality(Answering(i)') <= Most
    <2>1. PICK j \in Active(p), right \in BOOLEAN :
              /\ MayTry(j)
              /\ otpCall' = [otpCall EXCEPT ![c] =
                     Reading(IF right THEN "right" ELSE "wrong", p, j, 0, Known(p))]
        BY <1>3 DEF ReadForVerify
    <2>2. /\ otpCall'[c].id = j
          /\ \A d \in Callers : d # c => otpCall'[d] = otpCall[d]
        BY <2>1 DEF OtpInv, OtpTypeOK, Reading
    <2>3. wrong' = wrong
        BY <1>3 DEF ReadForVerify
    <2>4. CASE j = i
        <3>1. i \in Stored /\ codes[i] # NoRow /\ codes[i].attempts \in 0 .. MaxAttempts
            BY <2>4, RowTyped DEF Active, Stored, OtpInv
        <3>2. wrong[i] <= codes[i].attempts /\ codes[i].attempts < MaxAttempts
            BY <2>1, <2>4, <3>1 DEF MayTry, Active, Open, OtpInv, RowSound, Answerable
        <3>3. /\ Cardinality(Answering(i)') <= Cardinality(Callers)
              /\ Cardinality(Callers) \in Nat /\ Cardinality(Answering(i)') \in Nat
            <4>1. Answering(i)' \in SUBSET Callers
                BY DEF Answering
            <4> QED BY <4>1, AnsweringIsFinite
        <3> QED BY <1>2, <2>3, <3>1, <3>2, <3>3, AttemptsAssumption DEF Most
    <2>5. CASE j # i
        <3>1. Answering(i)' \subseteq Answering(i)
            BY <2>2, <2>5 DEF Answering
        <3> QED BY <1>1, <1>2, <2>3, <3>1, FewerTries
    <2> QED BY <2>4, <2>5
\* An answer that is counted is in flight no more.
<1>4. ASSUME NEW c \in Callers, CountWrong(c)
      PROVE  wrong'[i] + Cardinality(Answering(i)') <= Most
    <2>1. /\ otpCall[c].op = "wrong" /\ otpCall'[c].op = "idle"
          /\ \A d \in Callers : d # c => otpCall'[d] = otpCall[d]
        BY <1>4 DEF CountWrong, Answer, OtpIdle, Reading, OtpInv, OtpTypeOK
    <2>2. Answering(i)' = Answering(i) \ {c}
        BY <2>1 DEF Answering
    <2>3. CASE otpCall[c].id = i
        <3>1. c \in Answering(i) /\ Answering(i) \in SUBSET Callers
            BY <2>1, <2>3 DEF Answering
        <3>2. wrong'[i] = wrong[i] + 1
            BY <1>4, <2>3 DEF CountWrong, OtpInv, OtpTypeOK
        <3>3. Cardinality(Answering(i)') = Cardinality(Answering(i)) - 1
            BY <2>2, <3>1, AnsweringIsFinite, FS_RemoveElement
        <3>4. wrong[i] + Cardinality(Answering(i)) <= Most
            BY DEF TriesInv
        <3>5. Cardinality(Answering(i)) \in Nat /\ Most \in Int
            BY <3>1, AnsweringIsFinite, AttemptsAssumption DEF Most
        <3> HIDE DEF Most
        <3> QED BY <1>2, <3>2, <3>3, <3>4, <3>5
    <2>4. CASE otpCall[c].id # i
        <3>1. wrong'[i] = wrong[i]
            BY <1>4, <2>4 DEF CountWrong, OtpInv, OtpTypeOK
        <3> QED BY <1>1, <1>2, <2>2, <3>1, FewerTries
    <2> QED BY <2>3, <2>4
\* Whoever stops answering, or sends another code.
<1>5. ASSUME NEW c \in Callers, NEW q \in OtpCall, q.op # "wrong",
             otpCall' = [otpCall EXCEPT ![c] = q]
      PROVE  Answering(i)' \subseteq Answering(i)
    BY <1>5 DEF Answering, OtpInv, OtpTypeOK
<1>6. ASSUME NEW c \in Callers, Answer(c) PROVE Answering(i)' \subseteq Answering(i)
    <2>1. OtpIdle.op # "wrong"
        BY DEF OtpIdle, Reading
    <2> QED BY <1>5, <1>6, <2>1, IdleSound DEF Answer
<1>7. ASSUME NEW c \in Callers, Resend(c)
      PROVE  wrong'[i] + Cardinality(Answering(i)') <= Most
    <2>1. wrong'[i] = wrong[i] \/ wrong'[i] = 0
        BY <1>7 DEF Resend, OtpInv, OtpTypeOK
    <2> QED BY <1>1, <1>2, <1>6, <1>7, <2>1, FewerTries DEF Resend
<1>8. ASSUME NEW c \in Callers, CreateCode(c) \/ Register(c) \/ Abandon(c)
      PROVE  wrong'[i] + Cardinality(Answering(i)') <= Most
    <2>1. Answer(c) /\ wrong' = wrong
        BY <1>8 DEF CreateCode, Register, Abandon
    <2> QED BY <1>1, <1>2, <1>6, <2>1, FewerTries
<1>9. ASSUME NEW c \in Callers, NEW p \in Numbers, ReadForSend(c, p)
      PROVE  wrong'[i] + Cardinality(Answering(i)') <= Most
    <2>1. wrong' = wrong
        BY <1>9 DEF ReadForSend
    <2>2. Answering(i)' \subseteq Answering(i)
        <3>1. otpCall' = otpCall \/ otpCall'[c].op = "send"
            BY <1>9 DEF ReadForSend, OtpIdle, Reading, OtpInv, OtpTypeOK
        <3>2. \A d \in Callers : d # c => otpCall'[d] = otpCall[d]
            BY <1>9 DEF ReadForSend, OtpInv, OtpTypeOK
        <3> QED BY <3>1, <3>2 DEF Answering
    <2> QED BY <1>1, <1>2, <2>1, <2>2, FewerTries
<1>10. ASSUME NEW c \in Callers, Claim(c) \/ FindSponsor(c)
       PROVE  wrong'[i] + Cardinality(Answering(i)') <= Most
    <2>1. wrong' = wrong
        BY <1>10 DEF Claim, FindSponsor
    <2>2. /\ otpCall'[c].op # "wrong"
          /\ \A d \in Callers : d # c => otpCall'[d] = otpCall[d]
        BY <1>10 DEF Claim, FindSponsor, Answer, OtpIdle, Reading, OtpInv, OtpTypeOK, OtpCall
    <2>3. Answering(i)' \subseteq Answering(i)
        BY <2>2 DEF Answering
    <2> QED BY <1>1, <1>2, <2>1, <2>3, FewerTries
<1>11. CASE UNCHANGED <<otpCall, wrong>>
    BY <1>1, <1>2, <1>11, FewerTries DEF Answering
<1>12. ASSUME NEW c \in Callers, SendOtp(c) \/ ActivateStart(c) \/ StartPasswordReset(c)
       PROVE  wrong'[i] + Cardinality(Answering(i)') <= Most
    <2>1. PICK p \in Numbers : ReadForSend(c, p)
        BY <1>12 DEF SendOtp, ActivateStart, StartPasswordReset, Numbers
    <2> QED BY <2>1, <1>9
<1>13. ASSUME NEW c \in Callers, VerifyOtp(c) \/ ActivateVerifyOtp(c) \/ VerifyResetSms(c)
       PROVE  wrong'[i] + Cardinality(Answering(i)') <= Most
    <2>1. PICK p \in Numbers : ReadForVerify(c, p)
        BY <1>13 DEF VerifyOtp, ActivateVerifyOtp, VerifyResetSms, Numbers
    <2> QED BY <2>1, <1>3
<1>14. Expire \/ UNCHANGED otpVars => UNCHANGED <<otpCall, wrong>>
    BY DEF Expire, otpVars
<1> QED
    BY <1>4, <1>7, <1>8, <1>10, <1>11, <1>12, <1>13, <1>14 DEF OtpNext

\* Whatever the number of calls in flight, the rows and the limit, and whatever
\* resends write back an old counter: the wrong answers to one code never exceed
\* the limit by more than the calls that were reading it together, less one
\* (auth.service.ts:124, 134).
THEOREM TriesAreBounded == OtpSpec => []TriesBounded
<1>1. OtpInit => TriesInv
    <2> SUFFICES ASSUME OtpInit, NEW i \in CodeIds
                 PROVE  wrong[i] + Cardinality(Answering(i)) <= Most
        BY DEF TriesInv
    <2>1. wrong[i] = 0 /\ Answering(i) = {}
        BY DEF OtpInit, OtpIdle, Reading, Answering
    <2>2. Cardinality(Answering(i)) = 0
        BY <2>1, FS_EmptySet
    <2>3. Cardinality(Callers) \in Nat
        BY CallersAssumption, FS_CardinalityType
    <2> QED BY <2>1, <2>2, <2>3, AttemptsAssumption DEF Most
<1>2. OtpInv /\ TriesInv => TriesBounded
    <2> SUFFICES ASSUME OtpInv, TriesInv, NEW i \in CodeIds PROVE wrong[i] <= Most
        BY DEF TriesBounded, Most
    <2>1. wrong[i] \in Nat /\ wrong[i] + Cardinality(Answering(i)) <= Most
        BY DEF OtpInv, OtpTypeOK, TriesInv
    <2>2. Cardinality(Answering(i)) \in Nat
        BY AnsweringIsFinite DEF Answering
    <2>3. Most \in Int
        <3>1. Cardinality(Callers) \in Nat
            BY CallersAssumption, FS_CardinalityType
        <3> QED BY <3>1, AttemptsAssumption DEF Most
    <2> HIDE DEF Most
    <2> QED BY <2>1, <2>2, <2>3
<1> QED
    BY <1>1, <1>2, OtpInvariance, TriesStep, PTL DEF OtpSpec

-----------------------------------------------------------------------------
(* Sponsors. *)

\* A sponsor registered before, and so did one who was only found.
SponsorsKnown ==
    /\ \A p \in students : referrer[p] \in students \cup {NoRow}
    /\ \A c \in Callers : otpCall[c].sponsor \in students \cup {NoRow}

SponsorInv == SponsorsKnown /\ ReferralsAreATree

\* Whoever is not about to insert has found nobody else.
LEMMA SponsorsFound ==
    ASSUME OtpInv, SponsorsKnown, OtpNext, students \subseteq students', NEW d \in Callers
    PROVE  otpCall'[d].sponsor \in students' \cup {NoRow}
<1>1. otpCall[d].sponsor \in students \cup {NoRow} /\ otpCall \in [Callers -> OtpCall]
    BY DEF SponsorsKnown, OtpInv, OtpTypeOK
<1>2. ASSUME NEW c \in Callers, NEW q, q.sponsor \in students \cup {NoRow},
             otpCall' = [otpCall EXCEPT ![c] = q]
      PROVE  otpCall'[d].sponsor \in students' \cup {NoRow}
    BY <1>1, <1>2
<1>3. \A o, p, i, n, k : Reading(o, p, i, n, k).sponsor = NoRow
    BY DEF Reading
<1>4. ASSUME NEW c \in Callers, Answer(c)
      PROVE  otpCall'[d].sponsor \in students' \cup {NoRow}
    <2>1. OtpIdle.sponsor = NoRow
        BY <1>3 DEF OtpIdle
    <2> QED BY <1>2, <1>4, <2>1 DEF Answer
<1>5. ASSUME NEW c \in Callers, NEW p, ReadForSend(c, p) \/ ReadForVerify(c, p)
      PROVE  otpCall'[d].sponsor \in students' \cup {NoRow}
    <2>1. CASE ReadForSend(c, p)
        <3>1. CASE Active(p) = {}
            <4> DEFINE q == Reading("send", p, NoRow, 0, FALSE)
            <4>1. otpCall' = [otpCall EXCEPT ![c] = q]
                BY <2>1, <3>1 DEF ReadForSend
            <4>2. q.sponsor = NoRow
                BY DEF Reading
            <4> HIDE DEF q
            <4> QED BY <1>2, <4>1, <4>2
        <3>2. CASE Active(p) # {}
            <4>1. PICK i \in Active(p) :
                      otpCall' = IF codes[i].attempts >= MaxAttempts THEN otpCall
                        ELSE [otpCall EXCEPT ![c] =
                                 Reading("send", p, i, codes[i].attempts, FALSE)]
                BY <2>1, <3>2 DEF ReadForSend
            <4>2. CASE otpCall' = otpCall
                BY <1>1, <4>2
            <4>3. CASE otpCall' = [otpCall EXCEPT ![c] =
                                      Reading("send", p, i, codes[i].attempts, FALSE)]
                BY <1>2, <1>3, <4>3
            <4> QED BY <4>1, <4>2, <4>3
        <3> QED BY <3>1, <3>2
    <2>2. CASE ReadForVerify(c, p)
        <3>1. PICK i \in Active(p), right \in BOOLEAN :
                  otpCall' = [otpCall EXCEPT ![c] =
                      Reading(IF right THEN "right" ELSE "wrong", p, i, 0, Known(p))]
            BY <2>2 DEF ReadForVerify
        <3> QED BY <1>2, <1>3, <3>1
    <2> QED BY <1>5, <2>1, <2>2
<1>6. ASSUME NEW c \in Callers, Claim(c)
      PROVE  otpCall'[d].sponsor \in students' \cup {NoRow}
    <2>1. Answer(c) \/ otpCall' = [otpCall EXCEPT ![c].op = "register", ![c].id = NoRow]
        BY <1>6 DEF Claim
    <2>2. CASE otpCall' = [otpCall EXCEPT ![c].op = "register", ![c].id = NoRow]
        <3>1. otpCall'[d].sponsor = otpCall[d].sponsor
            BY <1>1, <2>2 DEF OtpCall
        <3> QED BY <1>1, <3>1
    <2> QED BY <1>4, <2>1, <2>2
<1>7. ASSUME NEW c \in Callers, FindSponsor(c)
      PROVE  otpCall'[d].sponsor \in students' \cup {NoRow}
    <2>1. PICK s \in students \cup {NoRow} :
              otpCall' = [otpCall EXCEPT ![c].op = "insert", ![c].sponsor = s]
        BY <1>7 DEF FindSponsor, Sponsors
    <2>2. otpCall'[d].sponsor \in {s, otpCall[d].sponsor}
        BY <1>1, <2>1 DEF OtpCall
    <2> QED BY <1>1, <2>1, <2>2
<1>8. ASSUME NEW c \in Callers,
             CountWrong(c) \/ Register(c) \/ Abandon(c) \/ Resend(c) \/ CreateCode(c)
      PROVE  Answer(c)
    BY <1>8 DEF CountWrong, Register, Abandon, Resend, CreateCode
<1>9. CASE Expire
    BY <1>1, <1>9 DEF Expire
<1> QED
    BY <1>4, <1>5, <1>6, <1>7, <1>8, <1>9
    DEF OtpNext, SendOtp, ActivateStart, StartPasswordReset, VerifyOtp, ActivateVerifyOtp,
        VerifyResetSms

LEMMA SponsorStep ==
    ASSUME OtpInv, SponsorInv, [OtpNext]_otpVars
    PROVE  SponsorInv'
<1>1. CASE UNCHANGED otpVars
    BY <1>1 DEF otpVars, SponsorInv, SponsorsKnown, ReferralsAreATree
<1>2. CASE OtpNext /\ UNCHANGED <<students, referrer>>
    <2>1. \A d \in Callers : otpCall'[d].sponsor \in students' \cup {NoRow}
        BY <1>2, SponsorsFound DEF SponsorInv
    <2> QED BY <1>2, <2>1 DEF SponsorInv, SponsorsKnown, ReferralsAreATree
<1>3. ASSUME NEW c \in Callers, Register(c), ~UNCHANGED <<students, referrer>>
      PROVE  SponsorInv'
    <2> DEFINE p == otpCall[c].phone
    <2>1. p \in Phones /\ p \notin students /\ students \subseteq Phones
        BY <1>3 DEF Register, PhoneFree, OtpInv, OtpTypeOK, ReadSound
    <2>2. PICK s \in (students \cup {NoRow}) \ {p} :
              /\ students' = students \cup {p}
              /\ referrer' = [referrer EXCEPT ![p] = s]
        <3>1. otpCall[c].sponsor \in (students \cup {NoRow}) \ {p}
            <4>1. NoRow \notin Phones
                BY NoRowAssumption DEF Numbers
            <4> QED BY <2>1, <4>1 DEF SponsorInv, SponsorsKnown
        <3> QED BY <1>3, <3>1 DEF Register
    <2>3. /\ referrer'[p] = s
          /\ \A q \in students : referrer'[q] = referrer[q] /\ referrer[q] \in students \cup {NoRow}
        BY <2>1, <2>2 DEF SponsorInv, SponsorsKnown, OtpInv, OtpTypeOK
    <2>4. SponsorsKnown'
        <3>1. OtpNext
            BY <1>3 DEF OtpNext
        <3>2. \A d \in Callers : otpCall'[d].sponsor \in students' \cup {NoRow}
            BY <2>2, <3>1, SponsorsFound DEF SponsorInv
        <3> QED BY <2>2, <2>3, <3>2 DEF SponsorsKnown
    <2>5. NoRow \notin Phones
        BY NoRowAssumption DEF Numbers
    <2>6. ASSUME NEW S \in (SUBSET students') \ {{}}
          PROVE  \E q \in S : referrer'[q] \notin S
        <3>1. CASE p \notin S
            <4>1. S \in (SUBSET students) \ {{}}
                BY <2>2, <3>1
            <4> QED BY <2>3, <4>1 DEF SponsorInv, ReferralsAreATree
        <3>2. CASE p \in S /\ S \ {p} = {}
            BY <2>2, <2>3, <3>2
        <3>3. CASE p \in S /\ S \ {p} # {}
            <4>1. S \ {p} \in (SUBSET students) \ {{}}
                BY <2>2, <3>3
            <4>2. PICK q \in S \ {p} : referrer[q] \notin S \ {p}
                BY <4>1 DEF SponsorInv, ReferralsAreATree
            <4>3. q \in students /\ referrer[q] # p
                BY <2>1, <2>3, <2>5, <4>1, <4>2
            <4> QED BY <2>3, <4>2, <4>3
        <3> QED BY <3>1, <3>2, <3>3
    <2> QED BY <2>4, <2>6 DEF SponsorInv, ReferralsAreATree
<1>4. OtpNext => (\E c \in Callers : Register(c)) \/ UNCHANGED <<students, referrer>>
    BY DEF OtpNext, SendOtp, ActivateStart, StartPasswordReset, ReadForSend, Resend,
           CreateCode, VerifyOtp, ActivateVerifyOtp, VerifyResetSms, ReadForVerify,
           CountWrong, Claim, FindSponsor, Abandon, Expire
<1> QED
    BY <1>1, <1>2, <1>3, <1>4

\* Nobody is his own sponsor, directly or through others (auth.service.ts:232).
THEOREM SponsorsFormAForest == OtpSpec => []ReferralsAreATree
<1>1. OtpInit => SponsorInv
    <2> SUFFICES ASSUME OtpInit PROVE SponsorInv
        OBVIOUS
    <2>1. students = {}
        BY DEF OtpInit
    <2>2. ReferralsAreATree
        <3> SUFFICES ASSUME NEW S \in (SUBSET students) \ {{}} PROVE FALSE
            BY DEF ReferralsAreATree
        <3> QED BY <2>1
    <2>3. \A c \in Callers : otpCall[c].sponsor = NoRow
        BY DEF OtpInit, OtpIdle, Reading
    <2> QED BY <2>1, <2>2, <2>3 DEF SponsorInv, SponsorsKnown
<1>2. SponsorInv => ReferralsAreATree
    BY DEF SponsorInv
<1> QED
    BY <1>1, <1>2, OtpInvariance, SponsorStep, PTL DEF OtpSpec

-----------------------------------------------------------------------------
(* The PIN, the suspensions and the sessions of a mobile account.          *)

Locking == {r \in Requests : request[r].at = "lock"}

\* A call on its way to a session has read an account that was usable, and still
\* is unless it was suspended since.
RequestSound(r) ==
    request[r].at \in {"right", "open", "pin"} /\ ~request[r].late => AccountUsable

AccountInv ==
    /\ AccountTypeOK
    /\ user.suspended <=> events["ACTIVE"] > 0
    /\ user.failures + 1 <= MaxFailures + lost + Cardinality(Locking)
    /\ SuspensionActive(user) => \A t \in Sessions : session[t] = "live" => t \in slipped
    /\ \A r \in Requests : RequestSound(r)

LEMMA UserTyped ==
    ASSUME AccountTypeOK
    PROVE  /\ user \in User
           /\ user.pin \in BOOLEAN /\ user.failures \in Nat /\ user.lock \in Deadline
           /\ user.suspended \in BOOLEAN /\ user.until \in Deadline
BY DEF AccountTypeOK, User

LEMMA LockingIsFinite == IsFiniteSet(Locking) /\ Cardinality(Locking) \in Nat
<1>1. Locking \in SUBSET Requests
    BY DEF Locking
<1> QED
    BY <1>1, FS_Subset, FS_CardinalityType, RequestsAssumption

LEMMA LockingPrimeIsFinite == IsFiniteSet(Locking') /\ Cardinality(Locking') \in Nat
<1>1. Locking' \in SUBSET Requests
    BY DEF Locking
<1> QED
    BY <1>1, FS_Subset, FS_CardinalityType, RequestsAssumption

\* One call goes to another step: the calls that are to lock change by that one.
LEMMA OneCallMoves ==
    ASSUME AccountTypeOK, NEW r \in Requests, NEW q \in Request,
           request' = [request EXCEPT ![r] = q]
    PROVE  /\ request' \in [Requests -> Request]
           /\ request'[r] = q /\ \A s \in Requests \ {r} : request'[s] = request[s]
           /\ q.at = "lock" /\ request[r].at # "lock" =>
                  Cardinality(Locking') = Cardinality(Locking) + 1
           /\ q.at # "lock" /\ request[r].at = "lock" =>
                  Cardinality(Locking') = Cardinality(Locking) - 1
           /\ q.at # "lock" /\ request[r].at # "lock" => Locking' = Locking
<1>1. /\ request' \in [Requests -> Request]
      /\ request'[r] = q /\ \A s \in Requests \ {r} : request'[s] = request[s]
    BY DEF AccountTypeOK
<1>2. IsFiniteSet(Locking) /\ Cardinality(Locking) \in Nat
    BY LockingIsFinite
<1>3. ASSUME q.at = "lock", request[r].at # "lock"
      PROVE  Cardinality(Locking') = Cardinality(Locking) + 1
    <2>1. Locking' = Locking \cup {r} /\ r \notin Locking
        BY <1>1, <1>3 DEF Locking
    <2>2. Cardinality(Locking \cup {r}) = Cardinality(Locking) + 1
        BY <1>2, <2>1, FS_AddElement
    <2> QED
        BY <2>1, <2>2
<1>4. ASSUME q.at # "lock", request[r].at = "lock"
      PROVE  Cardinality(Locking') = Cardinality(Locking) - 1
    <2>1. Locking' = Locking \ {r} /\ r \in Locking
        BY <1>1, <1>4 DEF Locking
    <2>2. Cardinality(Locking \ {r}) = Cardinality(Locking) - 1
        BY <1>2, <2>1, FS_RemoveElement
    <2> QED
        BY <2>1, <2>2
<1>5. ASSUME q.at # "lock", request[r].at # "lock"
      PROVE  Locking' = Locking
    BY <1>1, <1>5 DEF Locking
<1> QED
    BY <1>1, <1>3, <1>4, <1>5

LEMMA IdleTyped ==
    /\ Idle \in Request /\ Idle.at = "idle"
    /\ \A step \in Steps : LET q == [Idle EXCEPT !.at = step] IN
           q \in Request /\ q.at = step /\ q.late = FALSE
BY DEF Idle, Request, Steps

LEMMA AccountInvInit == AccountInit => AccountInv
<1> SUFFICES ASSUME AccountInit
             PROVE  AccountInv
    OBVIOUS
<1>1. AccountTypeOK
    BY DEF AccountInit, AccountTypeOK, User, Deadline, Statuses, Request, Steps, Idle
<1>2. \A r \in Requests : RequestSound(r)
    BY DEF AccountInit, RequestSound, Idle
<1>3. user.failures = 0 /\ lost = 0 /\ ~user.suspended /\ events["ACTIVE"] = 0
    BY DEF AccountInit, Statuses
<1> QED
    BY <1>1, <1>2, <1>3, LockingIsFinite, FailuresAssumption DEF AccountInv, SuspensionActive

\* A call goes on from one step to another, and nothing else changes.
LEMMA RequestGoesOn ==
    ASSUME AccountInv, NEW r \in Requests, NEW q \in Request,
           request' = [request EXCEPT ![r] = q],
           q.at # "lock", request[r].at # "lock",
           UNCHANGED <<role, user, events, lost>>,
           session' \in [Sessions -> {"none", "live", "revoked"}],
           slipped' \subseteq Sessions,
           SuspensionActive(user) =>
               \A t \in Sessions : session'[t] = "live" => t \in slipped',
           q.at \in {"right", "open", "pin"} /\ ~q.late => AccountUsable
    PROVE  AccountInv'
<1>0. AccountTypeOK
    BY DEF AccountInv
<1>1. /\ request' \in [Requests -> Request]
      /\ request'[r] = q /\ \A s \in Requests \ {r} : request'[s] = request[s]
      /\ Cardinality(Locking') = Cardinality(Locking)
    BY <1>0, OneCallMoves, LockingIsFinite
<1>2. AccountTypeOK'
    BY <1>0, <1>1 DEF AccountTypeOK
<1>3. ASSUME NEW s \in Requests PROVE RequestSound(s)'
    BY <1>1 DEF AccountInv, RequestSound, AccountUsable, SuspensionActive
<1> QED
    BY <1>1, <1>2, <1>3 DEF AccountInv, SuspensionActive

\* The row of the account changes: it does not become less usable, and no lock is
\* forgotten.
LEMMA AccountChanges ==
    ASSUME AccountInv, AccountTypeOK',
           UNCHANGED <<session, slipped>>,
           user'.suspended <=> events'["ACTIVE"] > 0,
           user'.failures + 1 <= MaxFailures + lost' + Cardinality(Locking'),
           SuspensionActive(user') => SuspensionActive(user),
           \A r \in Requests : request'[r] = request[r] \/ RequestSound(r)'
    PROVE  AccountInv'
<1>1. ASSUME NEW r \in Requests, request'[r] = request[r] PROVE RequestSound(r)'
    BY <1>1 DEF AccountInv, RequestSound, AccountUsable
<1> QED
    BY <1>1 DEF AccountInv, SuspensionActive

LEMMA AccountInvNext == AccountInv /\ [AccountNext]_accountVars => AccountInv'
<1> SUFFICES ASSUME AccountInv, [AccountNext]_accountVars
             PROVE  AccountInv'
    OBVIOUS
<1>0. /\ AccountTypeOK
      /\ user \in User /\ events \in [Statuses -> Nat]
      /\ session \in [Sessions -> {"none", "live", "revoked"}]
      /\ request \in [Requests -> Request] /\ lost \in Nat /\ slipped \subseteq Sessions
    BY DEF AccountInv, AccountTypeOK
<1>u. /\ user.failures \in Nat /\ user.suspended \in BOOLEAN
      /\ Cardinality(Locking) \in Nat /\ MaxFailures \in Nat \ {0} /\ events["ACTIVE"] \in Nat
    BY <1>0, UserTyped, LockingIsFinite, FailuresAssumption DEF Statuses
<1>1. CASE UNCHANGED accountVars
    BY <1>0, <1>1 DEF accountVars, AccountInv, AccountTypeOK, Locking, RequestSound,
        AccountUsable, SuspensionActive
<1>2. ASSUME NEW r \in Requests, ReadForLogin(r) PROVE AccountInv'
    <2>1. PICK answer \in {"wrong", "right"} : 
              request' = [request EXCEPT ![r] = [at |-> answer, late |-> FALSE,
                              dirty |-> (user.failures # 0 \/ user.lock = "past")
                                        /\ answer = "right"]]
        BY <1>2 DEF ReadForLogin
    <2>2. PICK dirty \in BOOLEAN :
              dirty = ((user.failures # 0 \/ user.lock = "past") /\ answer = "right")
        OBVIOUS
    <2>3. PICK q : q = [at |-> answer, late |-> FALSE, dirty |-> dirty]
        OBVIOUS
    <2>4. q \in Request /\ q.at = answer
        BY <2>3 DEF Request, Steps
    <2>5. request' = [request EXCEPT ![r] = q]
        BY <2>1, <2>2, <2>3
    <2>6. AccountUsable /\ request[r].at # "lock" /\ UNCHANGED <<role, user, events, session, lost, slipped>>
        BY <1>2 DEF ReadForLogin, Free
    <2> QED
        BY <1>0, <2>4, <2>5, <2>6, RequestGoesOn DEF AccountInv
<1>3. ASSUME NEW r \in Requests, CountFailure(r) PROVE AccountInv'
    <2>1. /\ request[r].at = "wrong"
          /\ user' = [user EXCEPT !.failures = @ + 1]
          /\ UNCHANGED <<role, events, session, lost, slipped>>
        BY <1>3 DEF CountFailure
    <2>2. PICK q \in Request :
              /\ request' = [request EXCEPT ![r] = q]
              /\ q.at = IF user.failures + 1 >= MaxFailures THEN "lock" ELSE "idle"
        BY <1>3, IdleTyped DEF CountFailure, Goes, Ends, Steps
    <2>3. /\ user' \in User /\ user'.failures = user.failures + 1
          /\ user'.suspended = user.suspended /\ user'.until = user.until
        BY <1>0, <1>u, <2>1 DEF User
    <2>4. /\ request' \in [Requests -> Request]
          /\ request'[r] = q /\ \A s \in Requests \ {r} : request'[s] = request[s]
          /\ q.at = "lock" => Cardinality(Locking') = Cardinality(Locking) + 1
          /\ q.at # "lock" => Locking' = Locking
        BY <1>0, <2>1, <2>2, OneCallMoves
    <2>5. AccountTypeOK'
        BY <1>0, <2>1, <2>3, <2>4 DEF AccountTypeOK
    <2>6. user'.failures + 1 <= MaxFailures + lost' + Cardinality(Locking')
        <3>1. CASE q.at = "lock"
            BY <1>0, <1>u, <2>1, <2>3, <2>4, <3>1 DEF AccountInv
        <3>2. CASE q.at # "lock"
            BY <1>0, <1>u, <2>1, <2>2, <2>3, <2>4, <3>2
        <3> QED
            BY <3>1, <3>2
    <2>7. RequestSound(r)'
        BY <2>2, <2>4 DEF RequestSound
    <2>8. user'.suspended <=> events'["ACTIVE"] > 0
        BY <2>1, <2>3 DEF AccountInv
    <2> QED
        BY <2>1, <2>3, <2>4, <2>5, <2>6, <2>7, <2>8, AccountChanges DEF SuspensionActive
<1>4. ASSUME NEW r \in Requests, LockPin(r) PROVE AccountInv'
    <2>1. /\ user' = [user EXCEPT !.failures = 0, !.lock = "later"]
          /\ lost' = 0 /\ UNCHANGED <<role, events, session, slipped>>
          /\ request' = [request EXCEPT ![r] = Idle]
        BY <1>4 DEF LockPin, Ends
    <2>2. /\ user' \in User /\ user'.failures = 0
          /\ user'.suspended = user.suspended /\ user'.until = user.until
        BY <1>0, <2>1 DEF User, Deadline
    <2>3. /\ request' \in [Requests -> Request]
          /\ request'[r] = Idle /\ \A s \in Requests \ {r} : request'[s] = request[s]
        BY <1>0, <2>1, IdleTyped
    <2>4. AccountTypeOK'
        BY <1>0, <2>1, <2>2, <2>3 DEF AccountTypeOK
    <2>5. user'.failures + 1 <= MaxFailures + lost' + Cardinality(Locking')
        BY <1>u, <2>1, <2>2, LockingPrimeIsFinite
    <2>6. RequestSound(r)'
        BY <2>3, IdleTyped DEF RequestSound
    <2>7. user'.suspended <=> events'["ACTIVE"] > 0
        BY <2>1, <2>2 DEF AccountInv
    <2> QED
        BY <2>1, <2>2, <2>3, <2>4, <2>5, <2>6, <2>7, AccountChanges DEF SuspensionActive
<1>5. ASSUME NEW r \in Requests, ClearFailures(r) PROVE AccountInv'
    <2>1. PICK p \in Request : p = request[r] /\ p.at = "right" /\ p.late \in BOOLEAN
        BY <1>0, <1>5 DEF ClearFailures, Request
    <2>2. PICK q : q = [p EXCEPT !.at = "open", !.dirty = FALSE]
        OBVIOUS
    <2>3. q \in Request /\ q.at = "open" /\ q.late = p.late
        BY <2>1, <2>2 DEF Request, Steps
    <2>4. /\ user' = [user EXCEPT !.failures = IF p.dirty THEN 0 ELSE @,
                                  !.lock = IF p.dirty THEN "never" ELSE @]
          /\ lost' = IF p.dirty THEN 0 ELSE lost
          /\ UNCHANGED <<role, events, session, slipped>>
        BY <1>5, <2>1 DEF ClearFailures
    <2>5. request' = [request EXCEPT ![r] = q]
        BY <1>0, <1>5, <2>1, <2>2 DEF ClearFailures
    <2>6. /\ user' \in User /\ (user'.failures = IF p.dirty THEN 0 ELSE user.failures)
          /\ user'.suspended = user.suspended /\ user'.until = user.until
        BY <1>0, <2>4 DEF User, Deadline
    <2>7. /\ request' \in [Requests -> Request]
          /\ request'[r] = q /\ \A s \in Requests \ {r} : request'[s] = request[s]
          /\ Cardinality(Locking') = Cardinality(Locking)
        BY <1>0, <1>u, <2>1, <2>3, <2>5, OneCallMoves
    <2>8. AccountTypeOK'
        BY <1>0, <2>4, <2>6, <2>7 DEF AccountTypeOK
    <2>9. user'.failures + 1 <= MaxFailures + lost' + Cardinality(Locking')
        BY <1>0, <1>u, <2>4, <2>6, <2>7 DEF AccountInv
    <2>10. RequestSound(r)'
        BY <2>1, <2>3, <2>6, <2>7 DEF AccountInv, RequestSound, AccountUsable, SuspensionActive
    <2>11. user'.suspended <=> events'["ACTIVE"] > 0
        BY <2>4, <2>6 DEF AccountInv
    <2> QED
        BY <2>4, <2>6, <2>7, <2>8, <2>9, <2>10, <2>11, AccountChanges DEF SuspensionActive
<1>6. ASSUME NEW r \in Requests, OpenSession(r) PROVE AccountInv'
    <2>1. PICK t \in Sessions :
              /\ session' = [session EXCEPT ![t] = "live"]
              /\ slipped' = IF request[r].late THEN slipped \cup {t} ELSE slipped
        BY <1>6 DEF OpenSession
    <2>2. /\ request' = [request EXCEPT ![r] = Idle] /\ request[r].at = "open"
          /\ UNCHANGED <<role, user, events, lost>>
        BY <1>6 DEF OpenSession, Ends
    <2>3. SuspensionActive(user) => request[r].late
        BY <2>2 DEF AccountInv, RequestSound, AccountUsable
    <2>4. SuspensionActive(user) =>
              \A x \in Sessions : session'[x] = "live" => x \in slipped'
        BY <1>0, <2>1, <2>3 DEF AccountInv
    <2>5. slipped' \subseteq Sessions /\ session' \in [Sessions -> {"none", "live", "revoked"}]
        BY <1>0, <2>1
    <2> QED
        BY <2>2, <2>4, <2>5, IdleTyped, RequestGoesOn
<1>7. ASSUME NEW r \in Requests, ReadForSetPin(r) PROVE AccountInv'
    <2>1. PICK q \in Request : request' = [request EXCEPT ![r] = q] /\ q.at = "pin"
        BY <1>7, IdleTyped DEF ReadForSetPin, Goes, Steps
    <2>2. AccountUsable /\ request[r].at # "lock" /\ UNCHANGED <<role, user, events, session, lost, slipped>>
        BY <1>7 DEF ReadForSetPin, Free
    <2> QED
        BY <1>0, <2>1, <2>2, RequestGoesOn DEF AccountInv
<1>8. ASSUME NEW r \in Requests, CommitPin(r) PROVE AccountInv'
    <2>1. PICK p \in Request : p = request[r] /\ p.at = "pin"
        BY <1>0, <1>8 DEF CommitPin
    <2>2. PICK q : q = [p EXCEPT !.at = "open"]
        OBVIOUS
    <2>3. q \in Request /\ q.at = "open" /\ q.late = p.late
        BY <2>1, <2>2 DEF Request, Steps
    <2>4. /\ user' = [user EXCEPT !.pin = TRUE, !.failures = 0, !.lock = "never"]
          /\ lost' = 0 /\ UNCHANGED <<role, events>> /\ RevokeAll
          /\ request' = [request EXCEPT ![r] = q]
        BY <1>0, <1>8, <2>1, <2>2 DEF CommitPin
    <2>5. /\ user' \in User /\ user'.failures = 0
          /\ user'.suspended = user.suspended /\ user'.until = user.until
        BY <1>0, <2>4 DEF User, Deadline
    <2>6. /\ request' \in [Requests -> Request]
          /\ request'[r] = q /\ \A s \in Requests \ {r} : request'[s] = request[s]
        BY <1>0, <2>3, <2>4
    <2>7. /\ session' \in [Sessions -> {"none", "live", "revoked"}] /\ slipped' = {}
          /\ \A t \in Sessions : session'[t] # "live"
        BY <1>0, <2>4 DEF RevokeAll
    <2>8. AccountTypeOK'
        BY <1>0, <2>4, <2>5, <2>6, <2>7 DEF AccountTypeOK
    <2>9. user'.failures + 1 <= MaxFailures + lost' + Cardinality(Locking')
        BY <1>u, <2>4, <2>5, LockingPrimeIsFinite
    <2>10. \A s \in Requests : RequestSound(s)'
        BY <2>1, <2>3, <2>5, <2>6 DEF AccountInv, RequestSound, AccountUsable, SuspensionActive
    <2>11. user'.suspended <=> events'["ACTIVE"] > 0
        BY <2>4, <2>5 DEF AccountInv
    <2> QED
        BY <2>7, <2>8, <2>9, <2>10, <2>11 DEF AccountInv
<1>9. ASSUME NEW r \in Requests, RefreshTokens(r) \/ Logout(r) PROVE AccountInv'
    <2>1. /\ UNCHANGED <<role, user, events, request, lost>>
          /\ session' \in [Sessions -> {"none", "live", "revoked"}]
          /\ slipped' \subseteq Sessions
          /\ \A t \in Sessions : session'[t] = "live" => session[t] = "live" /\ slipped' = slipped
        BY <1>0, <1>9 DEF RefreshTokens, Logout, RevokeAll
    <2>2. AccountTypeOK'
        BY <1>0, <2>1 DEF AccountTypeOK
    <2>3. Locking' = Locking
        BY <2>1 DEF Locking
    <2>4. \A s \in Requests : RequestSound(s)'
        BY <2>1 DEF AccountInv, RequestSound, AccountUsable, SuspensionActive
    <2>5. user'.failures + 1 <= MaxFailures + lost' + Cardinality(Locking')
        BY <2>1, <2>3 DEF AccountInv
    <2> QED
        BY <2>1, <2>2, <2>4, <2>5 DEF AccountInv, SuspensionActive
<1>10. ASSUME NEW r \in Requests, ReadForModeration(r) PROVE AccountInv'
    <2>1. PICK q \in Request :
              request' = [request EXCEPT ![r] = q] /\ q.at \in {"lift", "suspend"}
        BY <1>10, IdleTyped DEF ReadForModeration, Goes, Steps
    <2>2. request[r].at # "lock" /\ UNCHANGED <<role, user, events, session, lost, slipped>>
        BY <1>10 DEF ReadForModeration, Free
    <2> QED
        BY <1>0, <2>1, <2>2, RequestGoesOn DEF AccountInv
<1>11. ASSUME NEW r \in Requests, Suspend(r) PROVE AccountInv'
    <2>1. PICK until \in {"never", "later"} :
              user' = [user EXCEPT !.suspended = TRUE, !.until = until]
        BY <1>11 DEF Suspend
    <2>2. /\ request[r].at = "suspend"
          /\ events' = [events EXCEPT !["ACTIVE"] = @ + 1] /\ RevokeAll
          /\ request' = [q \in Requests |->
                 IF q = r THEN Idle ELSE [request[q] EXCEPT !.late = request[q].at # "idle"]]
          /\ UNCHANGED <<role, lost>>
        BY <1>11 DEF Suspend
    <2>3. user' \in User /\ user'.suspended /\ user'.failures = user.failures
        BY <1>0, <2>1 DEF User, Deadline
    <2>4. events' \in [Statuses -> Nat] /\ events'["ACTIVE"] = events["ACTIVE"] + 1
        BY <1>0, <2>2 DEF Statuses
    <2>5. /\ session' \in [Sessions -> {"none", "live", "revoked"}] /\ slipped' = {}
          /\ \A t \in Sessions : session'[t] # "live"
        BY <1>0, <2>2 DEF RevokeAll
    <2>6. ASSUME NEW s \in Requests
          PROVE  /\ request'[s] \in Request
                 /\ request'[s].at = IF s = r THEN "idle" ELSE request[s].at
                 /\ request'[s].at # "idle" => request'[s].late
        BY <1>0, <2>2, IdleTyped DEF Request
    <2>7. Locking' = Locking
        BY <2>2, <2>6 DEF Locking
    <2>8. AccountTypeOK'
        BY <1>0, <2>2, <2>3, <2>4, <2>5, <2>6 DEF AccountTypeOK
    <2>9. \A s \in Requests : RequestSound(s)'
        BY <2>6 DEF RequestSound
    <2>10. user'.failures + 1 <= MaxFailures + lost' + Cardinality(Locking')
        BY <2>2, <2>3, <2>7 DEF AccountInv
    <2>11. user'.suspended <=> events'["ACTIVE"] > 0
        BY <1>u, <2>3, <2>4
    <2> QED
        BY <2>5, <2>8, <2>9, <2>10, <2>11 DEF AccountInv
<1>12. ASSUME NEW r \in Requests, Lift(r) \/ ExpireSuspension(r) PROVE AccountInv'
    <2>1. /\ request' = [request EXCEPT ![r] = Idle] /\ request[r].at # "lock"
          /\ UNCHANGED <<role, session, lost, slipped>>
        BY <1>12 DEF Lift, ExpireSuspension, Ends
    <2>2. PICK status \in {"LIFTED", "EXPIRED"} : events' = Settled(status)
        BY <1>12 DEF Lift, ExpireSuspension
    <2>3. user' \in User /\ ~user'.suspended /\ user'.failures = user.failures
        BY <1>0, <1>12 DEF Lift, ExpireSuspension, User, Deadline
    <2>4. events' \in [Statuses -> Nat] /\ events'["ACTIVE"] = 0
        BY <1>0, <2>2 DEF Settled, Statuses
    <2>5. /\ request' \in [Requests -> Request]
          /\ request'[r] = Idle /\ \A s \in Requests \ {r} : request'[s] = request[s]
          /\ Cardinality(Locking') = Cardinality(Locking)
        BY <1>0, <1>u, <2>1, OneCallMoves, IdleTyped
    <2>6. AccountTypeOK'
        BY <1>0, <2>1, <2>3, <2>4, <2>5 DEF AccountTypeOK
    <2>7. user'.failures + 1 <= MaxFailures + lost' + Cardinality(Locking')
        BY <2>1, <2>3, <2>5 DEF AccountInv
    <2>8. RequestSound(r)'
        BY <2>5, IdleTyped DEF RequestSound
    <2> QED
        BY <2>1, <2>3, <2>4, <2>5, <2>6, <2>7, <2>8, AccountChanges DEF SuspensionActive
<1>13. ASSUME NEW r \in Requests, ReadForAccess(r) PROVE AccountInv'
    <2>1. PICK q \in Request : request' = [request EXCEPT ![r] = q] /\ q.at = "expire"
        BY <1>13, IdleTyped DEF ReadForAccess, Goes, Steps
    <2>2. request[r].at # "lock" /\ UNCHANGED <<role, user, events, session, lost, slipped>>
        BY <1>13 DEF ReadForAccess, Free
    <2> QED
        BY <1>0, <2>1, <2>2, RequestGoesOn DEF AccountInv
<1>14. ASSUME NEW r \in Requests, Die(r) PROVE AccountInv'
    <2>1. /\ request' = [request EXCEPT ![r] = Idle]
          /\ lost' = IF request[r].at = "lock" THEN lost + 1 ELSE lost
          /\ UNCHANGED <<role, user, events, session, slipped>>
        BY <1>14 DEF Die, Ends
    <2>2. /\ request' \in [Requests -> Request]
          /\ request'[r] = Idle /\ \A s \in Requests \ {r} : request'[s] = request[s]
          /\ request[r].at = "lock" => Cardinality(Locking') = Cardinality(Locking) - 1
          /\ request[r].at # "lock" => Locking' = Locking
        BY <1>0, <2>1, OneCallMoves, IdleTyped
    <2>3. AccountTypeOK'
        BY <1>0, <2>1, <2>2 DEF AccountTypeOK
    <2>4. user'.failures + 1 <= MaxFailures + lost' + Cardinality(Locking')
        BY <1>0, <1>u, <2>1, <2>2 DEF AccountInv
    <2>5. RequestSound(r)'
        BY <2>2, IdleTyped DEF RequestSound
    <2> QED
        BY <2>1, <2>2, <2>3, <2>4, <2>5, AccountChanges DEF AccountInv
<1>15. CASE LockEnds \/ SuspensionEnds
    <2>1. /\ user' \in User /\ user'.failures = user.failures
          /\ user'.suspended = user.suspended
          /\ user'.until = user.until \/ user'.until = "past"
        BY <1>0, <1>15 DEF LockEnds, SuspensionEnds, User, Deadline
    <2>2. UNCHANGED <<role, events, session, request, lost, slipped>>
        BY <1>15 DEF LockEnds, SuspensionEnds
    <2>3. AccountTypeOK'
        BY <1>0, <2>1, <2>2 DEF AccountTypeOK
    <2>4. Locking' = Locking
        BY <2>2 DEF Locking
    <2> QED
        BY <2>1, <2>2, <2>3, <2>4, AccountChanges DEF AccountInv, SuspensionActive
<1> QED
    BY <1>1, <1>2, <1>3, <1>4, <1>5, <1>6, <1>7, <1>8, <1>9, <1>10, <1>11, <1>12, <1>13,
       <1>14, <1>15
    DEF AccountNext, StudentLoginPin, VendorLoginPin, StudentSetPin, VendorSetPin,
        StudentCommitPin, VendorCommitPin, ChangePassword

\* An account is suspended as long as its history has a suspension under way,
\* however many administrators suspend and lift it, and requests end it, together
\* (suspensions.service.ts:30, 63; jwt.strategy.ts:66).
THEOREM HistoryAgrees == AccountSpec => []SuspensionMatchesHistory
<1>1. AccountInv => SuspensionMatchesHistory
    BY DEF AccountInv, SuspensionMatchesHistory
<1> QED
    BY AccountInvInit, AccountInvNext, <1>1, PTL DEF AccountSpec

\* Wrong PINs do not pile up without a lock that is about to be written, or that a
\* dead process was to write (student-auth.service.ts:185).
THEOREM LocksCome == AccountSpec => []LockIsComing
<1>1. AccountInv => LockIsComing
    BY DEF AccountInv, LockIsComing, Locking
<1> QED
    BY AccountInvInit, AccountInvNext, <1>1, PTL DEF AccountSpec

\* A suspension leaves no session, but for those whose opening had read the account
\* before it (suspensions.service.ts:50, auth.service.ts:446).
THEOREM SuspensionSignsOut == AccountSpec => []SuspendedIsSignedOut
<1>1. AccountInv => SuspendedIsSignedOut
    BY DEF AccountInv, SuspendedIsSignedOut
<1> QED
    BY AccountInvInit, AccountInvNext, <1>1, PTL DEF AccountSpec

-----------------------------------------------------------------------------
(* Canteens: their campuses, and the numbers of accounts.                  *)

\* What an update will write; one whose deletion missed links knows that it is late.
MoveSound(d) ==
    desk[d].at \in {"update", "replace"} =>
        /\ desk[d].user \in Users /\ canteen[desk[d].user] \in Canteen
        /\ desk[d].campuses # {}
        /\ desk[d].at = "replace" => desk[d].fresh \/ desk[d].late

CampusesSound(u) ==
    canteen[u] # NoOne =>
        /\ canteen[u].campuses # {}
        /\ lastMove[u].campuses \subseteq canteen[u].campuses
        /\ \/ lastMove[u].campuses = {} \/ lastMove[u].late
           \/ canteen[u].campuses = lastMove[u].campuses

\* A sign-in knows whose number it holds, a registration that its number was nobody's.
NameSound(d) ==
    /\ desk[d].at = "canonicalize" =>
           desk[d].user \in met /\ account[desk[d].user].number = desk[d].number
    /\ desk[d].at = "register" =>
           /\ desk[d].number \in PhoneNumbers /\ desk[d].form \in Forms
           /\ \A n \in PhoneNumbers :
                  desk[d].number = n => desk[d].late \/ n \in veiled \/ Unknown(n)

NumberSound(u) ==
    \A n \in PhoneNumbers : account[u].number = n => n \in veiled \/ Finds(n) = u

CanteensInv ==
    /\ CanteensTypeOK
    /\ lastMove \in [Users -> [campuses : SUBSET Campuses, late : BOOLEAN]]
    /\ \A u \in Users : CampusesSound(u)
    /\ \A u \in met : NumberSound(u)
    /\ \A d \in Desks : MoveSound(d) /\ NameSound(d)

LEMMA RowIsAccount ==
    ASSUME CanteensTypeOK, NEW u \in Rows
    PROVE  u \in Users /\ account[u] \in Account /\ account[u].number \in PhoneNumbers
BY DEF CanteensTypeOK, Rows, Account

LEMMA CandidatesAreRows ==
    ASSUME NEW n
    PROVE  Candidates(n) \subseteq Rows /\ IsFiniteSet(Candidates(n))
<1>1. Candidates(n) \subseteq Rows /\ Candidates(n) \in SUBSET Users
    BY DEF Candidates, Holders, Rows
<1> QED
    BY <1>1, FS_Subset, UsersAssumption

\* The one that is found is the only candidate.
LEMMA FindsTheOnlyOne ==
    ASSUME NEW n
    PROVE  /\ Finds(n) # NoOne =>
                  /\ Candidates(n) = {Finds(n)} /\ Finds(n) \in Rows
                  /\ account[Finds(n)].number = n
           /\ \A u : Candidates(n) = {u} => Finds(n) = u
<1>1. ASSUME Finds(n) # NoOne
      PROVE  /\ Candidates(n) = {Finds(n)} /\ Finds(n) \in Rows
             /\ account[Finds(n)].number = n
    <2>1. Cardinality(Candidates(n)) = 1 /\ Finds(n) = CHOOSE u \in Candidates(n) : TRUE
        BY <1>1 DEF Finds
    <2>2. PICK x : Candidates(n) = {x}
        BY <2>1, CandidatesAreRows, FS_Singleton
    <2>3. Finds(n) = x
        BY <2>1, <2>2
    <2>4. account[x].number = n
        BY <2>2 DEF Candidates, Holders
    <2> QED
        BY <2>2, <2>3, <2>4, CandidatesAreRows
<1>2. ASSUME NEW u, Candidates(n) = {u} PROVE Finds(n) = u
    <2>1. Cardinality(Candidates(n)) = 1
        BY <1>2, FS_Singleton
    <2>2. Finds(n) = CHOOSE x \in Candidates(n) : TRUE
        BY <2>1 DEF Finds
    <2> QED
        BY <1>2, <2>2
<1> QED
    BY <1>1, <1>2

LEMMA CanteensInvInit == CanteensInit => CanteensInv
<1> SUFFICES ASSUME CanteensInit
             PROVE  CanteensInv
    OBVIOUS
<1>1. account \in [Users -> Account \cup {NoOne}] /\ met = {} /\ veiled = {}
    BY DEF CanteensInit
<1>2. canteen \in [Users -> Canteen \cup {NoOne}]
    BY DEF CanteensInit, Canteen
<1>3. desk \in [Desks -> Desk] /\ \A d \in Desks : desk[d].at = "free"
    BY DEF CanteensInit, Desk, AtRest
<1>4. lastMove \in [Users -> [campuses : SUBSET Campuses, late : BOOLEAN]]
    BY DEF CanteensInit
<1>5. \A u \in Users : CampusesSound(u)
    BY CampusesAssumption DEF CanteensInit, CampusesSound
<1> QED
    BY <1>1, <1>2, <1>3, <1>4, <1>5
    DEF CanteensInv, CanteensTypeOK, MoveSound, NameSound, Rows

\* The rows of a number stay as they are: so does what finds them.
LEMMA SameCandidates ==
    ASSUME NEW n,
           \A u \in Users : \/ account'[u] = account[u]
                            \/ account'[u].number # n /\ (u \in Rows => account[u].number # n)
    PROVE  Candidates(n)' = Candidates(n) /\ Finds(n)' = Finds(n)
<1>1. ASSUME NEW forms PROVE Holders(n, forms)' = Holders(n, forms)
    <2>1. \A u \in Users : u \in Holders(n, forms)' <=> u \in Holders(n, forms)
        BY DEF Holders, Rows
    <2>2. Holders(n, forms)' \subseteq Users /\ Holders(n, forms) \subseteq Users
        BY DEF Holders, Rows
    <2> QED
        BY <2>1, <2>2
<1>2. Candidates(n)' = Candidates(n)
    BY <1>1 DEF Candidates
<1> QED
    BY <1>2 DEF Finds

\* Canteens stay, with campuses that are those of their last update.
CampusesGoOn ==
    /\ canteen' \in [Users -> Canteen \cup {NoOne}]
    /\ lastMove' \in [Users -> [campuses : SUBSET Campuses, late : BOOLEAN]]
    /\ \A u \in Users : CampusesSound(u)'
    /\ \A u \in Users : canteen[u] \in Canteen => canteen'[u] \in Canteen

LEMMA SameCampuses ==
    ASSUME CanteensInv, UNCHANGED <<canteen, lastMove>>
    PROVE  CampusesGoOn
BY DEF CanteensInv, CanteensTypeOK, CampusesGoOn, CampusesSound

\* Accounts stay; what is found is found again.
LEMMA DeskGoesOn ==
    ASSUME CanteensInv, UNCHANGED <<account, veiled>>, CampusesGoOn,
           desk' \in [Desks -> Desk],
           met' = met \/ \E n \in PhoneNumbers : Finds(n) # NoOne /\ met' = met \cup {Finds(n)},
           \A d \in Desks : desk'[d] = desk[d] \/ (MoveSound(d)' /\ NameSound(d)')
    PROVE  CanteensInv'
<1>1. \A n : Finds(n)' = Finds(n)
    BY SameCandidates
<1>2. Rows' = Rows
    BY DEF Rows
<1>3. ASSUME NEW u \in met' PROVE u \in Rows /\ NumberSound(u)
    <2>1. CASE u \in met
        BY <2>1 DEF CanteensInv, CanteensTypeOK
    <2>2. CASE u \notin met
        BY <2>2, FindsTheOnlyOne DEF NumberSound
    <2> QED
        BY <2>1, <2>2
<1>4. ASSUME NEW u \in met' PROVE NumberSound(u)'
    BY <1>1, <1>3 DEF NumberSound
<1>5. CanteensTypeOK'
    BY <1>2, <1>3 DEF CanteensInv, CanteensTypeOK, CampusesGoOn
<1>6. ASSUME NEW d \in Desks, desk'[d] = desk[d] PROVE MoveSound(d)' /\ NameSound(d)'
    <2>1. MoveSound(d)'
        BY <1>6 DEF CanteensInv, MoveSound, CampusesGoOn
    <2>2. \A n : Unknown(n) => Unknown(n)'
        BY <1>1 DEF Unknown
    <2>3. met \subseteq met'
        OBVIOUS
    <2> QED
        BY <1>6, <2>1, <2>2, <2>3 DEF CanteensInv, NameSound
<1> QED
    BY <1>4, <1>5, <1>6 DEF CanteensInv, CampusesGoOn

LEMMA AtRestTyped == AtRest \in Desk /\ AtRest.at = "free"
BY DEF AtRest, Desk

LEMMA ShutIsSound ==
    ASSUME CanteensInv, NEW d \in Desks, Shut(d)
    PROVE  /\ desk' \in [Desks -> Desk]
           /\ desk'[d].at = "free" /\ \A e \in Desks \ {d} : desk'[e] = desk[e]
           /\ \A e \in Desks : desk'[e] = desk[e] \/ (MoveSound(e)' /\ NameSound(e)')
<1>1. /\ desk' \in [Desks -> Desk]
      /\ desk'[d] = AtRest /\ \A e \in Desks \ {d} : desk'[e] = desk[e]
    BY AtRestTyped DEF CanteensInv, CanteensTypeOK, Shut
<1>2. MoveSound(d)' /\ NameSound(d)'
    BY <1>1, AtRestTyped DEF MoveSound, NameSound
<1> QED
    BY <1>1, <1>2, AtRestTyped

\* A registration that has to know of an account with this number does.
Aware(d, n) ==
    desk[d].at = "register" => desk[d].number # n \/ desk[d].late \/ n \in veiled'

\* An account appears, or takes its canonical form, whose number nobody else is known
\* by or which is veiled.
LEMMA AccountsChange ==
    ASSUME CanteensInv, CampusesGoOn, UNCHANGED met,
           desk' \in [Desks -> Desk],
           NEW u \in Users, NEW n \in PhoneNumbers, NEW a \in Account, a.number = n,
           account' = [account EXCEPT ![u] = a],
           veiled' \subseteq PhoneNumbers, veiled \subseteq veiled',
           u \in Rows => account[u].number = n,
           \A w \in met : account[w].number = n =>
               n \in veiled' \/ (w = u /\ Finds(n)' = u),
           \A d \in Desks :
               \/ desk'[d].at = "free"
               \/ desk'[d] = desk[d] /\ Aware(d, n)
               \/ desk'[d] = [desk[d] EXCEPT !.late = TRUE] /\ desk[d].at = "register"
    PROVE  CanteensInv'
<1>0. CanteensTypeOK /\ account \in [Users -> Account \cup {NoOne}] /\ met \subseteq Rows
      /\ desk \in [Desks -> Desk]
    BY DEF CanteensInv, CanteensTypeOK
<1>1. /\ account' \in [Users -> Account \cup {NoOne}] /\ account'[u] = a
      /\ \A w \in Users \ {u} : account'[w] = account[w]
    BY <1>0
<1>2. Rows' = Rows \cup {u}
    BY <1>1, NoAccountAssumption DEF Rows
<1>3. CanteensTypeOK'
    BY <1>0, <1>1, <1>2 DEF CanteensTypeOK, CampusesGoOn
<1>4. ASSUME NEW m, m # n PROVE Finds(m)' = Finds(m)
    BY <1>1, <1>4, SameCandidates
<1>5. ASSUME NEW w \in met PROVE account'[w].number = account[w].number
    BY <1>0, <1>1, <1>5
<1>6. ASSUME NEW w \in met PROVE NumberSound(w)'
    <2> SUFFICES ASSUME NEW m \in PhoneNumbers, account'[w].number = m
                 PROVE  m \in veiled' \/ Finds(m)' = w
        BY DEF NumberSound
    <2>1. account[w].number = m
        BY <1>5
    <2>2. m \in veiled \/ Finds(m) = w
        BY <2>1 DEF CanteensInv, NumberSound
    <2> QED
        BY <1>4, <2>1, <2>2
<1>7. ASSUME NEW d \in Desks PROVE MoveSound(d)' /\ NameSound(d)'
    <2>0. MoveSound(d) /\ NameSound(d) /\ desk[d] \in Desk
        BY <1>0 DEF CanteensInv
    <2>1. CASE desk'[d].at = "free"
        BY <2>1 DEF MoveSound, NameSound
    <2>2. CASE desk'[d] = [desk[d] EXCEPT !.late = TRUE] /\ desk[d].at = "register"
        <3>1. /\ desk'[d].at = "register" /\ desk'[d].late
              /\ desk'[d].number = desk[d].number /\ desk'[d].form = desk[d].form
            BY <2>0, <2>2 DEF Desk
        <3> QED
            BY <2>0, <2>2, <3>1 DEF MoveSound, NameSound
    <2>3. CASE desk'[d] = desk[d] /\ Aware(d, n)
        <3>1. MoveSound(d)'
            BY <2>0, <2>3 DEF MoveSound, CampusesGoOn
        <3>2. desk[d].at = "canonicalize" => account'[desk[d].user].number = desk[d].number
            BY <1>5, <2>0 DEF NameSound
        <3>3. ASSUME desk[d].at = "register", NEW m \in PhoneNumbers, desk[d].number = m
              PROVE  desk[d].late \/ m \in veiled' \/ Finds(m)' = NoOne
            <4>1. desk[d].late \/ m \in veiled \/ Finds(m) = NoOne
                BY <2>0, <3>3 DEF NameSound, Unknown
            <4>2. m # n => Finds(m)' = Finds(m)
                BY <1>4
            <4> QED
                BY <2>3, <3>3, <4>1, <4>2 DEF Aware
        <3> QED
            BY <2>0, <2>3, <3>1, <3>2, <3>3 DEF NameSound, Unknown
    <2> QED
        BY <2>1, <2>2, <2>3
<1> QED
    BY <1>3, <1>6, <1>7 DEF CanteensInv, CampusesGoOn

LEMMA CanteensInvNext == CanteensInv /\ [CanteensNext]_canteenVars => CanteensInv'
<1> SUFFICES ASSUME CanteensInv, [CanteensNext]_canteenVars
             PROVE  CanteensInv'
    OBVIOUS
<1>0. /\ CanteensTypeOK /\ account \in [Users -> Account \cup {NoOne}]
      /\ canteen \in [Users -> Canteen \cup {NoOne}]
      /\ desk \in [Desks -> Desk] /\ met \subseteq Rows /\ veiled \subseteq PhoneNumbers
      /\ lastMove \in [Users -> [campuses : SUBSET Campuses, late : BOOLEAN]]
    BY DEF CanteensInv, CanteensTypeOK
<1>a. ASSUME NEW d \in Desks, NEW q \in Desk, desk' = [desk EXCEPT ![d] = q]
      PROVE  /\ desk' \in [Desks -> Desk] /\ desk'[d] = q
             /\ \A e \in Desks \ {d} : desk'[e] = desk[e]
    BY <1>0, <1>a
<1>1. CASE UNCHANGED canteenVars
    BY <1>0, <1>1, DeskGoesOn, SameCampuses DEF canteenVars
<1>2. CASE VerifyKnown
    BY <1>0, <1>2, DeskGoesOn, SameCampuses DEF VerifyKnown
<1>3. ASSUME NEW d \in Desks, ReadForRegistration(d) PROVE CanteensInv'
    <2>1. PICK n \in PhoneNumbers, f \in Forms :
              /\ Unknown(n)
              /\ desk' = [desk EXCEPT ![d] =
                     [AtRest EXCEPT !.at = "register", !.number = n, !.form = f]]
        BY <1>3 DEF ReadForRegistration
    <2>2. PICK q : q = [AtRest EXCEPT !.at = "register", !.number = n, !.form = f]
        OBVIOUS
    <2>3. q \in Desk /\ q.at = "register" /\ q.number = n /\ q.form = f
        BY <2>2 DEF AtRest, Desk
    <2>4. UNCHANGED <<account, canteen, met, veiled, lastMove>>
        BY <1>3 DEF ReadForRegistration
    <2>5. desk' \in [Desks -> Desk] /\ desk'[d] = q
          /\ \A e \in Desks \ {d} : desk'[e] = desk[e]
        BY <1>a, <2>1, <2>2, <2>3
    <2>6. Finds(n)' = Finds(n)
        BY <2>4, SameCandidates
    <2>7. MoveSound(d)' /\ NameSound(d)'
        BY <2>1, <2>3, <2>5, <2>6 DEF MoveSound, NameSound, Unknown
    <2> QED
        BY <2>4, <2>5, <2>7, DeskGoesOn, SameCampuses
<1>4. ASSUME NEW d \in Desks, CommitRegistration(d) PROVE CanteensInv'
    <2>1. PICK q \in Desk : q = desk[d] /\ q.at = "register"
        BY <1>0, <1>4 DEF CommitRegistration
    <2>2. NameSound(d)
        BY DEF CanteensInv
    <2>3. PICK n \in PhoneNumbers, f \in Forms : n = q.number /\ f = q.form
        BY <2>1, <2>2 DEF NameSound
    <2>4. UNCHANGED <<canteen, met, lastMove>>
        BY <1>4 DEF CommitRegistration
    <2>5. CASE Holders(n, {f}) # {}
        <3>1. UNCHANGED <<account, veiled>> /\ Shut(d)
            BY <1>4, <2>1, <2>3, <2>5 DEF CommitRegistration
        <3> QED
            BY <2>4, <3>1, ShutIsSound, DeskGoesOn, SameCampuses
    <2>6. CASE Holders(n, {f}) = {}
        <3>1. PICK u \in Users \ Rows : Insert(u, n, f, "STUDENT")
            BY <1>4, <2>1, <2>3, <2>6 DEF CommitRegistration
        <3>2. PICK a : a = [number |-> n, form |-> f, role |-> "STUDENT"]
            OBVIOUS
        <3>3. a \in Account /\ a.number = n /\ account' = [account EXCEPT ![u] = a]
            BY <3>1, <3>2 DEF Account, Insert
        <3>4. /\ veiled' = IF q.late THEN veiled \cup {n} ELSE veiled
              /\ desk' = [e \in Desks |->
                     IF e = d THEN AtRest
                     ELSE IF desk[e].at = "register" /\ desk[e].number = n
                          THEN [desk[e] EXCEPT !.late = TRUE] ELSE desk[e]]
            BY <1>4, <2>1, <2>3, <2>6 DEF CommitRegistration
        <3>5. ASSUME NEW e \in Desks
              PROVE  /\ desk'[e] \in Desk
                     /\ \/ desk'[e].at = "free"
                        \/ desk'[e] = desk[e] /\ Aware(e, n)
                        \/ desk'[e] = [desk[e] EXCEPT !.late = TRUE] /\ desk[e].at = "register"
            <4>1. [desk[e] EXCEPT !.late = TRUE] \in Desk /\ desk[e] \in Desk
                BY <1>0 DEF Desk
            <4> QED
                BY <3>4, <4>1, AtRestTyped DEF Aware
        <3>6. desk' \in [Desks -> Desk]
            BY <3>4, <3>5
        <3>7. ASSUME NEW w \in met, account[w].number = n PROVE n \in veiled'
            <4>1. q.late \/ n \in veiled \/ Finds(n) = NoOne
                BY <2>1, <2>2, <2>3 DEF NameSound, Unknown
            <4>2. n \in veiled \/ Finds(n) = w
                BY <3>7 DEF CanteensInv, NumberSound
            <4>3. w # NoOne
                BY <1>0, NoOneAssumption DEF Rows
            <4> QED
                BY <3>4, <4>1, <4>2, <4>3
        <3>8. veiled' \subseteq PhoneNumbers /\ veiled \subseteq veiled'
            BY <1>0, <3>4
        <3> QED
            <4>1. u \in Users /\ u \notin Rows /\ CampusesGoOn
                BY <2>4, <3>1, SameCampuses
            <4>2. \A w \in met : account[w].number = n => n \in veiled' \/ (w = u /\ Finds(n)' = u)
                BY <3>7
            <4>3. \A e \in Desks :
                      \/ desk'[e].at = "free"
                      \/ desk'[e] = desk[e] /\ Aware(e, n)
                      \/ desk'[e] = [desk[e] EXCEPT !.late = TRUE] /\ desk[e].at = "register"
                BY <3>5
            <4>4. u \in Rows => account[u].number = n
                BY <4>1
            <4> QED
                BY <2>4, <3>3, <3>6, <3>8, <4>1, <4>2, <4>3, <4>4, AccountsChange, ZenonT(30)
    <2> QED
        BY <2>5, <2>6
<1>5. ASSUME NEW d \in Desks, ReadForSignIn(d) PROVE CanteensInv'
    <2>1. PICK n \in PhoneNumbers :
              /\ Finds(n) # NoOne /\ met' = met \cup {Finds(n)}
              /\ desk' = [desk EXCEPT ![d] =
                     [AtRest EXCEPT !.at = "canonicalize", !.user = Finds(n), !.number = n]]
        BY <1>5 DEF ReadForSignIn
    <2>2. PICK u : u = Finds(n)
        OBVIOUS
    <2>3. u \in Users /\ account[u].number = n
        BY <2>1, <2>2, FindsTheOnlyOne DEF Rows
    <2>4. PICK q : q = [AtRest EXCEPT !.at = "canonicalize", !.user = u, !.number = n]
        OBVIOUS
    <2>5. q \in Desk /\ q.at = "canonicalize" /\ q.user = u /\ q.number = n
        BY <2>3, <2>4 DEF AtRest, Desk
    <2>6. UNCHANGED <<account, canteen, veiled, lastMove>>
        BY <1>5 DEF ReadForSignIn
    <2>7. desk' \in [Desks -> Desk] /\ desk'[d] = q
          /\ \A e \in Desks \ {d} : desk'[e] = desk[e]
        BY <1>a, <2>1, <2>2, <2>4, <2>5
    <2>8. MoveSound(d)' /\ NameSound(d)'
        BY <2>1, <2>2, <2>3, <2>5, <2>6, <2>7 DEF MoveSound, NameSound
    <2> QED
        BY <2>1, <2>6, <2>7, <2>8, DeskGoesOn, SameCampuses
<1>6. ASSUME NEW d \in Desks, Canonicalize(d) PROVE CanteensInv'
    <2>1. Shut(d) /\ UNCHANGED <<canteen, met, veiled, lastMove>>
        BY <1>6 DEF Canonicalize
    <2>2. PICK u \in met, n \in PhoneNumbers :
              u = desk[d].user /\ n = desk[d].number /\ account[u].number = n /\ u \in Rows
        BY <1>0, <1>6, RowIsAccount DEF Canonicalize, CanteensInv, NameSound
    <2>3. CASE Holders(n, {"e164"}) # {}
        BY <1>6, <2>1, <2>2, <2>3, ShutIsSound, DeskGoesOn, SameCampuses DEF Canonicalize
    <2>4. CASE Holders(n, {"e164"}) = {}
        <3>1. account[u] \in Account /\ u \in Users
            BY <1>0, <2>2, RowIsAccount
        <3>2. PICK a : a = [account[u] EXCEPT !.form = "e164"]
            OBVIOUS
        <3>3. a \in Account /\ a.number = n /\ a.form = "e164"
            BY <2>2, <3>1, <3>2 DEF Account, Forms
        <3>4. account' = [account EXCEPT ![u] = a]
            BY <1>6, <2>2, <2>4, <3>2 DEF Canonicalize
        <3>5. Finds(n)' = u
            <4>1. account'[u] = a /\ \A w \in Users \ {u} : account'[w] = account[w]
                BY <1>0, <3>1, <3>3, <3>4
            <4>2. Holders(n, {"e164"})' = {u}
                BY <2>4, <3>1, <3>3, <4>1, NoAccountAssumption DEF Holders, Rows
            <4>3. Candidates(n)' = {u}
                BY <4>2 DEF Candidates
            <4> QED
                BY <4>3, FS_Singleton DEF Finds
        <3>6. n \in veiled \/ Finds(n) = u
            BY <2>2 DEF CanteensInv, NumberSound
        <3>7. ASSUME NEW w \in met, account[w].number = n
              PROVE  n \in veiled' \/ (w = u /\ Finds(n)' = u)
            BY <2>1, <3>5, <3>6, <3>7 DEF CanteensInv, NumberSound
        <3>8. ASSUME NEW e \in Desks PROVE Aware(e, n)
            <4>1. desk[e].at = "register" /\ desk[e].number = n =>
                      desk[e].late \/ n \in veiled \/ Finds(n) = NoOne
                BY DEF CanteensInv, NameSound, Unknown
            <4>2. u # NoOne
                BY <3>1, NoOneAssumption
            <4> QED
                BY <2>1, <3>6, <4>1, <4>2 DEF Aware
        <3>9. /\ desk' \in [Desks -> Desk]
              /\ \A e \in Desks : desk'[e].at = "free" \/ (desk'[e] = desk[e] /\ Aware(e, n))
            BY <2>1, <3>8, ShutIsSound
        <3>10. veiled' \subseteq PhoneNumbers /\ veiled \subseteq veiled' /\ CampusesGoOn
            BY <1>0, <2>1, SameCampuses
        <3> QED
            BY <2>1, <2>2, <3>1, <3>3, <3>4, <3>7, <3>9, <3>10, AccountsChange
    <2> QED
        BY <2>3, <2>4
<1>7. CASE CreateCanteen
    <2>1. PICK u \in Users \ Rows, n \in PhoneNumbers, C \in (SUBSET Campuses) \ {{}}, on \in BOOLEAN :
              /\ Insert(u, n, "e164", "VENDOR")
              /\ canteen' = [canteen EXCEPT ![u] = [campuses |-> C, active |-> on]]
              /\ veiled' = veiled \cup {n}
              /\ lastMove' = [lastMove EXCEPT ![u] = [campuses |-> C, late |-> FALSE]]
              /\ UNCHANGED <<desk, met>>
        BY <1>7 DEF CreateCanteen
    <2>2. PICK a : a = [number |-> n, form |-> "e164", role |-> "VENDOR"]
        OBVIOUS
    <2>3. a \in Account /\ a.number = n /\ account' = [account EXCEPT ![u] = a]
        BY <2>1, <2>2 DEF Account, Forms, Insert
    <2>4. CampusesGoOn
        <3>a. PICK k : k = [campuses |-> C, active |-> on]
            OBVIOUS
        <3>1. k \in Canteen /\ k.campuses = C
            BY <3>a DEF Canteen
        <3>b. PICK m : m = [campuses |-> C, late |-> FALSE]
            OBVIOUS
        <3>2. m \in [campuses : SUBSET Campuses, late : BOOLEAN] /\ m.campuses = C
            BY <3>b
        <3>3. /\ canteen' \in [Users -> Canteen \cup {NoOne}] /\ canteen'[u] = k
              /\ \A w \in Users \ {u} : canteen'[w] = canteen[w]
              /\ lastMove' \in [Users -> [campuses : SUBSET Campuses, late : BOOLEAN]]
              /\ lastMove'[u] = m /\ \A w \in Users \ {u} : lastMove'[w] = lastMove[w]
            BY <1>0, <2>1, <3>a, <3>1, <3>b, <3>2
        <3>4. ASSUME NEW w \in Users PROVE CampusesSound(w)'
            BY <3>1, <3>2, <3>3 DEF CanteensInv, CampusesSound
        <3> QED
            BY <3>1, <3>3, <3>4 DEF CampusesGoOn
    <2>5. \A e \in Desks : desk'[e] = desk[e] /\ Aware(e, n)
        BY <2>1 DEF Aware
    <2>6. veiled' \subseteq PhoneNumbers /\ veiled \subseteq veiled' /\ n \in veiled'
        BY <1>0, <2>1
    <2> QED
        BY <1>0, <2>1, <2>2, <2>3, <2>4, <2>5, <2>6, AccountsChange
<1>8. CASE SuspendCanteen
    <2>1. PICK u \in Users, on \in BOOLEAN :
              canteen[u] # NoOne /\ canteen' = [canteen EXCEPT ![u].active = on]
        BY <1>8 DEF SuspendCanteen
    <2>a. PICK k : k = [canteen[u] EXCEPT !.active = on]
        OBVIOUS
    <2>b. canteen[u] \in Canteen
        BY <1>0, <2>1
    <2>2. k \in Canteen /\ k.campuses = canteen[u].campuses
        BY <2>1, <2>a, <2>b DEF Canteen
    <2>3. /\ canteen' \in [Users -> Canteen \cup {NoOne}] /\ canteen'[u] = k
          /\ \A w \in Users \ {u} : canteen'[w] = canteen[w]
        BY <1>0, <2>1, <2>a, <2>2
    <2>4. UNCHANGED <<account, desk, met, veiled, lastMove>>
        BY <1>8 DEF SuspendCanteen
    <2>5. \A w \in Users : CampusesSound(w)'
        BY <2>1, <2>2, <2>3, <2>4 DEF CanteensInv, CampusesSound
    <2>6. CampusesGoOn
        BY <1>0, <2>2, <2>3, <2>4, <2>5 DEF CampusesGoOn
    <2> QED
        BY <1>0, <2>4, <2>6, DeskGoesOn
<1>9. ASSUME NEW d \in Desks, ReadForUpdateCanteen(d) PROVE CanteensInv'
    <2>1. PICK u \in Users, C \in (SUBSET Campuses) \ {{}} :
              /\ canteen[u] # NoOne
              /\ desk' = [desk EXCEPT ![d] =
                     [AtRest EXCEPT !.at = "update", !.user = u, !.campuses = C]]
        BY <1>9 DEF ReadForUpdateCanteen
    <2>2. PICK q : q = [AtRest EXCEPT !.at = "update", !.user = u, !.campuses = C]
        OBVIOUS
    <2>3. q \in Desk /\ q.at = "update" /\ q.user = u /\ q.campuses = C
        BY <2>2 DEF AtRest, Desk
    <2>4. UNCHANGED <<account, canteen, met, veiled, lastMove>>
        BY <1>9 DEF ReadForUpdateCanteen
    <2>5. desk' \in [Desks -> Desk] /\ desk'[d] = q
          /\ \A e \in Desks \ {d} : desk'[e] = desk[e]
        BY <1>a, <2>1, <2>2, <2>3
    <2>6. canteen[u] \in Canteen
        BY <1>0, <2>1
    <2>7. MoveSound(d)' /\ NameSound(d)'
        BY <2>3, <2>4, <2>5, <2>6 DEF MoveSound, NameSound
    <2> QED
        BY <2>4, <2>5, <2>7, DeskGoesOn, SameCampuses
<1>10. ASSUME NEW d \in Desks, StartMove(d) PROVE CanteensInv'
    <2>1. PICK p \in Desk : p = desk[d] /\ p.at = "update"
        BY <1>0, <1>10 DEF StartMove
    <2>2. PICK q : q = [p EXCEPT !.at = "replace", !.fresh = TRUE]
        OBVIOUS
    <2>3. /\ q \in Desk /\ q.at = "replace" /\ q.fresh = TRUE
          /\ q.user = p.user /\ q.campuses = p.campuses
        BY <2>2 DEF Desk
    <2>4. desk' = [desk EXCEPT ![d] = q]
        BY <1>0, <1>10, <2>1, <2>2 DEF StartMove
    <2>5. UNCHANGED <<account, canteen, met, veiled, lastMove>>
        BY <1>10 DEF StartMove
    <2>6. desk' \in [Desks -> Desk] /\ desk'[d] = q
          /\ \A e \in Desks \ {d} : desk'[e] = desk[e]
        BY <1>a, <2>3, <2>4
    <2>7. MoveSound(d)' /\ NameSound(d)'
        BY <2>1, <2>3, <2>5, <2>6 DEF CanteensInv, MoveSound, NameSound
    <2> QED
        BY <2>5, <2>6, <2>7, DeskGoesOn, SameCampuses
<1>11. ASSUME NEW d \in Desks, CommitMove(d) PROVE CanteensInv'
    <2>1. PICK q \in Desk : q = desk[d] /\ q.at = "replace"
        BY <1>0, <1>11 DEF CommitMove
    <2>2. MoveSound(d) /\ UNCHANGED <<account, met, veiled>>
        BY <1>11 DEF CanteensInv, CommitMove
    <2>3. PICK u \in Users, C \in SUBSET Campuses :
              /\ u = q.user /\ C = q.campuses
              /\ canteen[u] \in Canteen /\ C # {} /\ (q.fresh \/ q.late)
        BY <2>1, <2>2 DEF MoveSound, Desk
    <2>4. PICK K \in SUBSET Campuses :
              K = Kept(d) /\ (q.fresh => K = {})
        BY <2>1, <2>3 DEF Kept, Canteen
    <2>5. CASE C \cap K # {}
        <3>1. Shut(d) /\ UNCHANGED <<canteen, lastMove>>
            BY <1>11, <2>1, <2>3, <2>4, <2>5 DEF CommitMove
        <3> QED
            BY <2>2, <3>1, ShutIsSound, DeskGoesOn, SameCampuses
    <2>6. CASE C \cap K = {}
        <3>1. /\ canteen' = [canteen EXCEPT ![u].campuses = K \cup C]
              /\ lastMove' = [lastMove EXCEPT ![u] = [campuses |-> C, late |-> q.late]]
              /\ desk' = [e \in Desks |->
                     IF e = d THEN AtRest
                     ELSE IF desk[e].user = u /\ desk[e].at \in {"update", "replace"}
                          THEN [desk[e] EXCEPT !.fresh = FALSE, !.late = TRUE]
                          ELSE desk[e]]
            BY <1>11, <2>1, <2>3, <2>4, <2>6 DEF CommitMove
        <3>a. PICK k : k = [canteen[u] EXCEPT !.campuses = K \cup C]
            OBVIOUS
        <3>2. k \in Canteen /\ k.campuses = K \cup C
            BY <2>3, <2>4, <3>a DEF Canteen
        <3>b. PICK m : m = [campuses |-> C, late |-> q.late]
            OBVIOUS
        <3>c. q.late \in BOOLEAN
            BY <2>1 DEF Desk
        <3>3. /\ m \in [campuses : SUBSET Campuses, late : BOOLEAN]
              /\ m.campuses = C /\ m.late = q.late
            BY <3>b, <3>c
        <3>4. /\ canteen' \in [Users -> Canteen \cup {NoOne}] /\ canteen'[u] = k
              /\ \A w \in Users \ {u} : canteen'[w] = canteen[w]
              /\ lastMove' \in [Users -> [campuses : SUBSET Campuses, late : BOOLEAN]]
              /\ lastMove'[u] = m /\ \A w \in Users \ {u} : lastMove'[w] = lastMove[w]
            BY <1>0, <3>1, <3>a, <3>2, <3>b, <3>3
        <3>5. ASSUME NEW w \in Users PROVE CampusesSound(w)'
            <4>1. CASE w = u
                <5>1. q.late \/ k.campuses = C
                    BY <2>3, <2>4, <3>2
                <5> QED
                    BY <2>3, <3>2, <3>3, <3>4, <4>1, <5>1 DEF CampusesSound
            <4>2. CASE w # u
                BY <3>4, <4>2 DEF CanteensInv, CampusesSound
            <4> QED
                BY <4>1, <4>2
        <3>6. CampusesGoOn
            BY <3>2, <3>4, <3>5 DEF CampusesGoOn
        <3>7. ASSUME NEW e \in Desks
              PROVE  desk'[e] \in Desk /\ (desk'[e] = desk[e] \/ (MoveSound(e)' /\ NameSound(e)'))
            <4>1. CASE e = d
                BY <3>1, <4>1, AtRestTyped DEF MoveSound, NameSound
            <4>2. CASE e # d /\ desk[e].user = u /\ desk[e].at \in {"update", "replace"}
                <5>1. PICK p \in Desk : p = desk[e]
                    BY <1>0
                <5>2. PICK r : r = [p EXCEPT !.fresh = FALSE, !.late = TRUE]
                    OBVIOUS
                <5>3. /\ r \in Desk /\ r.at = p.at /\ r.user = p.user /\ r.late = TRUE
                      /\ r.campuses = p.campuses
                    BY <5>2 DEF Desk
                <5>4. desk'[e] = r
                    BY <3>1, <4>2, <5>1, <5>2
                <5> QED
                    BY <3>6, <4>2, <5>1, <5>3, <5>4 DEF CanteensInv, MoveSound, NameSound, CampusesGoOn
            <4>3. CASE e # d /\ ~(desk[e].user = u /\ desk[e].at \in {"update", "replace"})
                BY <1>0, <3>1, <4>3
            <4> QED
                BY <4>1, <4>2, <4>3
        <3>8. desk' \in [Desks -> Desk]
            BY <3>1, <3>7
        <3> QED
            BY <2>2, <3>6, <3>7, <3>8, DeskGoesOn, SMTT(30)
    <2> QED
        BY <2>5, <2>6
<1>12. ASSUME NEW d \in Desks, Leave(d) PROVE CanteensInv'
    BY <1>12, ShutIsSound, DeskGoesOn, SameCampuses DEF Leave
<1> QED
    BY <1>1, <1>2, <1>3, <1>4, <1>5, <1>6, <1>7, <1>8, <1>9, <1>10, <1>11, <1>12 DEF CanteensNext

\* An account that its number has found is found ever after, but for a canteen created
\* on this number and for registrations that overlap (users.service.ts:130, 155).
THEOREM FoundEverAfter == CanteensSpec => []AccountsStayFound
<1>1. CanteensInv => AccountsStayFound
    <2> SUFFICES ASSUME CanteensInv, NEW u \in met
                 PROVE  account[u].number \in veiled \/ Finds(account[u].number) = u
        BY DEF AccountsStayFound
    <2>1. PICK n \in PhoneNumbers : n = account[u].number
        BY RowIsAccount DEF CanteensInv, CanteensTypeOK
    <2>2. n \in veiled \/ Finds(n) = u
        BY <2>1 DEF CanteensInv, NumberSound
    <2> QED
        BY <2>1, <2>2
<1> QED
    BY CanteensInvInit, CanteensInvNext, <1>1, PTL DEF CanteensSpec

\* A canteen has the campuses of its last update, and always some
\* (vendors.service.ts:320; update-vendor.dto.ts:49).
THEOREM LastUpdateRules == CanteensSpec => []CampusesOfTheLastUpdate
<1>1. CanteensInv => CampusesOfTheLastUpdate
    BY DEF CanteensInv, CampusesSound, CampusesOfTheLastUpdate
<1> QED
    BY CanteensInvInit, CanteensInvNext, <1>1, PTL DEF CanteensSpec

=============================================================================

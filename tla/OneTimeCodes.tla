---------------------------- MODULE OneTimeCodes ----------------------------
(***************************************************************************)
(* One-time codes and what they open (src/src/modules/auth/services:       *)
(* auth.service.ts, and the activation half of vendor-auth.service.ts; the *)
(* password resets of web-auth.service.ts keep theirs in the same table).  *)
(* sendOtp stores the hash of a code and sends it by SMS; consumeOtp       *)
(* checks an answer and claims the code; verifyOtp then registers a new    *)
(* student, with his sponsor, and whoever answered is granted the right to *)
(* choose a PIN (module Accounts).  The limit of tries is read before the  *)
(* answer is compared, and the try is counted after it.                    *)
(*                                                                         *)
(* Nothing is locked: between a reading and the write it decides, bcrypt   *)
(* hashes or compares, and other calls of the same phone come and go.  A   *)
(* phone may even have two open codes, when two calls find none.  The time *)
(* of expiry is an action of the environment.                              *)
(***************************************************************************)
EXTENDS Integers, FiniteSets

CONSTANTS
    Phones,         \* numbers of people that may register
    VendorPhones,   \* numbers of canteen accounts an administrator created
    ResetKeys,      \* numbers of the back office, kept under a prefix
    CodeIds,        \* rows of OtpCode that can be created (a bound)
    Callers,        \* calls in flight at the same time (a bound)
    MaxAttempts,    \* 5 in the code
    NoRow           \* "no such row"

ASSUME AttemptsAssumption == MaxAttempts \in Nat \ {0}
ASSUME CallersAssumption == IsFiniteSet(Callers)
Numbers == Phones \cup VendorPhones \cup ResetKeys

ASSUME NoRowAssumption == NoRow \notin CodeIds \cup Numbers
ASSUME PhonesAssumption == Phones \cap (VendorPhones \cup ResetKeys) = {}

\* A row of OtpCode.  expired stands for expiresAt being past.
OtpCode == [phone : Numbers, state : {"open", "used", "deleted"},
            expired : BOOLEAN, attempts : 0 .. MaxAttempts]

ASSUME RowAssumption == NoRow \notin OtpCode

VARIABLES
    codes,      \* table OtpCode
    students,   \* phones with a row of User of role STUDENT
    referrer,   \* table Referral: who sponsored each student, or NoRow
    otpCall,    \* what each call has read
    granted,    \* history variable: how often a row of OtpCode was claimed
    wrong       \* history variable: the answers refused as wrong, for each row,
                \* since it holds its code; an answer to the former code counts

otpVars == <<codes, students, referrer, otpCall, granted, wrong>>

OtpCall == [op : {"idle", "send", "wrong", "right", "register", "insert"},
            phone : Numbers \cup {NoRow}, id : CodeIds \cup {NoRow},
            attempts : 0 .. MaxAttempts, known : BOOLEAN, sponsor : Phones \cup {NoRow}]

Reading(op, p, i, attempts, known) ==
    [op |-> op, phone |-> p, id |-> i, attempts |-> attempts, known |-> known, sponsor |-> NoRow]
OtpIdle == Reading("idle", NoRow, NoRow, 0, FALSE)

Stored == {i \in CodeIds : codes[i] # NoRow}
Open(i) == codes[i].state = "open" /\ ~codes[i].expired
Active(p) == {i \in Stored : codes[i].phone = p /\ Open(i)}
Known(p) == p \in students \cup VendorPhones \cup ResetKeys

OtpInit ==
    /\ codes = [i \in CodeIds |-> NoRow]
    /\ students = {}
    /\ referrer = [p \in Phones |-> NoRow]
    /\ otpCall = [c \in Callers |-> OtpIdle]
    /\ granted = [i \in CodeIds |-> 0]
    /\ wrong = [i \in CodeIds |-> 0]

Answer(c) == otpCall' = [otpCall EXCEPT ![c] = OtpIdle]

-----------------------------------------------------------------------------
(* Sending a code. *)

\* deleteMany of the codes of this phone that have expired, used or not.
Purged(p) ==
    [i \in CodeIds |-> IF i \in Stored /\ codes[i].phone = p /\ codes[i].expired
                       THEN [codes[i] EXCEPT !.state = "deleted", !.attempts = 0]
                       ELSE codes[i]]

\* findFirst has no order: any active code of the phone may be the one found.
ReadForSend(c, p) ==
    /\ otpCall[c].op = "idle"
    /\ codes' = Purged(p)
    /\ IF Active(p) = {}
       THEN otpCall' = [otpCall EXCEPT ![c] = Reading("send", p, NoRow, 0, FALSE)]
       ELSE \E i \in Active(p) :
                otpCall' = IF codes[i].attempts >= MaxAttempts THEN otpCall
                    ELSE [otpCall EXCEPT ![c] =
                             Reading("send", p, i, codes[i].attempts, FALSE)]
    /\ UNCHANGED <<students, referrer, granted, wrong>>

SendOtp(c) == \E p \in Phones : ReadForSend(c, p)

\* A canteen is sent a code after its password was checked, and again for the
\* step token it was given.
ActivateStart(c) == \E p \in VendorPhones : ReadForSend(c, p)

\* sendResetSms, for an account that can be reset.
StartPasswordReset(c) == \E p \in ResetKeys : ReadForSend(c, p)

\* The new code goes into the row that was read, with the counter that was
\* read, whatever happened to the row since; the update fails if it is gone.
Resend(c) ==
    LET i == otpCall[c].id IN
    /\ otpCall[c].op = "send" /\ i # NoRow
    /\ IF codes[i].state = "deleted"
       THEN UNCHANGED <<codes, wrong>>
       ELSE /\ codes' = [codes EXCEPT ![i].expired = FALSE,
                                      ![i].attempts = otpCall[c].attempts + 1]
            /\ wrong' = [wrong EXCEPT ![i] = 0]
    /\ Answer(c)
    /\ UNCHANGED <<students, referrer, granted>>

CreateCode(c) ==
    /\ otpCall[c].op = "send" /\ otpCall[c].id = NoRow
    /\ \E i \in CodeIds \ Stored :
           codes' = [codes EXCEPT ![i] = [phone |-> otpCall[c].phone, state |-> "open",
                                          expired |-> FALSE, attempts |-> 0]]
    /\ Answer(c)
    /\ UNCHANGED <<students, referrer, granted, wrong>>

-----------------------------------------------------------------------------
(* Answering. *)

\* Mutant: one try too many, which no counter accounts for.
MayTryMutant(i) == codes[i].attempts <= MaxAttempts

MayTry(i) == codes[i].attempts < MaxAttempts

\* consumeOtp up to the comparison, after verifyOtp has looked the phone up.
\* A newcomer who names no campus only learns whether his code is right.
ReadForVerify(c, p) ==
    /\ otpCall[c].op = "idle"
    /\ \E i \in Active(p), right \in BOOLEAN, campus \in BOOLEAN :
           /\ MayTry(i)
           /\ right => Known(p) \/ campus
           /\ otpCall' = [otpCall EXCEPT ![c] =
                  Reading(IF right THEN "right" ELSE "wrong", p, i, 0, Known(p))]
    /\ UNCHANGED <<codes, students, referrer, granted, wrong>>

VerifyOtp(c) == \E p \in Phones : ReadForVerify(c, p)
ActivateVerifyOtp(c) == \E p \in VendorPhones : ReadForVerify(c, p)
VerifyResetSms(c) == \E p \in ResetKeys : ReadForVerify(c, p)

ForReset(i) == codes[i].phone \in ResetKeys

\* Mutants: the condition forgets that the code was used; that it was tried.
ClaimableMutant(i) == ~codes[i].expired
ClaimableUntriedMutant(i) == Open(i)

\* The conditions of both updateMany, evaluated again as they write: resets do not
\* look at the counter to claim a code, nor at its expiry to count a try.
Claimable(i) == Open(i) /\ (ForReset(i) \/ codes[i].attempts < MaxAttempts)
Countable(i) ==
    /\ codes[i].state = "open" /\ codes[i].attempts < MaxAttempts
    /\ ForReset(i) \/ ~codes[i].expired

\* The answer is refused whether or not its try could be counted.
CountWrong(c) ==
    LET i == otpCall[c].id IN
    /\ otpCall[c].op = "wrong"
    /\ codes' = IF Countable(i) THEN [codes EXCEPT ![i].attempts = @ + 1] ELSE codes
    /\ wrong' = [wrong EXCEPT ![i] = @ + 1]
    /\ Answer(c)
    /\ UNCHANGED <<students, referrer, granted>>

\* A known phone is granted its PIN at once; a newcomer is registered first.
Claim(c) ==
    LET i == otpCall[c].id IN
    /\ otpCall[c].op = "right"
    /\ IF Claimable(i)
       THEN /\ codes' = [codes EXCEPT ![i].state = "used"]
            /\ granted' = [granted EXCEPT ![i] = @ + 1]
            /\ IF otpCall[c].known THEN Answer(c)
               ELSE otpCall' = [otpCall EXCEPT ![c].op = "register", ![c].id = NoRow]
       ELSE Answer(c) /\ UNCHANGED <<codes, granted>>
    /\ UNCHANGED <<students, referrer, wrong>>

-----------------------------------------------------------------------------
(* Registration, in one transaction. *)

\* User.phone is unique: the insertion fails if the phone registered meanwhile.
PhoneFree(p) == p \notin students

\* The code of a sponsor belongs to an account that exists; canteens, which
\* nobody sponsors, are left out.
Sponsors == students \cup {NoRow}

FindSponsor(c) ==
    /\ otpCall[c].op = "register"
    /\ \E s \in Sponsors :
           otpCall' = [otpCall EXCEPT ![c].op = "insert", ![c].sponsor = s]
    /\ UNCHANGED <<codes, students, referrer, granted, wrong>>

Register(c) ==
    LET p == otpCall[c].phone IN
    /\ otpCall[c].op = "insert"
    /\ IF PhoneFree(p)
       THEN /\ students' = students \cup {p}
            /\ referrer' = [referrer EXCEPT ![p] = otpCall[c].sponsor]
       ELSE UNCHANGED <<students, referrer>>
    /\ Answer(c)
    /\ UNCHANGED <<codes, granted, wrong>>

\* Unknown sponsor, unknown campus, no free referral code, or a process that
\* dies between two writes: the code stays used and nobody is registered.
Abandon(c) ==
    /\ otpCall[c].op # "idle"
    /\ Answer(c)
    /\ UNCHANGED <<codes, students, referrer, granted, wrong>>

Expire ==
    /\ \E i \in {j \in Stored : Open(j)} : codes' = [codes EXCEPT ![i].expired = TRUE]
    /\ UNCHANGED <<students, referrer, otpCall, granted, wrong>>

OtpNext ==
    \/ \E c \in Callers :
           \/ SendOtp(c) \/ ActivateStart(c) \/ Resend(c) \/ CreateCode(c)
           \/ StartPasswordReset(c) \/ VerifyOtp(c) \/ ActivateVerifyOtp(c)
           \/ VerifyResetSms(c) \/ CountWrong(c) \/ Claim(c)
           \/ FindSponsor(c) \/ Register(c) \/ Abandon(c)
    \/ Expire

OtpSpec == OtpInit /\ [][OtpNext]_otpVars

-----------------------------------------------------------------------------
(* Properties *)

OtpTypeOK ==
    /\ codes \in [CodeIds -> OtpCode \cup {NoRow}]
    /\ students \subseteq Phones
    /\ referrer \in [Phones -> Phones \cup {NoRow}]
    /\ otpCall \in [Callers -> OtpCall]
    /\ granted \in [CodeIds -> Nat]
    /\ wrong \in [CodeIds -> Nat]

\* However many calls answer one code at the same time (auth.service.ts:157),
\* one of them at most is let through.
CodeServesOnce == \A i \in CodeIds : granted[i] <= 1

\* Answers are compared before they are counted, so that those that overlap may
\* be refused beyond the limit.  They never add up: whatever resends write back a
\* counter read before, and whatever calls die before they count, a code is
\* answered wrongly by no more calls than those in flight when the limit is
\* reached (auth.service.ts:124, 134).
TriesBounded == \A i \in CodeIds : wrong[i] <= MaxAttempts + Cardinality(Callers) - 1

\* An answer that was compared meanwhile opens nothing: a phone is let through
\* only while fewer wrong answers than the limit were given, whenever its own was
\* read (auth.service.ts:157).  Resets of the back office do not promise it.
LetInWithinTries ==
    [][\A i \in CodeIds : granted'[i] # granted[i] =>
           ForReset(i) \/ wrong[i] < MaxAttempts]_otpVars

\* Nobody is his own sponsor, directly or through others: in every group of
\* students somebody has no sponsor in the group (auth.service.ts:232).
ReferralsAreATree ==
    \A S \in (SUBSET students) \ {{}} : \E p \in S : referrer[p] \notin S

=============================================================================

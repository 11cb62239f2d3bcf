------------------------------ MODULE Canteens ------------------------------
(***************************************************************************)
(* Who an account belongs to, and the canteens that administrators create  *)
(* (src/src/modules/vendors: vendors.service.ts; users: findByPhone and    *)
(* canonicalizePhone; registration and sign-in in modules/auth).           *)
(*                                                                         *)
(* User.phone is a string, unique as it is written.  Numbers of Togo have  *)
(* a canonical form, "e164"; a row may hold another one: rows of before,   *)
(* and students, whose number is kept as they typed it.  findByPhone looks *)
(* for the canonical string, then for a row that contains the last eight   *)
(* digits together; a form with blanks between them has neither.           *)
(*                                                                         *)
(* A sign-in reads the account, checks a password or a PIN, then writes    *)
(* the canonical form; a registration reads, waits for the code, then      *)
(* inserts.  The campuses of a canteen are replaced by a deletion and an   *)
(* insertion, like the lines of a menu (module Catalog).                   *)
(***************************************************************************)
EXTENDS FiniteSets, Naturals

CONSTANTS
    Users,          \* rows of User that can be created (a bound)
    PhoneNumbers,   \* numbers of Togo
    Joined,         \* forms whose last eight digits are together, "e164" excepted
    Spaced,         \* forms with something between them
    Legacy,         \* forms of the rows of before
    Campuses,
    Desks,          \* calls in flight at the same time (a bound)
    NoOne           \* "no such row"

Forms == {"e164"} \cup Joined \cup Spaced

ASSUME FormsAssumption ==
    /\ Joined \cap Spaced = {} /\ "e164" \notin Joined \cup Spaced /\ Legacy \subseteq Forms
ASSUME CampusesAssumption == Campuses # {}
ASSUME UsersAssumption == IsFiniteSet(Users)
ASSUME NoOneAssumption == NoOne \notin Users \cup PhoneNumbers \cup Forms

VARIABLES
    account,    \* table User, its phone and role
    canteen,    \* table Vendor with VendorCampus, by owner
    desk,       \* what each call has read
    met,        \* history variable: accounts that a lookup has found
    veiled,     \* history variable: numbers on which a canteen was created, or two
                \* registrations overlapped
    lastMove    \* history variable: the campuses each canteen was last given, and
                \* whether another replacement had committed since the reading

canteenVars == <<account, canteen, desk, met, veiled, lastMove>>

Account == [number : PhoneNumbers, form : Forms, role : {"STUDENT", "VENDOR"}]

ASSUME NoAccountAssumption == NoOne \notin Account

\* The date and the reason of a suspension are left out.
Canteen == [campuses : SUBSET Campuses, active : BOOLEAN]

\* fresh: the links that the deletion has seen are still those of the canteen.
\* late (history): another call of the kind has committed since the reading.
Desk == [at : {"free", "register", "canonicalize", "update", "replace"},
         user : Users \cup {NoOne}, number : PhoneNumbers \cup {NoOne},
         form : Forms \cup {NoOne}, campuses : SUBSET Campuses,
         fresh : BOOLEAN, late : BOOLEAN]
AtRest == [at |-> "free", user |-> NoOne, number |-> NoOne, form |-> NoOne,
           campuses |-> {}, fresh |-> FALSE, late |-> FALSE]

Rows == {u \in Users : account[u] # NoOne}
Holders(n, forms) == {u \in Rows : account[u].number = n /\ account[u].form \in forms}

CanteensInit ==
    /\ account \in [Users -> {NoOne} \cup {a \in Account : a.form \in Legacy /\ a.role = "VENDOR"}]
    /\ \A u, w \in Users : u # w /\ account[u] # NoOne => account[u] # account[w]
    /\ canteen = [u \in Users |->
           IF account[u] = NoOne THEN NoOne
           ELSE [campuses |-> Campuses, active |-> TRUE]]
    /\ desk = [d \in Desks |-> AtRest]
    /\ met = {}
    /\ veiled = {}
    /\ lastMove = [u \in Users |-> [campuses |-> {}, late |-> FALSE]]

IsOpen(d) == desk[d].at = "free"
Shut(d) == desk' = [desk EXCEPT ![d] = AtRest]

-----------------------------------------------------------------------------
(* Finding an account by its number.                                       *)

\* findByPhone: the canonical string, then the only row that contains the digits.
Candidates(n) ==
    IF Holders(n, {"e164"}) # {} THEN Holders(n, {"e164"}) ELSE Holders(n, Joined)
Finds(n) ==
    IF Cardinality(Candidates(n)) = 1 THEN CHOOSE u \in Candidates(n) : TRUE ELSE NoOne

\* Mutant: only the canonical form is looked for before a registration.
UnknownMutant(n) == Holders(n, {"e164"}) = {}

\* verifyOtp takes the number for a new one.
Unknown(n) == Finds(n) = NoOne

\* verifyOtp on an account that exists grants it the right to choose a PIN.
VerifyKnown ==
    /\ \E n \in PhoneNumbers : Finds(n) # NoOne /\ met' = met \cup {Finds(n)}
    /\ UNCHANGED <<account, canteen, desk, veiled, lastMove>>

\* The number is kept as it was typed.
ReadForRegistration(d) ==
    /\ IsOpen(d)
    /\ \E n \in PhoneNumbers, f \in Forms :
           /\ Unknown(n)
           /\ desk' = [desk EXCEPT ![d] =
                  [AtRest EXCEPT !.at = "register", !.number = n, !.form = f]]
    /\ UNCHANGED <<account, canteen, met, veiled, lastMove>>

Insert(u, n, f, r) == account' = [account EXCEPT ![u] = [number |-> n, form |-> f, role |-> r]]

\* The insertion fails if the same string is there.  late: a registration on the
\* same number has ended since the reading.
CommitRegistration(d) ==
    LET n == desk[d].number
        f == desk[d].form
    IN
    /\ desk[d].at = "register"
    /\ IF Holders(n, {f}) # {}
       THEN UNCHANGED <<account, veiled>> /\ Shut(d)
       ELSE /\ \E u \in Users \ Rows : Insert(u, n, f, "STUDENT")
            /\ veiled' = IF desk[d].late THEN veiled \cup {n} ELSE veiled
            /\ desk' = [e \in Desks |->
                   IF e = d THEN AtRest
                   ELSE IF desk[e].at = "register" /\ desk[e].number = n
                        THEN [desk[e] EXCEPT !.late = TRUE] ELSE desk[e]]
    /\ UNCHANGED <<canteen, met, lastMove>>

-----------------------------------------------------------------------------
(* The sign-in of a canteen.                                               *)

\* activateStart and loginPin, up to the password or the PIN.
ReadForSignIn(d) ==
    /\ IsOpen(d)
    /\ \E n \in PhoneNumbers :
           LET u == Finds(n) IN
           /\ u # NoOne /\ account[u].role = "VENDOR"
           /\ met' = met \cup {u}
           /\ desk' = [desk EXCEPT ![d] =
                  [AtRest EXCEPT !.at = "canonicalize", !.user = u, !.number = n]]
    /\ UNCHANGED <<account, canteen, veiled, lastMove>>

\* canonicalizePhone: a conflict when another account has the canonical string.
Canonicalize(d) ==
    LET u == desk[d].user IN
    /\ desk[d].at = "canonicalize"
    /\ IF Holders(desk[d].number, {"e164"}) = {}
       THEN account' = [account EXCEPT ![u].form = "e164"]
       ELSE UNCHANGED account
    /\ Shut(d)
    /\ UNCHANGED <<canteen, met, veiled, lastMove>>

-----------------------------------------------------------------------------
(* The canteens.                                                           *)

\* One transaction: the account, the canteen and its campuses.
CreateCanteen ==
    \E u \in Users \ Rows, n \in PhoneNumbers, C \in (SUBSET Campuses) \ {{}}, on \in BOOLEAN :
        /\ Holders(n, {"e164"}) = {}
        /\ Insert(u, n, "e164", "VENDOR")
        /\ canteen' = [canteen EXCEPT ![u] = [campuses |-> C, active |-> on]]
        /\ veiled' = veiled \cup {n}
        /\ lastMove' = [lastMove EXCEPT ![u] = [campuses |-> C, late |-> FALSE]]
        /\ UNCHANGED <<desk, met>>

\* update, when it has no campuses.
SuspendCanteen ==
    /\ \E u \in Users, on \in BOOLEAN :
           canteen[u] # NoOne /\ canteen' = [canteen EXCEPT ![u].active = on]
    /\ UNCHANGED <<account, desk, met, veiled, lastMove>>

ReadForUpdateCanteen(d) ==
    /\ IsOpen(d)
    /\ \E u \in Users, C \in (SUBSET Campuses) \ {{}} :
           /\ canteen[u] # NoOne
           /\ desk' = [desk EXCEPT ![d] =
                  [AtRest EXCEPT !.at = "update", !.user = u, !.campuses = C]]
    /\ UNCHANGED <<account, canteen, met, veiled, lastMove>>

\* The deletion takes its snapshot, and waits if another one holds the links.
StartMove(d) ==
    /\ desk[d].at = "update"
    /\ desk' = [desk EXCEPT ![d].at = "replace", ![d].fresh = TRUE]
    /\ UNCHANGED <<account, canteen, met, veiled, lastMove>>

\* Mutant: the new links are added to those that are there.
KeptMutant(d) == canteen[desk[d].user].campuses

\* The links that the deletion leaves: those it did not see.
Kept(d) == IF desk[d].fresh THEN {} ELSE canteen[desk[d].user].campuses

\* A link of both is refused by the primary key, and the transaction undone.
CommitMove(d) ==
    LET u == desk[d].user
        C == desk[d].campuses
    IN
    /\ desk[d].at = "replace"
    /\ IF C \cap Kept(d) # {}
       THEN Shut(d) /\ UNCHANGED <<canteen, lastMove>>
       ELSE /\ canteen' = [canteen EXCEPT ![u].campuses = Kept(d) \cup C]
            /\ lastMove' = [lastMove EXCEPT ![u] = [campuses |-> C, late |-> desk[d].late]]
            /\ desk' = [e \in Desks |->
                   IF e = d THEN AtRest
                   ELSE IF desk[e].user = u /\ desk[e].at \in {"update", "replace"}
                        THEN [desk[e] EXCEPT !.fresh = FALSE, !.late = TRUE]
                        ELSE desk[e]]
    /\ UNCHANGED <<account, met, veiled>>

Leave(d) ==
    /\ ~IsOpen(d)
    /\ Shut(d)
    /\ UNCHANGED <<account, canteen, met, veiled, lastMove>>

CanteensNext ==
    \/ VerifyKnown \/ CreateCanteen \/ SuspendCanteen
    \/ \E d \in Desks :
           \/ ReadForRegistration(d) \/ CommitRegistration(d) \/ ReadForSignIn(d)
           \/ Canonicalize(d) \/ ReadForUpdateCanteen(d) \/ StartMove(d) \/ CommitMove(d)
           \/ Leave(d)

CanteensSpec == CanteensInit /\ [][CanteensNext]_canteenVars

-----------------------------------------------------------------------------
(* Properties *)

CanteensTypeOK ==
    /\ account \in [Users -> Account \cup {NoOne}]
    /\ canteen \in [Users -> Canteen \cup {NoOne}]
    /\ desk \in [Desks -> Desk]
    /\ met \subseteq Rows
    /\ veiled \subseteq PhoneNumbers

\* An account that its number has found is found ever after, whatever sign-ins
\* rewrite the numbers meanwhile: only a canteen created on the same number, or
\* registrations that overlap, come before it (users.service.ts:130, 155).
AccountsStayFound ==
    \A u \in met : account[u].number \in veiled \/ Finds(account[u].number) = u

\* « Remplace intégralement la liste des campus » (update-vendor.dto.ts:49): a canteen
\* has the campuses of its last update and no others, at least one, unless two
\* updates overlapped; the last one loses none of its own (vendors.service.ts:320).
CampusesOfTheLastUpdate ==
    \A u \in Users : canteen[u] # NoOne =>
        /\ canteen[u].campuses # {}
        /\ lastMove[u].campuses \subseteq canteen[u].campuses
        /\ lastMove[u].campuses = {} \/ lastMove[u].late
               \/ canteen[u].campuses = lastMove[u].campuses

=============================================================================

------------------------------ MODULE Accounts ------------------------------
(***************************************************************************)
(* One mobile account, of a student or of a canteen: its PIN, its          *)
(* sessions and its suspensions (src/src/modules/auth and users).          *)
(*                                                                         *)
(* A call reads the row of User, spends time in bcrypt, then writes what   *)
(* its reading decided; nothing is locked in between and writes carry no   *)
(* condition.  Each transaction is one action.  The lock of a PIN and the  *)
(* end of a suspension come with time, as actions of the environment.      *)
(*                                                                         *)
(* Refresh tokens are never rotated, so a session is one row of            *)
(* RefreshToken and its family has one member.                             *)
(***************************************************************************)
EXTENDS Integers, FiniteSets

CONSTANTS
    Sessions,       \* rows of RefreshToken that can be created (a bound)
    Requests,       \* calls in flight at the same time (a bound)
    MaxFailures,    \* STUDENT_PIN_MAX_ATTEMPTS, VENDOR_PIN_MAX_ATTEMPTS: 5
    MaxEvents,      \* suspensions in a life of the account (a bound)
    MaxLost         \* processes that die with a lock to write (a bound)

ASSUME FailuresAssumption == MaxFailures \in Nat \ {0}
ASSUME BoundsAssumption == MaxEvents \in Nat /\ MaxLost \in Nat
ASSUME RequestsAssumption == IsFiniteSet(Requests)

Roles == {"STUDENT", "VENDOR"}

VARIABLES
    role,       \* User.role
    user,       \* the row of User
    events,     \* how many SuspensionEvent have each status
    session,    \* the row of each RefreshToken: "none", "live" or "revoked"
    request,    \* what each call has read
    lost,       \* history variable: locks that a dead process did not write
    slipped     \* history variable: live sessions that were opened on a reading
                \* older than the last suspension

accountVars == <<role, user, events, session, request, lost, slipped>>

\* A date of the row: absent, to come or past.
Deadline == {"never", "later", "past"}

\* lock is pinLockedUntil, until is suspensionUntil.
User == [pin : BOOLEAN, failures : Nat, lock : Deadline,
         suspended : BOOLEAN, until : Deadline]

Statuses == {"ACTIVE", "LIFTED", "EXPIRED"}

Steps == {"idle", "wrong", "lock", "right", "open", "pin", "suspend", "lift", "expire"}

\* dirty: failures or a lock were read; late: the account was suspended since the
\* reading (history).
Request == [at : Steps, dirty : BOOLEAN, late : BOOLEAN]
Idle == [at |-> "idle", dirty |-> FALSE, late |-> FALSE]

AccountInit ==
    /\ role \in Roles
    /\ user = [pin |-> FALSE, failures |-> 0, lock |-> "never", suspended |-> FALSE,
               until |-> "never"]
    /\ events = [s \in Statuses |-> 0]
    /\ session = [t \in Sessions |-> "none"]
    /\ request = [r \in Requests |-> Idle]
    /\ lost = 0
    /\ slipped = {}

Free(r) == request[r].at = "idle"
Goes(r, step) == request' = [request EXCEPT ![r] = [Idle EXCEPT !.at = step]]
Ends(r) == request' = [request EXCEPT ![r] = Idle]

SuspensionActive(u) == u.suspended /\ u.until # "past"
AccountUsable == ~SuspensionActive(user)

\* Mutant: the tokens of an account outlive its suspension.
RevokeAllMutant == UNCHANGED session /\ slipped' = {}

\* updateMany of the live refresh tokens.
RevokeAll ==
    /\ session' = [t \in Sessions |-> IF session[t] = "live" THEN "revoked" ELSE session[t]]
    /\ slipped' = {}

-----------------------------------------------------------------------------
(* Signing in with the PIN. *)

ReadForLogin(r) ==
    /\ Free(r)
    /\ user.pin /\ AccountUsable /\ user.lock # "later"
    /\ \E answer \in {"wrong", "right"} :
           request' = [request EXCEPT ![r] = [at |-> answer, late |-> FALSE,
                           dirty |-> (user.failures # 0 \/ user.lock = "past")
                                     /\ answer = "right"]]
    /\ UNCHANGED <<role, user, events, session, lost, slipped>>

StudentLoginPin(r) == role = "STUDENT" /\ ReadForLogin(r)
VendorLoginPin(r) == role = "VENDOR" /\ ReadForLogin(r)

\* Mutant: the lock comes one failure late.
CountFailureMutant(r) ==
    /\ request[r].at = "wrong"
    /\ user' = [user EXCEPT !.failures = @ + 1]
    /\ IF user.failures >= MaxFailures THEN Goes(r, "lock") ELSE Ends(r)
    /\ UNCHANGED <<role, events, session, lost, slipped>>

\* The increment is atomic; the lock is a second write, that resets the count.
CountFailure(r) ==
    /\ request[r].at = "wrong"
    /\ user' = [user EXCEPT !.failures = @ + 1]
    /\ IF user.failures + 1 >= MaxFailures THEN Goes(r, "lock") ELSE Ends(r)
    /\ UNCHANGED <<role, events, session, lost, slipped>>

LockPin(r) ==
    /\ request[r].at = "lock"
    /\ user' = [user EXCEPT !.failures = 0, !.lock = "later"]
    /\ lost' = 0
    /\ Ends(r)
    /\ UNCHANGED <<role, events, session, slipped>>

\* A right PIN clears the count, if the reading was not clean already.
ClearFailures(r) ==
    /\ request[r].at = "right"
    /\ user' = [user EXCEPT
           !.failures = IF request[r].dirty THEN 0 ELSE @,
           !.lock = IF request[r].dirty THEN "never" ELSE @]
    /\ lost' = IF request[r].dirty THEN 0 ELSE lost
    /\ request' = [request EXCEPT ![r].at = "open", ![r].dirty = FALSE]
    /\ UNCHANGED <<role, events, session, slipped>>

\* issueTokens, then persistRefreshToken.
OpenSession(r) ==
    /\ request[r].at = "open"
    /\ \E t \in Sessions :
           /\ session[t] = "none"
           /\ session' = [session EXCEPT ![t] = "live"]
           /\ slipped' = IF request[r].late THEN slipped \cup {t} ELSE slipped
    /\ Ends(r)
    /\ UNCHANGED <<role, user, events, lost>>

-----------------------------------------------------------------------------
(* Choosing a PIN, for who was granted it (module OneTimeCodes). *)

ReadForSetPin(r) ==
    /\ Free(r) /\ AccountUsable
    /\ Goes(r, "pin")
    /\ UNCHANGED <<role, user, events, session, lost, slipped>>

StudentSetPin(r) == role = "STUDENT" /\ ReadForSetPin(r)
VendorSetPin(r) == role = "VENDOR" /\ ReadForSetPin(r)

CommitPin(r) ==
    /\ request[r].at = "pin"
    /\ user' = [user EXCEPT !.pin = TRUE, !.failures = 0, !.lock = "never"]
    /\ lost' = 0
    /\ RevokeAll
    /\ request' = [request EXCEPT ![r].at = "open"]
    /\ UNCHANGED <<role, events>>

StudentCommitPin(r) == role = "STUDENT" /\ CommitPin(r)
VendorCommitPin(r) == role = "VENDOR" /\ CommitPin(r)

-----------------------------------------------------------------------------
(* Sessions. *)

\* Each session opens a family of its own (familyId has a default, and no call
\* gives one).
Family(t) == t

\* A live token gets a new access token and stays what it is.  A revoked one
\* that comes back late revokes the live tokens of its family, that is none.
RefreshTokens(r) ==
    /\ Free(r)
    /\ \E t \in Sessions :
           /\ session[t] = "revoked"
           /\ session' = [u \in Sessions |-> IF Family(u) = Family(t) /\ session[u] = "live"
                                             THEN "revoked" ELSE session[u]]
    /\ UNCHANGED <<role, user, events, request, lost, slipped>>

Logout(r) ==
    /\ Free(r)
    /\ RevokeAll
    /\ UNCHANGED <<role, user, events, request, lost>>

\* changePassword: the old password was right.
ChangePassword(r) == Logout(r)

-----------------------------------------------------------------------------
(* Suspensions. *)

\* users.update, by a web administrator: only a change of state does something.
ReadForModeration(r) ==
    /\ Free(r)
    /\ Goes(r, IF user.suspended THEN "lift" ELSE "suspend")
    /\ UNCHANGED <<role, user, events, session, lost, slipped>>

TotalEvents == events["ACTIVE"] + events["LIFTED"] + events["EXPIRED"]

Suspend(r) ==
    /\ request[r].at = "suspend" /\ TotalEvents < MaxEvents
    /\ \E until \in {"never", "later"} :
           user' = [user EXCEPT !.suspended = TRUE, !.until = until]
    /\ events' = [events EXCEPT !["ACTIVE"] = @ + 1]
    /\ RevokeAll
    /\ request' = [q \in Requests |->
           IF q = r THEN Idle ELSE [request[q] EXCEPT !.late = request[q].at # "idle"]]
    /\ UNCHANGED <<role, lost>>

\* Mutant: the last suspension ends, and only that one.
SettledMutant(status) ==
    IF events["ACTIVE"] = 0 THEN events
    ELSE [events EXCEPT !["ACTIVE"] = @ - 1, ![status] = @ + 1]

\* Every active event of the account ends with its suspension.
Settled(status) ==
    [events EXCEPT !["ACTIVE"] = 0, ![status] = @ + events["ACTIVE"]]

Lift(r) ==
    /\ request[r].at = "lift"
    /\ user' = [user EXCEPT !.suspended = FALSE]
    /\ events' = Settled("LIFTED")
    /\ Ends(r)
    /\ UNCHANGED <<role, session, lost, slipped>>

\* JwtStrategy.validate, on any request of the application.
ReadForAccess(r) ==
    /\ Free(r)
    /\ user.suspended /\ user.until = "past"
    /\ Goes(r, "expire")
    /\ UNCHANGED <<role, user, events, session, lost, slipped>>

ExpireSuspension(r) ==
    /\ request[r].at = "expire"
    /\ user' = [user EXCEPT !.suspended = FALSE, !.until = "never"]
    /\ events' = Settled("EXPIRED")
    /\ Ends(r)
    /\ UNCHANGED <<role, session, lost, slipped>>

-----------------------------------------------------------------------------
(* The environment. *)

\* A process dies; the lock it had to write is lost with it.
Die(r) ==
    /\ ~Free(r)
    /\ request[r].at = "lock" => lost < MaxLost
    /\ lost' = IF request[r].at = "lock" THEN lost + 1 ELSE lost
    /\ Ends(r)
    /\ UNCHANGED <<role, user, events, session, slipped>>

LockEnds ==
    /\ user.lock = "later"
    /\ user' = [user EXCEPT !.lock = "past"]
    /\ UNCHANGED <<role, events, session, request, lost, slipped>>

SuspensionEnds ==
    /\ user.until = "later"
    /\ user' = [user EXCEPT !.until = "past"]
    /\ UNCHANGED <<role, events, session, request, lost, slipped>>

AccountNext ==
    \/ \E r \in Requests :
           \/ StudentLoginPin(r) \/ VendorLoginPin(r) \/ CountFailure(r) \/ LockPin(r)
           \/ ClearFailures(r) \/ OpenSession(r) \/ StudentSetPin(r) \/ VendorSetPin(r)
           \/ StudentCommitPin(r) \/ VendorCommitPin(r) \/ RefreshTokens(r) \/ Logout(r)
           \/ ChangePassword(r) \/ ReadForModeration(r) \/ Suspend(r) \/ Lift(r)
           \/ ReadForAccess(r) \/ ExpireSuspension(r) \/ Die(r)
    \/ LockEnds
    \/ SuspensionEnds

AccountSpec == AccountInit /\ [][AccountNext]_accountVars

-----------------------------------------------------------------------------
(* Properties *)

AccountTypeOK ==
    /\ role \in Roles
    /\ user \in User
    /\ events \in [Statuses -> Nat]
    /\ session \in [Sessions -> {"none", "live", "revoked"}]
    /\ request \in [Requests -> Request]
    /\ lost \in Nat
    /\ slipped \subseteq Sessions

\* An account is suspended exactly as long as its history has a suspension under
\* way, though two administrators may both suspend it, one may lift it while the
\* other suspends, and any request may end it (suspensions.service.ts:30, 63;
\* jwt.strategy.ts:66).
SuspensionMatchesHistory == user.suspended <=> events["ACTIVE"] > 0

\* Five wrong PINs do not stay without a lock: when the count is there, each
\* further failure has a call that is about to write the lock, or that died
\* (student-auth.service.ts:185).
LockIsComing ==
    user.failures + 1 <=
        MaxFailures + lost + Cardinality({r \in Requests : request[r].at = "lock"})

\* A suspended account has no session left, except one whose opening had read the
\* account before the suspension and wrote its token after it
\* (suspensions.service.ts:50, auth.service.ts:446).
SuspendedIsSignedOut ==
    SuspensionActive(user) => {t \in Sessions : session[t] = "live"} \subseteq slipped

=============================================================================

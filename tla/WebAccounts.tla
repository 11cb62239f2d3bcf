----------------------------- MODULE WebAccounts -----------------------------
(***************************************************************************)
(* One account of the back office: its first login, its second factor, its *)
(* password resets and its sessions (src/src/modules/web-auth,             *)
(* web-auth.service.ts).  Each step of a flow is entered with a token,     *)
(* that is a row of WebAuthChallenge and is consumed by a conditional      *)
(* write, and ends with the token of the next step:                        *)
(*                                                                         *)
(*   firstLogin -> password -> secret -> check -> active, and a session    *)
(*   login      -> twofa    -> a session                                   *)
(*   (SMS, second factor) -> reset -> a new password                       *)
(*                                                                         *)
(* Calls overlap, die between two writes and hold what they have read.  A  *)
(* flow may be started many times over: nothing cancels its tokens.        *)
(***************************************************************************)
EXTENDS Integers, FiniteSets

CONSTANTS
    MaxChallenges,  \* rows of WebAuthChallenge that can be created (a bound)
    BackupCodes,    \* rows of WebUserBackupCode that can be created (a bound)
    BackupCodeCount,    \* BACKUP_CODE_COUNT: 10 in the code
    Tabs,           \* calls in flight at the same time (a bound)
    MaxVersion,     \* bound on tokenVersion
    None            \* "no such row"

ASSUME BatchAssumption == BackupCodeCount \in Nat \ {0}
ASSUME VersionAssumption == MaxVersion \in Nat
ASSUME ChallengesAssumption == MaxChallenges \in Nat

Challenges == 1 .. MaxChallenges

ASSUME NoneAssumption == None \notin Challenges \cup BackupCodes

\* The steps a token opens.
Purposes == {"password", "secret", "check", "twofa", "reset"}

VARIABLES
    web,        \* the row of WebUser
    challenge,  \* table WebAuthChallenge: its purpose and whether it is open
    backup,     \* table WebUserBackupCode: "none", "unused" or "used"
    tab,        \* what each call has read or written
    served      \* history variable: how often a token was turned into what it
                \* opens: the next step, a session or a new password

webVars == <<web, challenge, backup, tab, served>>

\* own: the password is no longer the temporary one.
WebUser == [temporary : BOOLEAN, own : BOOLEAN, secret : BOOLEAN, enabled : BOOLEAN,
            active : BOOLEAN, deleted : BOOLEAN, version : 0 .. MaxVersion]

ChallengeRow == [purpose : Purposes \cup {"none"}, open : BOOLEAN]

Tab == [at : {"idle", "spend", "consume", "write", "issue"}, purpose : Purposes \cup {"none"},
        token : Challenges \cup {None}, code : BackupCodes \cup {None}]
Closed == [at |-> "idle", purpose |-> "none", token |-> None, code |-> None]

\* provision: a temporary password, inactive until the second factor is set.
WebInit ==
    /\ web = [temporary |-> TRUE, own |-> FALSE, secret |-> FALSE, enabled |-> FALSE,
              active |-> FALSE, deleted |-> FALSE, version |-> 0]
    /\ challenge = [i \in Challenges |-> [purpose |-> "none", open |-> FALSE]]
    /\ backup = [b \in BackupCodes |-> "none"]
    /\ tab = [t \in Tabs |-> Closed]
    /\ served = [i \in Challenges |-> 0]

Issued == {i \in Challenges : challenge[i].purpose # "none"}
Issue(p) ==
    \E i \in Challenges \ Issued :
        /\ \A j \in 1 .. i - 1 : j \in Issued
        /\ challenge' = [challenge EXCEPT ![i] = [purpose |-> p, open |-> TRUE]]

IsFree(t) == tab[t].at = "idle"
Close(t) == tab' = [tab EXCEPT ![t] = Closed]

\* validateFlowToken and peekSessionChallengeToken: the step is checked against
\* the row, which is left open.
Holds(i, p) == challenge[i].purpose = p /\ challenge[i].open

-----------------------------------------------------------------------------
(* Entering a flow. *)

Login(t) ==
    /\ IsFree(t)
    /\ ~web.temporary /\ web.active
    /\ Issue("twofa")
    /\ UNCHANGED <<web, backup, tab, served>>

FirstLogin(t) ==
    /\ IsFree(t)
    /\ web.temporary
    /\ Issue("password")
    /\ UNCHANGED <<web, backup, tab, served>>

\* A TOTP code is right, or a backup code of those read as unused, which is then
\* marked before the call goes on.
Proven(t, p, i, at) ==
    \E b \in {None} \cup {x \in BackupCodes : backup[x] = "unused"} :
        tab' = [tab EXCEPT ![t] = [at |-> IF b = None THEN at ELSE "spend",
                                   purpose |-> p, token |-> i, code |-> b]]

CanResetPassword ==
    web.active /\ ~web.deleted /\ ~web.temporary /\ web.enabled /\ web.secret

\* verifyPasswordReset: the code of the SMS was claimed (as in OneTimeCodes).
VerifyPasswordReset(t) ==
    /\ IsFree(t)
    /\ CanResetPassword
    /\ Proven(t, "reset", None, "issue")
    /\ UNCHANGED <<web, challenge, backup, served>>

\* A backup code is used up, without a condition.
SpendCode(t) ==
    /\ tab[t].at = "spend"
    /\ backup' = [backup EXCEPT ![tab[t].code] = "used"]
    /\ tab' = [tab EXCEPT ![t].at = IF tab[t].purpose = "reset" THEN "issue" ELSE "consume",
                          ![t].code = None]
    /\ UNCHANGED <<web, challenge, served>>

IssueReset(t) ==
    /\ tab[t].at = "issue" /\ tab[t].purpose = "reset"
    /\ Issue("reset")
    /\ Close(t)
    /\ UNCHANGED <<web, backup, served>>

-----------------------------------------------------------------------------
(* Consuming a token. *)

\* setOnboardingPassword, setupTwoFactor and confirmPasswordReset consume first;
\* the conditional write lets one call of each token through.
\* Mutants: the write is not conditional; the step is not looked at.
ConsumableMutant(i, p) == challenge[i].purpose = p
ConsumableAnyStepMutant(i, p) == challenge[i].open
Consumable(i, p) == Holds(i, p)

ConsumeFirst(t) ==
    /\ IsFree(t)
    /\ \E i \in Challenges, p \in {"password", "secret", "reset"} :
           /\ Consumable(i, p)
           /\ challenge' = [challenge EXCEPT ![i].open = FALSE]
           /\ tab' = [tab EXCEPT ![t] =
                  [at |-> "write", purpose |-> p, token |-> i, code |-> None]]
    /\ UNCHANGED <<web, backup, served>>

\* verifyTwoFactorSetup and verify2fa check the code first, so that a slip of
\* the finger does not burn the token.
ReadForCheck(t) ==
    /\ IsFree(t)
    /\ web.secret
    /\ \E i \in Challenges :
           /\ Holds(i, "check")
           /\ tab' = [tab EXCEPT ![t] =
                  [at |-> "consume", purpose |-> "check", token |-> i, code |-> None]]
    /\ UNCHANGED <<web, challenge, backup, served>>

ReadForTwoFa(t) ==
    /\ IsFree(t)
    /\ web.active /\ web.enabled /\ web.secret
    /\ \E i \in Challenges : Holds(i, "twofa") /\ Proven(t, "twofa", i, "consume")
    /\ UNCHANGED <<web, challenge, backup, served>>

\* A call that comes second is refused; its backup code stays spent.
ConsumeProven(t) ==
    LET i == tab[t].token IN
    /\ tab[t].at = "consume"
    /\ IF Consumable(i, tab[t].purpose)
       THEN /\ challenge' = [challenge EXCEPT ![i].open = FALSE]
            /\ tab' = [tab EXCEPT ![t].at = "write"]
       ELSE Close(t) /\ UNCHANGED challenge
    /\ UNCHANGED <<web, backup, served>>

-----------------------------------------------------------------------------
(* What a consumed token opens. *)

Writes(t, p) == tab[t].at = "write" /\ tab[t].purpose = p
Serve(t) == served' = [served EXCEPT ![tab[t].token] = @ + 1]

SetOnboardingPassword(t) ==
    /\ Writes(t, "password")
    /\ web' = [web EXCEPT !.own = TRUE]
    /\ tab' = [tab EXCEPT ![t].at = "issue"]
    /\ Serve(t)
    /\ UNCHANGED <<challenge, backup>>

SetupTwoFactor(t) ==
    /\ Writes(t, "secret")
    /\ web' = [web EXCEPT !.secret = TRUE]
    /\ tab' = [tab EXCEPT ![t].at = "issue"]
    /\ Serve(t)
    /\ UNCHANGED <<challenge, backup>>

IssueNext(t) ==
    /\ tab[t].at = "issue" /\ tab[t].purpose \in {"password", "secret"}
    /\ Issue(IF tab[t].purpose = "password" THEN "secret" ELSE "check")
    /\ Close(t)
    /\ UNCHANGED <<web, backup, served>>

\* The account becomes active, with its backup codes, and a session is opened.
VerifyTwoFactorSetup(t) ==
    /\ Writes(t, "check")
    /\ web' = [web EXCEPT !.enabled = TRUE, !.temporary = FALSE, !.active = TRUE]
    /\ \E B \in SUBSET {b \in BackupCodes : backup[b] = "none"} :
           /\ Cardinality(B) = BackupCodeCount
           /\ backup' = [b \in BackupCodes |-> IF b \in B THEN "unused" ELSE backup[b]]
    /\ Serve(t)
    /\ Close(t)
    /\ UNCHANGED challenge

\* A session carries the version of the account at that instant.
OpenWebSession(t) ==
    /\ Writes(t, "twofa")
    /\ Serve(t)
    /\ Close(t)
    /\ UNCHANGED <<web, challenge, backup>>

\* Sessions opened before carry an older version and are refused.
ConfirmPasswordReset(t) ==
    /\ Writes(t, "reset") /\ web.version < MaxVersion
    /\ web' = [web EXCEPT !.own = TRUE, !.version = @ + 1]
    /\ Serve(t)
    /\ Close(t)
    /\ UNCHANGED <<challenge, backup>>

LogoutEverywhere ==
    /\ web.active /\ ~web.deleted /\ web.version < MaxVersion
    /\ web' = [web EXCEPT !.version = @ + 1]
    /\ UNCHANGED <<challenge, backup, tab, served>>

-----------------------------------------------------------------------------
(* The environment. *)

\* A process dies, or refuses a password or a step after consuming its token.
Drop(t) ==
    /\ ~IsFree(t)
    /\ Close(t)
    /\ UNCHANGED <<web, challenge, backup, served>>

ChallengeExpires ==
    /\ \E i \in Issued : challenge[i].open /\ challenge' = [challenge EXCEPT ![i].open = FALSE]
    /\ UNCHANGED <<web, backup, tab, served>>

\* The vote of module DeletionVote.
AccountDeleted ==
    /\ ~web.deleted
    /\ web' = [web EXCEPT !.deleted = TRUE, !.active = FALSE]
    /\ UNCHANGED <<challenge, backup, tab, served>>

WebNext ==
    \/ \E t \in Tabs :
           \/ Login(t) \/ FirstLogin(t) \/ VerifyPasswordReset(t) \/ SpendCode(t)
           \/ IssueReset(t)
           \/ ConsumeFirst(t) \/ ReadForCheck(t) \/ ReadForTwoFa(t) \/ ConsumeProven(t)
           \/ SetOnboardingPassword(t) \/ SetupTwoFactor(t) \/ IssueNext(t)
           \/ VerifyTwoFactorSetup(t) \/ OpenWebSession(t) \/ ConfirmPasswordReset(t)
           \/ Drop(t)
    \/ LogoutEverywhere \/ ChallengeExpires \/ AccountDeleted

WebSpec == WebInit /\ [][WebNext]_webVars

-----------------------------------------------------------------------------
(* Properties *)

WebTypeOK ==
    /\ web \in WebUser
    /\ challenge \in [Challenges -> ChallengeRow]
    /\ backup \in [BackupCodes -> {"none", "unused", "used"}]
    /\ tab \in [Tabs -> Tab]
    /\ served \in [Challenges -> Nat]

\* A token opens one thing at most, however many calls present it together and
\* in whatever order they check it and consume it (web-auth.service.ts:149, 208).
TokenServesOnce == \A i \in Challenges : served[i] <= 1

\* No step of the first login is skipped by calls that overlap, die or come back
\* with the token of an earlier flow: a token exists only when the steps before
\* it were written, and an account is only active with a password of its own, a
\* second factor and backup codes (web-auth.service.ts:407-484).
StepsInOrder ==
    LET issued(p) == \E i \in Challenges : challenge[i].purpose = p IN
    /\ issued("secret") => web.own
    /\ issued("check") => web.own /\ web.secret
    /\ web.active \/ issued("twofa") \/ issued("reset") =>
           /\ web.own /\ web.secret /\ web.enabled /\ ~web.temporary
           /\ \E b \in BackupCodes : backup[b] # "none"

=============================================================================

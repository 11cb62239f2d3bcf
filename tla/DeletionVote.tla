---------------------------- MODULE DeletionVote ----------------------------
(***************************************************************************)
(* The deletion of accounts of the back office (src/src/modules/web-auth,  *)
(* web-users.service.ts).  Accounts are created inactive by the            *)
(* Supervision and become active at the end of their first login.          *)
(* Deleting an administrator takes one member of the Supervision; deleting *)
(* a member takes the majority of the others, within 48 hours, on a        *)
(* request that its initiator or an administrator may cancel.              *)
(*                                                                         *)
(* A call checks the request, then writes: the vote under a unique index,  *)
(* the verdict without any condition on the status the request has by      *)
(* then.  The electorate is counted before the verdict is written: it      *)
(* shrinks meanwhile when another request deletes a voter, and grows when  *)
(* a new member ends his first login.                                      *)
(***************************************************************************)
EXTENDS Integers, FiniteSets

CONSTANTS
    Supervisors,    \* accounts of role SUPERVISION
    Root,           \* the one with isRoot
    Admins,         \* accounts of role ADMIN
    Demands,        \* rows of WebUserDeletionRequest that can be created (a bound)
    Calls,          \* calls in flight at the same time (a bound)
    Nobody          \* "no such row"

Members == Supervisors \cup Admins

ASSUME RootAssumption == Root \in Supervisors
ASSUME VotersAssumption == IsFiniteSet(Supervisors) /\ Supervisors \cap Admins = {}
ASSUME NobodyAssumption == Nobody \notin Members \cup Demands

VARIABLES
    webUser,    \* WebUser: not created, created, or active
    deleted,    \* accounts with deletedAt, which are inactive
    demand,     \* table WebUserDeletionRequest
    approvals,  \* table WebUserDeletionApproval: who approved each request
    ballot,     \* what each call has read
    verdicts    \* history variable: the statuses each request was ever given

voteVars == <<webUser, deleted, demand, approvals, ballot, verdicts>>

DemandStatuses == {"PENDING", "CONFIRMED", "CANCELLED", "EXPIRED"}
Demand == [target : Members, by : Members, status : DemandStatuses, past : BOOLEAN]

ASSUME NoDemandAssumption == Nobody \notin Demand

\* need is the majority that was counted; joined, a history variable, who became
\* a voter since.
Ballot == [at : {"idle", "create", "vote", "count", "tally", "confirm", "cancel", "expire"},
           on : Demands \cup {Nobody}, target : Members \cup {Nobody},
           voter : Members \cup {Nobody}, need : Nat, joined : SUBSET Supervisors]
Blank == [at |-> "idle", on |-> Nobody, target |-> Nobody, voter |-> Nobody,
          need |-> 0, joined |-> {}]

VoteInit ==
    /\ webUser = [m \in Members |-> IF m \in {Root} \cup Admins THEN "active" ELSE "none"]
    /\ deleted = {}
    /\ demand = [d \in Demands |-> Nobody]
    /\ approvals = [d \in Demands |-> {}]
    /\ ballot = [c \in Calls |-> Blank]
    /\ verdicts = [d \in Demands |-> {}]

Filed == {d \in Demands : demand[d] # Nobody}
Pending(d) == demand[d].status = "PENDING"
Here(m) == webUser[m] = "active" /\ m \notin deleted

EligibleVoters(target) == {s \in Supervisors : Here(s) /\ s # target}
\* Mutant: half of the voters is enough.
MajorityMutant(target) == Cardinality(EligibleVoters(target)) \div 2
Majority(target) == Cardinality(EligibleVoters(target)) \div 2 + 1

Silent(c) == ballot[c].at = "idle"
Done(c) == ballot' = [ballot EXCEPT ![c] = Blank]

\* A verdict is written by id.
Verdict(d, status) ==
    /\ demand' = [demand EXCEPT ![d].status = status]
    /\ verdicts' = [verdicts EXCEPT ![d] = @ \cup {status}]

-----------------------------------------------------------------------------
(* The accounts. *)

Provision ==
    /\ \E m \in Members, by \in Supervisors :
           /\ webUser[m] = "none" /\ Here(by)
           /\ webUser' = [webUser EXCEPT ![m] = "invited"]
    /\ UNCHANGED <<deleted, demand, approvals, ballot, verdicts>>

\* Calls between the count of the electorate and their verdict.
HasCounted(c) == ballot[c].at \in {"create", "tally", "confirm"}

\* verifyTwoFactorSetup ends a first login; it does not look at deletedAt.
Activate ==
    /\ \E m \in Members :
           /\ webUser[m] = "invited"
           /\ webUser' = [webUser EXCEPT ![m] = "active"]
           /\ ballot' = [c \in Calls |->
                  IF HasCounted(c)
                  THEN [ballot[c] EXCEPT !.joined = @ \cup ({m} \cap Supervisors)]
                  ELSE ballot[c]]
    /\ UNCHANGED <<deleted, demand, approvals, verdicts>>

-----------------------------------------------------------------------------
(* Asking for a deletion. *)

\* An account that is not active yet can be deleted.
MayInitiate(target, by) ==
    /\ Here(by) /\ by \in Supervisors
    /\ webUser[target] # "none" /\ target \notin deleted
    /\ target # Root /\ target # by
    /\ \A d \in Filed : ~(demand[d].target = target /\ Pending(d))

ReadForInitiate(c) ==
    /\ Silent(c)
    /\ \E target \in Members, by \in Supervisors :
           /\ MayInitiate(target, by)
           /\ ballot' = [ballot EXCEPT ![c] =
                  [at |-> "create", on |-> Nobody, target |-> target, voter |-> by,
                   need |-> IF target \in Admins THEN 1 ELSE Majority(target), joined |-> {}]]
    /\ UNCHANGED <<webUser, deleted, demand, approvals, verdicts>>

\* One transaction: the request, the vote of its initiator and, when that vote
\* is enough, the deletion.
CommitInitiate(c) ==
    LET b == ballot[c]
        status == IF b.need <= 1 THEN "CONFIRMED" ELSE "PENDING"
    IN
    /\ b.at = "create"
    /\ \E d \in Demands \ Filed :
           /\ demand' = [demand EXCEPT ![d] =
                  [target |-> b.target, by |-> b.voter, status |-> status, past |-> FALSE]]
           /\ approvals' = [approvals EXCEPT ![d] = {b.voter}]
           /\ verdicts' = [verdicts EXCEPT ![d] = {status}]
    /\ deleted' = IF b.need <= 1 THEN deleted \cup {b.target} ELSE deleted
    /\ Done(c)
    /\ UNCHANGED webUser

-----------------------------------------------------------------------------
(* Approving it. *)

\* A request whose time is over is marked as expired instead.
ReadForApprove(c) ==
    /\ Silent(c)
    /\ \E d \in Filed, voter \in Supervisors :
           /\ Here(voter) /\ Pending(d) /\ ~demand[d].past
           /\ voter # demand[d].target /\ voter \notin approvals[d]
           /\ ballot' = [ballot EXCEPT ![c] =
                  [Blank EXCEPT !.at = "vote", !.on = d, !.voter = voter]]
    /\ UNCHANGED <<webUser, deleted, demand, approvals, verdicts>>

\* The unique index refuses a second vote of the same member.
InsertVote(c) ==
    LET b == ballot[c] IN
    /\ b.at = "vote"
    /\ IF b.voter \in approvals[b.on]
       THEN Done(c) /\ UNCHANGED approvals
       ELSE /\ approvals' = [approvals EXCEPT ![b.on] = @ \cup {b.voter}]
            /\ ballot' = [ballot EXCEPT ![c].at = "count"]
    /\ UNCHANGED <<webUser, deleted, demand, verdicts>>

CountVoters(c) ==
    /\ ballot[c].at = "count"
    /\ ballot' = [ballot EXCEPT ![c].at = "tally",
                                ![c].need = Majority(demand[ballot[c].on].target)]
    /\ UNCHANGED <<webUser, deleted, demand, approvals, verdicts>>

CountVotes(c) ==
    LET d == ballot[c].on IN
    /\ ballot[c].at = "tally"
    /\ IF Cardinality(approvals[d]) >= ballot[c].need
       THEN ballot' = [ballot EXCEPT ![c].at = "confirm"]
       ELSE Done(c)
    /\ UNCHANGED <<webUser, deleted, demand, approvals, verdicts>>

CommitApprove(c) ==
    LET d == ballot[c].on IN
    /\ ballot[c].at = "confirm"
    /\ deleted' = deleted \cup {demand[d].target}
    /\ Verdict(d, "CONFIRMED")
    /\ Done(c)
    /\ UNCHANGED <<webUser, approvals>>

-----------------------------------------------------------------------------
(* Ending it otherwise. *)

ReadForCancel(c) ==
    /\ Silent(c)
    /\ \E d \in Filed, actor \in Members :
           /\ Here(actor) /\ Pending(d)
           /\ actor = demand[d].by \/ actor \in Admins
           /\ ballot' = [ballot EXCEPT ![c] =
                  [Blank EXCEPT !.at = "cancel", !.on = d, !.voter = actor]]
    /\ UNCHANGED <<webUser, deleted, demand, approvals, verdicts>>

CommitCancel(c) ==
    /\ ballot[c].at = "cancel"
    /\ Verdict(ballot[c].on, "CANCELLED")
    /\ Done(c)
    /\ UNCHANGED <<webUser, deleted, approvals>>

\* expireIfNeeded, in whichever call reads the request.
ReadForExpiry(c) ==
    /\ Silent(c)
    /\ \E d \in Filed :
           /\ Pending(d) /\ demand[d].past
           /\ ballot' = [ballot EXCEPT ![c] = [Blank EXCEPT !.at = "expire", !.on = d]]
    /\ UNCHANGED <<webUser, deleted, demand, approvals, verdicts>>

CommitExpiry(c) ==
    /\ ballot[c].at = "expire"
    /\ Verdict(ballot[c].on, "EXPIRED")
    /\ Done(c)
    /\ UNCHANGED <<webUser, deleted, approvals>>

TimeIsOver ==
    /\ \E d \in Filed : ~demand[d].past /\ demand' = [demand EXCEPT ![d].past = TRUE]
    /\ UNCHANGED <<webUser, deleted, approvals, ballot, verdicts>>

CallDies(c) ==
    /\ ~Silent(c)
    /\ Done(c)
    /\ UNCHANGED <<webUser, deleted, demand, approvals, verdicts>>

VoteNext ==
    \/ \E c \in Calls :
           \/ ReadForInitiate(c) \/ CommitInitiate(c) \/ ReadForApprove(c) \/ InsertVote(c)
           \/ CountVoters(c) \/ CountVotes(c) \/ CommitApprove(c) \/ ReadForCancel(c) \/ CommitCancel(c)
           \/ ReadForExpiry(c) \/ CommitExpiry(c) \/ CallDies(c)
    \/ Provision \/ Activate \/ TimeIsOver

VoteSpec == VoteInit /\ [][VoteNext]_voteVars

-----------------------------------------------------------------------------
(* Properties *)

VoteTypeOK ==
    /\ webUser \in [Members -> {"none", "invited", "active"}]
    /\ deleted \subseteq Members
    /\ demand \in [Demands -> Demand \cup {Nobody}]
    /\ approvals \in [Demands -> SUBSET Supervisors]
    /\ ballot \in [Calls -> Ballot]
    /\ verdicts \in [Demands -> SUBSET DemandStatuses]

\* The accounts that go in this step, and whether those who approved the request
\* of the call that deletes them are a majority among these voters.
Going == (deleted' \ deleted) \cap Supervisors
Approved(s, voters) ==
    \E d \in Demands :
        /\ demand'[d] # Nobody /\ demand'[d].target = s /\ s \notin approvals'[d]
        /\ 2 * Cardinality(approvals'[d]) > Cardinality(voters)

ByMajority ==
    \A s \in Going :
        /\ s # Root
        /\ \E c \in Calls :
               /\ ballot[c] # ballot'[c]
               /\ Approved(s, EligibleVoters(s) \ ballot[c].joined)

\* Whatever requests and votes overlap, expire or are cancelled, and whoever joins
\* or leaves the Supervision, a member is only deleted with the approval of a
\* majority of the others; those who became voters after the deleting call had
\* counted them are left out.  The root account never is (web-users.service.ts:138,
\* 246).
DeletedByMajority == [][ByMajority]_voteVars

\* « vote à la majorité des comptes Supervision actifs (hors la cible) »: of those
\* that are active when it deletes (web-users.service.ts:79).
DeletedByMajorityOfAll ==
    [][\A s \in Going : Approved(s, EligibleVoters(s))]_voteVars

\* « Cette demande a déjà été traitée »: a request that was cancelled, or that
\* expired, deletes nobody afterwards (web-users.service.ts:225, schema.prisma:815).
TreatedOnce ==
    \A d \in Demands : Cardinality(verdicts[d] \ {"PENDING"}) <= 1

=============================================================================

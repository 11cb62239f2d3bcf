------------------------------ MODULE Feedback ------------------------------
(***************************************************************************)
(* What a student says of an order once he has it: reports, which a web    *)
(* administrator treats, and reviews (src/src/modules/reports, reviews).   *)
(*                                                                         *)
(* A report is created in one transaction that locks the row of the order, *)
(* so it is one action.  Treating it, and writing a review, read first and *)
(* write later by id.  The life of an order is module Orders; here its     *)
(* status moves on by itself.  What is said, and its kind, is left out.    *)
(***************************************************************************)
EXTENDS FiniteSets, Naturals

CONSTANTS
    OrderIds,       \* orders
    Buyer, Cook,    \* the student and the canteen of each order
    ReportIds, ReviewIds,   \* rows that can be created (bounds)
    Writers,        \* calls in flight at the same time (a bound)
    NoOrder         \* "no such row"

Buyers == {Buyer[o] : o \in OrderIds}
Cooks == {Cook[o] : o \in OrderIds}

ASSUME FeedbackAssumption ==
    /\ Buyer \in [OrderIds -> Buyers] /\ Cook \in [OrderIds -> Cooks]
    /\ NoOrder \notin OrderIds \cup ReportIds \cup ReviewIds \cup Buyers \cup Cooks

VARIABLES
    status,     \* Order.status
    report,     \* table Report
    review,     \* table Review
    draft,      \* what each call has read
    reopened    \* history variable: reports that were RESOLVED and are not

feedbackVars == <<status, report, review, draft, reopened>>

OrderStatuses == {"CONFIRMED", "IN_PREPARATION", "READY", "RECEIVED", "CANCELLED"}
ReportStatuses == {"OPEN", "IN_PROGRESS", "RESOLVED"}

\* dated: resolvedAt is set.
Report == [order : OrderIds \cup {NoOrder}, status : ReportStatuses, dated : BOOLEAN]
NoReport == [order |-> NoOrder, status |-> "OPEN", dated |-> FALSE]

Review == [order : OrderIds \cup {NoOrder}, student : Buyers \cup {NoOrder},
           vendor : Cooks \cup {NoOrder}]
NoReview == [order |-> NoOrder, student |-> NoOrder, vendor |-> NoOrder]

Draft == [at : {"idle", "treat", "review"}, on : ReportIds \cup OrderIds \cup {NoOrder},
          status : ReportStatuses, dates : BOOLEAN]
NoDraft == [at |-> "idle", on |-> NoOrder, status |-> "OPEN", dates |-> FALSE]

FeedbackInit ==
    /\ status = [o \in OrderIds |-> "CONFIRMED"]
    /\ report = [i \in ReportIds |-> NoReport]
    /\ review = [w \in ReviewIds |-> NoReview]
    /\ draft = [d \in Writers |-> NoDraft]
    /\ reopened = {}

Reported == {i \in ReportIds : report[i] # NoReport}
Reviewed == {w \in ReviewIds : review[w] # NoReview}

-----------------------------------------------------------------------------
(* Reports. *)

Reportable(o) == status[o] \in {"READY", "RECEIVED"}

Untreated(i) == report[i].status # "RESOLVED"

\* Mutant: only a report that nobody looks at yet keeps others away.
CreateReportMutant ==
    /\ \E o \in OrderIds, i \in ReportIds \ Reported :
           /\ Reportable(o)
           /\ ~ \E j \in Reported : report[j].order = o /\ report[j].status = "OPEN"
           /\ report' = [report EXCEPT ![i] = [NoReport EXCEPT !.order = o]]
    /\ UNCHANGED <<status, review, draft, reopened>>
CreateReport ==
    /\ \E o \in OrderIds, i \in ReportIds \ Reported :
           /\ Reportable(o)
           /\ ~ \E j \in Reported : report[j].order = o /\ Untreated(j)
           /\ report' = [report EXCEPT ![i] = [NoReport EXCEPT !.order = o]]
    /\ UNCHANGED <<status, review, draft, reopened>>

\* update, up to the write: any status may be asked for.
ReadForTreat(d) ==
    /\ draft[d].at = "idle"
    /\ \E i \in Reported, s \in ReportStatuses :
           draft' = [draft EXCEPT ![d] =
               [at |-> "treat", on |-> i, status |-> s,
                dates |-> s = "RESOLVED" /\ ~report[i].dated]]
    /\ UNCHANGED <<status, report, review, reopened>>

Treat(d) ==
    LET i == draft[d].on
        s == draft[d].status
    IN
    /\ draft[d].at = "treat"
    /\ report' = [report EXCEPT ![i].status = s, ![i].dated = @ \/ draft[d].dates]
    /\ reopened' = IF s = "RESOLVED" THEN reopened \ {i}
                   ELSE IF Untreated(i) THEN reopened ELSE reopened \cup {i}
    /\ draft' = [draft EXCEPT ![d] = NoDraft]
    /\ UNCHANGED <<status, review>>

-----------------------------------------------------------------------------
(* Reviews. *)

ReviewEligible(o) == status[o] = "RECEIVED"

\* The student names the order and its canteen; only his own orders pass.
ReadForReview(d) ==
    /\ draft[d].at = "idle"
    /\ \E o \in OrderIds :
           /\ ReviewEligible(o)
           /\ \A w \in Reviewed : review[w].order # o
           /\ draft' = [draft EXCEPT ![d] = [NoDraft EXCEPT !.at = "review", !.on = o]]
    /\ UNCHANGED <<status, report, review, reopened>>

\* Review.orderId is unique: the insertion fails if another came first.
CreateReview(d) ==
    LET o == draft[d].on IN
    /\ draft[d].at = "review"
    /\ IF \E w \in Reviewed : review[w].order = o
       THEN UNCHANGED review
       ELSE \E w \in ReviewIds \ Reviewed :
                review' = [review EXCEPT ![w] =
                              [order |-> o, student |-> Buyer[o], vendor |-> Cook[o]]]
    /\ draft' = [draft EXCEPT ![d] = NoDraft]
    /\ UNCHANGED <<status, report, reopened>>

\* UpdateReviewDto has every field of CreateReviewDto, the order and the canteen
\* among them.  The author never changes, and nobody else is let in.
UpdateReview ==
    /\ \E w \in Reviewed, o \in OrderIds, v \in Cooks :
           /\ \A x \in Reviewed \ {w} : review[x].order # o
           /\ review' = [review EXCEPT ![w].order = o, ![w].vendor = v]
    /\ UNCHANGED <<status, report, draft, reopened>>

-----------------------------------------------------------------------------
(* The order moves on (module Orders): a cancellation comes before READY. *)

OrderGoesOn ==
    /\ \E o \in OrderIds, s \in OrderStatuses :
           /\ <<status[o], s>> \in
                  {<<"CONFIRMED", "IN_PREPARATION">>, <<"IN_PREPARATION", "READY">>,
                   <<"READY", "RECEIVED">>, <<"CONFIRMED", "CANCELLED">>,
                   <<"IN_PREPARATION", "CANCELLED">>}
           /\ status' = [status EXCEPT ![o] = s]
    /\ UNCHANGED <<report, review, draft, reopened>>

FeedbackNext ==
    \/ CreateReport \/ UpdateReview \/ OrderGoesOn
    \/ \E d \in Writers :
           ReadForTreat(d) \/ Treat(d) \/ ReadForReview(d) \/ CreateReview(d)

FeedbackSpec == FeedbackInit /\ [][FeedbackNext]_feedbackVars

-----------------------------------------------------------------------------
(* Properties *)

FeedbackTypeOK ==
    /\ status \in [OrderIds -> OrderStatuses]
    /\ report \in [ReportIds -> Report]
    /\ review \in [ReviewIds -> Review]
    /\ draft \in [Writers -> Draft]
    /\ reopened \subseteq ReportIds

\* « Un seul signalement non traité par commande » (reports.service.ts:49): of
\* the reports of an order that wait for their treatment, all but one were
\* resolved once and put back to work by an administrator, however many students'
\* calls and treatments overlap.
OneReportAtATime ==
    \A o \in OrderIds :
        Cardinality({i \in Reported \ reopened : report[i].order = o /\ Untreated(i)}) <= 1

\* A resolved report tells when, whatever two administrators asked of it at the
\* same time (reports.service.ts:215): the mean delay of getStats counts it.
ResolvedIsDated == \A i \in Reported : ~Untreated(i) => report[i].dated

\* The reports of an order stay in order under overlapping treatments: one that
\* waits at a time, and a date on each one that is resolved (reports.service.ts:49,
\* 215).
ReportsInOrder == OneReportAtATime /\ ResolvedIsDated

=============================================================================

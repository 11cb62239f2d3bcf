------------------------------ MODULE Reporting ------------------------------
(***************************************************************************)
(* The figures that are shown to the canteen, the administration and the   *)
(* supervision (vendors.getSales and findMe, analytics/*, transactions     *)
(* .getStats, admin.getSupervisionStats): each is a pure function of the   *)
(* tables and of a range of dates.  The tables live here as Orders,        *)
(* Payments and Withdrawals let them, only with their dates.               *)
(*                                                                         *)
(* Time is counted in half days, in UTC, day 0 being any day; the weeks    *)
(* and months that PostgreSQL truncates to start on days of the calendar.  *)
(* Amounts of the breakdown are in a unit small enough for the real cost   *)
(* of a recharge, tickets / (1 - rate), to be a number of them.  Names,    *)
(* campuses and rounding are left out, and so is the cache of ten seconds, *)
(* which only delays what is shown.                                        *)
(***************************************************************************)
EXTENDS Integers, FiniteSets, FiniteSetsExt, Sums

CONSTANTS
    Canteens,       \* Vendor rows
    Bills, TopUps, Payouts, Ratings,    \* rows that can be created (bounds)
    Tickets,        \* totalTickets of each order
    Gross, RealCost, \* amountFcfa of each kind of recharge, and what it costs
    CoveredFee,     \* platformCoveredWithdrawalFee of each withdrawal
    LastDay,        \* days that time runs through (a bound)
    WeekStarts, MonthStarts,            \* days on which a week, a month starts
    MaxDailyBuckets \* MAX_DAILY_BUCKETS: 92

ASSUME CalendarAssumption ==
    /\ LastDay \in Nat /\ MaxDailyBuckets \in Nat \ {0}
    /\ \A starts \in {WeekStarts, MonthStarts} :
           starts \subseteq Int /\ \E d \in starts : d <= 0

ASSUME TablesAssumption ==
    /\ IsFiniteSet(Canteens) /\ IsFiniteSet(Bills)
    /\ IsFiniteSet(TopUps) /\ IsFiniteSet(Payouts) /\ IsFiniteSet(Ratings)
    /\ Tickets \in [Bills -> Nat]
    /\ Gross \in [1 .. 5 -> Nat] /\ RealCost \in [1 .. 5 -> Nat]
    /\ CoveredFee \in [Payouts -> Nat]

Days == 0 .. LastDay
Instants == 0 .. 2 * LastDay + 1
DayOf(i) == i \div 2
StartOf(d) == 2 * d
EndOf(d) == 2 * d + 1
Never == -1

VARIABLES
    now,        \* the present instant
    bill,       \* table Order
    topUp,      \* table Payment, successful ones
    payout,     \* table Withdrawal, completed ones
    rating      \* table Review

reportVars == <<now, bill, topUp, payout, rating>>

Bill == [canteen : Canteens, status : {"none", "CONFIRMED", "IN_PREPARATION", "READY",
                                       "RECEIVED", "CANCELLED"},
         createdAt : Instants \cup {Never}, readyAt : Instants \cup {Never},
         cancelledAt : Instants \cup {Never}]

Dated == [at : Instants \cup {Never}, kind : 1 .. 5]

ReportInit ==
    /\ now = 0
    /\ bill \in [Bills -> {b \in Bill : b.status = "none" /\ b.createdAt = Never
                               /\ b.readyAt = Never /\ b.cancelledAt = Never}]
    /\ topUp = [p \in TopUps |-> [at |-> Never, kind |-> 1]]
    /\ payout = [w \in Payouts |-> [at |-> Never, kind |-> 1]]
    /\ rating = [r \in Ratings |-> [at |-> Never, kind |-> 1]]

-----------------------------------------------------------------------------
(* What happens to the tables (modules Orders, Payments, Withdrawals,      *)
(* Feedback), at the present instant.                                      *)

Place == \E o \in Bills :
    /\ bill[o].status = "none"
    /\ bill' = [bill EXCEPT ![o].status = "CONFIRMED", ![o].createdAt = now]
    /\ UNCHANGED <<now, topUp, payout, rating>>

GoOn == \E o \in Bills :
    /\ \/ /\ bill[o].status = "CONFIRMED"
          /\ bill' = [bill EXCEPT ![o].status = "IN_PREPARATION"]
       \/ /\ bill[o].status = "IN_PREPARATION"
          /\ bill' = [bill EXCEPT ![o].status = "READY", ![o].readyAt = now]
       \/ /\ bill[o].status = "READY"
          /\ bill' = [bill EXCEPT ![o].status = "RECEIVED"]
       \/ /\ bill[o].status \in {"CONFIRMED", "IN_PREPARATION"}
          /\ bill' = [bill EXCEPT ![o].status = "CANCELLED", ![o].cancelledAt = now]
    /\ UNCHANGED <<now, topUp, payout, rating>>

Move ==
    /\ \/ \E p \in TopUps, k \in 1 .. 2 :
              /\ topUp[p].at = Never /\ topUp' = [topUp EXCEPT ![p] = [at |-> now, kind |-> k]]
              /\ UNCHANGED <<payout, rating>>
       \/ \E w \in Payouts :
              /\ payout[w].at = Never /\ payout' = [payout EXCEPT ![w].at = now]
              /\ UNCHANGED <<topUp, rating>>
       \/ \E r \in Ratings, k \in {2, 5} :
              /\ rating[r].at = Never /\ rating' = [rating EXCEPT ![r] = [at |-> now, kind |-> k]]
              /\ UNCHANGED <<topUp, payout>>
    /\ UNCHANGED <<now, bill>>

Tick ==
    /\ now < 2 * LastDay + 1
    /\ now' = now + 1
    /\ UNCHANGED <<bill, topUp, payout, rating>>

ReportNext == Place \/ GoOn \/ Move \/ Tick

ReportSpec == ReportInit /\ [][ReportNext]_reportVars

-----------------------------------------------------------------------------
(* Ranges. *)

Within(i, range) == i # Never /\ range.since <= i /\ i <= range.until

\* resolveUtcRange, and the first lines of getSales: whole days, both included.
UtcRange(from, to) == [since |-> StartOf(from), until |-> EndOf(to)]
DayKeys(range) == DayOf(range.since) .. DayOf(range.until)

\* resolveRange of the analytics: the last days up to now, or from an instant of
\* the calendar to the end of a day.
RangeOfDays(count) == [since |-> now - StartOf(count), until |-> now]
RangeFrom(from, to) == [since |-> from, until |-> EndOf(to)]

\* buildDayKeys: the last days of the range, when it has too many for a chart.
Shown(range) ==
    LET d == DayOf(range.until) IN
    {k \in DayKeys(range) : k > d - MaxDailyBuckets}

-----------------------------------------------------------------------------
(* Sales of a canteen (getSales). *)

PeriodOf(groupBy, d) ==
    IF groupBy = "day" THEN d
    ELSE Max({s \in (IF groupBy = "week" THEN WeekStarts ELSE MonthStarts) : s <= d})

\* Mutant: the period of the last day is left out.
PeriodsMutant(groupBy, range) ==
    LET first == PeriodOf(groupBy, DayOf(range.since))
        last  == PeriodOf(groupBy, DayOf(range.until))
    IN  {p \in (CASE groupBy = "day" -> Days
                  [] groupBy = "week" -> WeekStarts
                  [] OTHER -> MonthStarts) : first <= p /\ p < last}

\* generate_series, from the period of the first day to that of the last.
Periods(groupBy, range) ==
    LET first == PeriodOf(groupBy, DayOf(range.since))
        last  == PeriodOf(groupBy, DayOf(range.until))
    IN  {p \in (CASE groupBy = "day" -> Days
                  [] groupBy = "week" -> WeekStarts
                  [] OTHER -> MonthStarts) : first <= p /\ p <= last}

Credited(o) == bill[o].status \in {"READY", "RECEIVED"}

TicketsOf(rows) == SumOf([o \in rows |-> Tickets[o]])

CollectedIn(v, groupBy, range) ==
    [p \in Periods(groupBy, range) |->
        {o \in Bills : /\ bill[o].canteen = v /\ Credited(o) /\ Within(bill[o].readyAt, range)
                       /\ PeriodOf(groupBy, DayOf(bill[o].readyAt)) = p}]

CancelledIn(v, groupBy, range) ==
    [p \in Periods(groupBy, range) |->
        {o \in Bills : /\ bill[o].canteen = v /\ bill[o].status = "CANCELLED"
                       /\ Within(bill[o].cancelledAt, range)
                       /\ PeriodOf(groupBy, DayOf(bill[o].cancelledAt)) = p}]

\* The summary adds the periods up.
Sales(v, groupBy, range) ==
    LET sold == CollectedIn(v, groupBy, range)
        back == CancelledIn(v, groupBy, range)
    IN  [collectedTickets |-> SumOf([p \in DOMAIN sold |-> TicketsOf(sold[p])]),
         refundedTickets |-> SumOf([p \in DOMAIN back |-> TicketsOf(back[p])]),
         creditedOrders |-> SumOf([p \in DOMAIN sold |-> Cardinality(sold[p])])]

-----------------------------------------------------------------------------
(* Orders seen by the administration. *)

CreatedOn(d, range) ==
    {o \in Bills : Within(bill[o].createdAt, range) /\ DayOf(bill[o].createdAt) = d}
\* Mutant: revenue belongs to the day of the order.
CreditedOnMutant(d, range) ==
    {o \in Bills : Credited(o) /\ Within(bill[o].createdAt, range)
                       /\ DayOf(bill[o].createdAt) = d}
CreditedOn(d, range) ==
    {o \in Bills : Credited(o) /\ Within(bill[o].readyAt, range) /\ DayOf(bill[o].readyAt) = d}

\* summarizeOrders
OrdersSummary(range) ==
    LET counted == UNION {CreatedOn(d, range) : d \in DayKeys(range)} IN
    [orders |-> Cardinality(counted),
     received |-> Cardinality({o \in counted : bill[o].status = "RECEIVED"}),
     cancelled |-> Cardinality({o \in counted : bill[o].status = "CANCELLED"}),
     revenueTickets |-> SumOf([d \in DayKeys(range) |-> TicketsOf(CreditedOn(d, range))]),
     daily |-> [d \in DayKeys(range) |->
                   [orders |-> Cardinality(CreatedOn(d, range)),
                    revenueTickets |-> TicketsOf(CreditedOn(d, range))]]]

OrdersOf(v, range) == {o \in Bills : bill[o].canteen = v /\ Within(bill[o].createdAt, range)}

\* The canteens with the most orders, among those that have any: what sort and
\* slice(0, limit) leave, equals being in the order of the database, which is any.
TopCanteens(limit, range) ==
    LET all == [v \in {u \in Canteens : OrdersOf(u, range) # {}} |->
                   Cardinality(OrdersOf(v, range))]
        Best(K) == IF Cardinality(DOMAIN all) <= limit THEN K = DOMAIN all
                   ELSE /\ Cardinality(K) = limit
                        /\ \A v \in K, u \in DOMAIN all \ K : all[v] >= all[u]
    IN  {[v \in K |-> all[v]] : K \in {J \in SUBSET DOMAIN all : Best(J)}}

\* The orders of each canteen, and those among them that are decided.
VendorPerformance(range) ==
    [v \in {u \in Canteens : OrdersOf(u, range) # {}} |->
        [orders |-> Cardinality(OrdersOf(v, range)),
         decided |-> Cardinality({o \in OrdersOf(v, range) :
                                     bill[o].status \in {"RECEIVED", "CANCELLED"}})]]

\* Money that waits for READY (findMe for a canteen, getStats for all of them).
PendingOf(v) == TicketsOf({o \in Bills :
    bill[o].canteen = v /\ bill[o].status \in {"CONFIRMED", "IN_PREPARATION"}})

LedgerStats ==
    [pending |-> TicketsOf({o \in Bills : bill[o].status \in {"CONFIRMED", "IN_PREPARATION"}}),
     debitsCompleted |-> TicketsOf({o \in Bills : Credited(o)}),
     refunds |-> TicketsOf({o \in Bills : bill[o].status = "CANCELLED"})]

SupervisionRevenue == TicketsOf({o \in Bills : Credited(o)})

-----------------------------------------------------------------------------
(* Money in and out (getRevenueBreakdown, getStudentBehavior). *)

Surplus(p) == Gross[topUp[p].kind] - RealCost[topUp[p].kind]

ToppedUp(range) == {p \in TopUps : Within(topUp[p].at, range)}
PaidOut(range) == {w \in Payouts : Within(payout[w].at, range)}

GrossOf(rows) == SumOf([p \in rows |-> Gross[topUp[p].kind]])
NetOf(recharges, withdrawals) ==
    Total([p \in recharges |-> Surplus(p)]) - SumOf([w \in withdrawals |-> CoveredFee[w]])

RevenueBreakdown(range) ==
    [rechargesGross |-> GrossOf(ToppedUp(range)),
     net |-> NetOf(ToppedUp(range), PaidOut(range)),
     dailyNet |-> [d \in Shown(range) |->
         NetOf({p \in ToppedUp(range) : DayOf(topUp[p].at) = d},
               {w \in PaidOut(range) : DayOf(payout[w].at) = d})]]

\* dailyRecharges: the window's payments, from the first day of the chart on.
DailyRecharges(range) ==
    [d \in Shown(range) |-> GrossOf({p \in ToppedUp(range) : DayOf(topUp[p].at) = d})]

\* getReviewsQuality
ReviewsQuality(range) ==
    LET window == {r \in Ratings : Within(rating[r].at, range)} IN
    [totalReviews |-> Cardinality(window),
     distribution |-> [k \in 1 .. 5 |-> Cardinality({r \in window : rating[r].kind = k})],
     dailyCount |-> [d \in Shown(range) |->
         Cardinality({r \in window : DayOf(rating[r].at) = d})]]

-----------------------------------------------------------------------------
(* Properties *)

ReportTypeOK ==
    /\ now \in Instants
    /\ bill \in [Bills -> Bill]
    /\ topUp \in [TopUps -> Dated] /\ payout \in [Payouts -> Dated]
    /\ rating \in [Ratings -> Dated]

Grouping == {"day", "week", "month"}

\* The ranges that end today or before; what is asked of the future is empty.
Today == DayOf(now)
DayRanges == UNION {{UtcRange(f, t) : t \in f .. Today} : f \in 0 .. Today}
AnalyticsRanges ==
    {RangeOfDays(n) : n \in 1 .. Today + 1} \cup
    UNION {{RangeFrom(f, t) : t \in {u \in 0 .. Today : f <= EndOf(u)}} : f \in 0 .. now}

\* Whatever the grouping, partial weeks and months included, what the canteens see
\* as collected is what the administration sees as revenue of the same days
\* (vendors.service.ts:337, orders-stats.ts:17), and what waits in each canteen is
\* what waits in the ledger (vendors.service.ts:471, transactions.service.ts:81).
SalesAgree ==
    /\ \A range \in DayRanges, groupBy \in Grouping :
           SumOf([v \in Canteens |-> Sales(v, groupBy, range).collectedTickets])
               = OrdersSummary(range).revenueTickets
    /\ LET all == UtcRange(0, Today) IN
       /\ OrdersSummary(all).revenueTickets = SupervisionRevenue
       /\ SupervisionRevenue = LedgerStats.debitsCompleted
       /\ SumOf([v \in Canteens |-> Sales(v, "month", all).refundedTickets])
              = LedgerStats.refunds
    /\ SumOf([v \in Canteens |-> PendingOf(v)]) = LedgerStats.pending

\* A chart by day adds up to the total beside it, in every range that the chart
\* shows whole: from any hour to the end of any day, or the last days up to now
\* (analytics.service.ts:35, 71).
ChartsAddUp ==
    \A range \in AnalyticsRanges :
        Shown(range) = DayKeys(range) =>
            /\ Total(RevenueBreakdown(range).dailyNet) = RevenueBreakdown(range).net
            /\ Total(DailyRecharges(range)) = RevenueBreakdown(range).rechargesGross
            /\ LET reviews == ReviewsQuality(range) IN
               /\ Total(reviews.dailyCount) = reviews.totalReviews
               /\ Total(reviews.distribution) = reviews.totalReviews

\* The orders of the day of instant f that the analytics leave out when they are
\* asked for from f on, where the summary takes the whole day.
EarlierThatDay(f) == {o \in Bills : bill[o].createdAt \in StartOf(DayOf(f)) .. f - 1}

\* What the screens say of the orders placed between two dates that all of them are
\* given, from instant f to day t: the tables of the canteens add up to the summary,
\* but for the first hours of the first day where f is not its start; and the ranking
\* is that of the tables, whole where the limit is not reached, and leaving out none
\* that has more than one it lists (analytics.service.ts:35, 125, 240).
RankingsAgree ==
    \A f \in 0 .. now : \A t \in {u \in 0 .. Today : f <= EndOf(u)} :
        LET placed == OrdersSummary(UtcRange(DayOf(f), t))
            canteens == VendorPerformance(RangeFrom(f, t))
            orders == [v \in DOMAIN canteens |-> canteens[v].orders]
            decided == {o \in EarlierThatDay(f) : bill[o].status \in {"RECEIVED", "CANCELLED"}}
        IN  /\ Total(orders) + Cardinality(EarlierThatDay(f)) = placed.orders
            /\ Total([v \in DOMAIN canteens |-> canteens[v].decided]) + Cardinality(decided)
                   = placed.received + placed.cancelled
            /\ \A limit \in 1 .. Cardinality(Canteens) :
                   \A top \in TopCanteens(limit, RangeFrom(f, t)) :
                       /\ Cardinality(DOMAIN canteens) <= limit => Total(top) = Total(orders)
                       /\ \A v \in DOMAIN top, u \in DOMAIN canteens \ DOMAIN top :
                              top[v] >= orders[u]

NoRows ==
    /\ \A o \in Bills : bill[o].status = "none"
    /\ \A p \in TopUps : topUp[p].at = Never
    /\ \A w \in Payouts : payout[w].at = Never
    /\ \A r \in Ratings : rating[r].at = Never

\* As soon as there is something to count, the screens agree with one another and
\* with their charts.
FiguresAgree == NoRows \/ (SalesAgree /\ ChartsAddUp /\ RankingsAgree)

\* The revenue of a day that is over never changes, for a canteen or for all of
\* them: it belongs to the day on which the order was ready, not to the day of the
\* order, whose counters still move (orders-stats.ts:17).
PastRevenueIsFinal ==
    [][\A d \in Days : d < Today =>
           LET day == UtcRange(d, d) IN
           /\ OrdersSummary(day)'.revenueTickets = OrdersSummary(day).revenueTickets
           /\ \A v \in Canteens :
                  Sales(v, "day", day)'.creditedOrders = Sales(v, "day", day).creditedOrders
      ]_reportVars

=============================================================================

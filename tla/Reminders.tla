------------------------------ MODULE Reminders ------------------------------
(***************************************************************************)
(* The reminder « Programme ton repas » of every third day                 *)
(* (src/src/modules/notifications: scheduling-reminders.service.ts and its *)
(* constants).  A cron job passes once a day, at an hour that varies: it   *)
(* reads the eligible students by batches, in the order of their ids, up   *)
(* to a limit, and reminds each of them, then writes down the hour at      *)
(* which the pass began.                                                   *)
(*                                                                         *)
(* Time is relative: for each student, the hours between what is written   *)
(* down and the present pass, counted up to a cap from which nothing       *)
(* changes any more.  A day without a pass, a pass that dies, and a        *)
(* reminder or a writing that fails are possible.  Two passes on one day   *)
(* are not: the comment of the constants supposes one.                     *)
(***************************************************************************)
EXTENDS Integers, FiniteSets

CONSTANTS
    StudentCount,   \* students, whose ids are in order (a bound)
    IntervalDays,   \* SCHEDULING_REMINDER_INTERVAL_DAYS: 3
    ToleranceHours, \* SCHEDULING_REMINDER_TOLERANCE_HOURS: 6
    BatchSize,      \* SCHEDULING_REMINDER_BATCH_SIZE
    PassLimit,      \* SCHEDULING_REMINDER_PASS_LIMIT
    Offsets         \* hours of the day at which a pass may begin

ASSUME ReminderAssumption ==
    /\ StudentCount \in Nat /\ IntervalDays \in Nat \ {0}
    /\ ToleranceHours \in Nat /\ BatchSize \in Nat \ {0} /\ PassLimit \in Nat
    /\ Offsets \subseteq 0 .. 23 /\ Offsets # {}

(* « L'heure du passage varie de quelques secondes à quelques minutes d'un *)
(* jour à l'autre » (scheduling-reminders.constants.ts:5).                 *)
ASSUME HoursAssumption ==
    \A hour, other \in Offsets :
        hour - other <= ToleranceHours /\ hour - other < 24 - ToleranceHours

StudentIds == 1 .. StudentCount

\* Mutant: no tolerance.
EligibleAfterMutant == IntervalDays * 24
EligibleAfter == IntervalDays * 24 - ToleranceHours

\* The age of what was written down, or of nothing, is no more than this.
Oldest == IntervalDays * 24 + 24
LongAgo == IntervalDays + 1

VARIABLES
    offset,     \* the hour of today's pass
    age,        \* hours from lastSchedulingReminderAt to that hour, capped
    active,     \* students that are neither suspended nor deleted
    pass,       \* today's pass
    days,       \* history variable: days since each student was last reminded
    early,      \* history variable: those reminded again before the third day,
                \* though the reminder before was written down
    forgotten,  \* history variable: those whose last reminder is not written down
    excused     \* history variable: those that some failure, the limit or their
                \* absence has kept from a reminder since the last one

reminderVars == <<offset, age, active, pass, days, early, forgotten, excused>>

Pass == [at : {"due", "running", "over"}, cursor : StudentIds \cup {0},
         read : Nat, batch : SUBSET StudentIds]

AtMost(x, cap) == IF x > cap THEN cap ELSE x

ReminderInit ==
    /\ offset \in Offsets
    /\ age = [s \in StudentIds |-> Oldest]
    /\ active = StudentIds
    /\ pass = [at |-> "due", cursor |-> 0, read |-> 0, batch |-> {}]
    /\ days = [s \in StudentIds |-> LongAgo]
    /\ early = {}
    /\ forgotten = {}
    /\ excused = {}

-----------------------------------------------------------------------------
(* One pass. *)

Eligible(s) == s \in active /\ age[s] >= EligibleAfter

\* The students that the next query finds, in the order of their ids.
Ahead == {s \in StudentIds : Eligible(s) /\ s > pass.cursor}

FirstOf(S, n) == {s \in S : Cardinality({t \in S : t < s}) < n}

StartPass ==
    /\ pass.at = "due"
    /\ pass' = [pass EXCEPT !.at = "running"]
    /\ UNCHANGED <<offset, age, active, days, early, forgotten, excused>>

ReadBatch ==
    /\ pass.at = "running" /\ pass.batch = {}
    /\ pass.read < PassLimit /\ Ahead # {}
    /\ LET batch == FirstOf(Ahead, AtMost(BatchSize, PassLimit - pass.read)) IN
           pass' = [pass EXCEPT !.batch = batch,
                                !.read = @ + Cardinality(batch),
                                !.cursor = CHOOSE s \in batch : \A t \in batch : t <= s]
    /\ UNCHANGED <<offset, age, active, days, early, forgotten, excused>>

TooEarly(s) == s \notin forgotten /\ days[s] < IntervalDays

\* remind, for a student of the batch: sent and written down, only sent, or not
\* even sent.  The others of the batch go on.
Remind(s) ==
    /\ pass.at = "running" /\ s \in pass.batch
    /\ pass' = [pass EXCEPT !.batch = @ \ {s}]
    /\ \/ /\ age' = [age EXCEPT ![s] = 0]
          /\ forgotten' = forgotten \ {s}
          /\ days' = [days EXCEPT ![s] = 0]
          /\ early' = IF TooEarly(s) THEN early \cup {s} ELSE early
          /\ excused' = excused \ {s}
       \/ /\ forgotten' = forgotten \cup {s}
          /\ days' = [days EXCEPT ![s] = 0]
          /\ early' = IF TooEarly(s) THEN early \cup {s} ELSE early
          /\ excused' = excused \ {s}
          /\ UNCHANGED age
       \/ excused' = excused \cup {s} /\ UNCHANGED <<age, days, early, forgotten>>
    /\ UNCHANGED <<offset, active>>

\* The limit is reached, or nobody is left.
FinishPass ==
    /\ pass.at = "running" /\ pass.batch = {}
    /\ pass.read >= PassLimit \/ Ahead = {}
    /\ pass' = [pass EXCEPT !.at = "over"]
    /\ excused' = IF pass.read >= PassLimit THEN excused \cup Ahead ELSE excused
    /\ UNCHANGED <<offset, age, active, days, early, forgotten>>

-----------------------------------------------------------------------------
(* What happens around it. *)

Due == {s \in StudentIds : days[s] >= IntervalDays}

\* The process dies: whom it has not reached waits for the next pass.
PassDies ==
    /\ pass.at = "running"
    /\ pass' = [pass EXCEPT !.at = "over", !.batch = {}]
    /\ excused' = excused \cup Due
    /\ UNCHANGED <<offset, age, active, days, early, forgotten>>

NoPassToday ==
    /\ pass.at = "due"
    /\ pass' = [pass EXCEPT !.at = "over"]
    /\ excused' = excused \cup Due
    /\ UNCHANGED <<offset, age, active, days, early, forgotten>>

SuspendOrLift(s) ==
    /\ active' = IF s \in active THEN active \ {s} ELSE active \cup {s}
    /\ excused' = excused \cup {s}
    /\ UNCHANGED <<offset, age, pass, days, early, forgotten>>

NextDay ==
    /\ pass.at = "over"
    /\ \E hour \in Offsets :
           /\ offset' = hour
           /\ age' = [s \in StudentIds |-> AtMost(age[s] + 24 + hour - offset, Oldest)]
    /\ days' = [s \in StudentIds |-> AtMost(days[s] + 1, LongAgo)]
    /\ pass' = [at |-> "due", cursor |-> 0, read |-> 0, batch |-> {}]
    /\ UNCHANGED <<active, early, forgotten, excused>>

ReminderNext ==
    \/ StartPass \/ ReadBatch \/ FinishPass \/ PassDies \/ NoPassToday \/ NextDay
    \/ \E s \in StudentIds : Remind(s) \/ SuspendOrLift(s)

ReminderSpec == ReminderInit /\ [][ReminderNext]_reminderVars

-----------------------------------------------------------------------------
(* Properties *)

ReminderTypeOK ==
    /\ offset \in Offsets
    /\ age \in [StudentIds -> 0 .. Oldest]
    /\ active \subseteq StudentIds
    /\ pass \in Pass
    /\ days \in [StudentIds -> 0 .. LongAgo]
    /\ early \subseteq StudentIds
    /\ forgotten \subseteq StudentIds
    /\ excused \subseteq StudentIds

\* « 6 heures ne peuvent jamais provoquer un rappel avant le 3e jour »
\* (scheduling-reminders.constants.ts:9): however the hour of the pass varies,
\* nobody is reminded again before the third day, unless the first reminder could
\* not be written down.
NeverEarly == early = {}

\* Nor does a reminder slip to the fourth day (scheduling-reminders.constants.ts:8):
\* after the pass of the third day an active student has been reminded, unless his
\* own reminder failed, the pass did, he was suspended meanwhile, or the limit was
\* reached before his turn.
OnTheThirdDay ==
    pass.at = "over" =>
        \A s \in active \ excused : days[s] < IntervalDays

RemindedEveryThirdDay == NeverEarly /\ OnTheThirdDay

=============================================================================

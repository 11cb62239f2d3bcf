------------------------------ MODULE MCAccounts ------------------------------
(***************************************************************************)
(* The accounts and what happens around them, for TLC: one-time codes, the *)
(* PIN and the suspensions of a mobile account, an account of the back     *)
(* office, the vote on deleting one, reports and reviews, devices, the     *)
(* reminders, the numbers of accounts and the canteens, and the limits of  *)
(* rate.  They share no state, so each is walked from its own initial      *)
(* states while the others stay in one of theirs; part says which one      *)
(* moves, and Parts which ones a run is about.                             *)
(*                                                                         *)
(* c1 and c2 are the two calls in flight of each part, r1 and r2 rows of   *)
(* its tables, a1 and a2 people, o1 and o2 their orders: each pair can be  *)
(* swapped, the last two together.  In module Canteens these two are forms *)
(* of a number, and campuses.                                              *)
(***************************************************************************)
EXTENDS OneTimeCodes, Accounts, WebAccounts, DeletionVote, Feedback, Devices, Reminders,
        Canteens, RateLimits, TLC

CONSTANTS c1, c2, r1, r2, a1, a2, o1, o2, v, Parts

MCBuyer == (o1 :> a1) @@ (o2 :> a2)
MCCook == (o1 :> v) @@ (o2 :> v)

MCSymmetry ==
    Permutations({c1, c2}) \cup Permutations({r1, r2})
        \cup {(a1 :> a2) @@ (a2 :> a1) @@ (o1 :> o2) @@ (o2 :> o1)}

\* One student at a time is away, or reminded without a trace.
ReminderBound == Cardinality((StudentIds \ active) \cup forgotten) <= 1

\* One canteen is created, moved or suspended; the others are as they were.
CanteensBound ==
    Cardinality({w \in Users : canteen[w] # NoOne
                    /\ (lastMove[w].campuses # {} \/ ~canteen[w].active)}) <= 1

\* One request at a time comes to its end by time, and nobody else calls while the
\* deletion of an administrator, which no vote decides, is asked for.
VoteBound ==
    /\ Cardinality({d \in Filed : demand[d].past}) <= 1
    /\ \A c \in Calls : ballot[c].target \in Admins => \A other \in Calls \ {c} : Silent(other)

VARIABLE part

ASSUME Parts \subseteq {"codes", "pin", "web", "vote", "feedback", "devices", "reminders",
                        "canteens", "limits"}

MCInit ==
    /\ part \in Parts
    /\ OtpInit /\ AccountInit /\ WebInit /\ VoteInit /\ FeedbackInit /\ DevicesInit
    /\ ReminderInit /\ CanteensInit /\ RateInit
    /\ part # "pin" => role = "STUDENT"
    /\ part # "reminders" => offset = CHOOSE hour \in Offsets : TRUE
    /\ part # "canteens" => Rows = {}

\* Each part moves alone.
Moves(p) ==
    /\ part = p
    /\ p # "codes" => UNCHANGED otpVars
    /\ p # "pin" => UNCHANGED accountVars
    /\ p # "web" => UNCHANGED webVars
    /\ p # "vote" => UNCHANGED voteVars
    /\ p # "feedback" => UNCHANGED feedbackVars
    /\ p # "devices" => UNCHANGED deviceVars
    /\ p # "reminders" => UNCHANGED reminderVars
    /\ p # "canteens" => UNCHANGED canteenVars
    /\ p # "limits" => UNCHANGED rateVars

MCNext ==
    /\ UNCHANGED part
    /\ \/ Moves("codes") /\ OtpNext
       \/ Moves("pin") /\ AccountNext
       \/ Moves("web") /\ WebNext
       \/ Moves("vote") /\ VoteNext /\ VoteBound'
       \/ Moves("feedback") /\ FeedbackNext
       \/ Moves("devices") /\ DevicesNext
       \/ Moves("reminders") /\ ReminderNext /\ ReminderBound'
       \/ Moves("canteens") /\ CanteensNext /\ CanteensBound'
       \/ Moves("limits") /\ RateNext

MCVars == <<part, otpVars, accountVars, webVars, voteVars, feedbackVars, deviceVars,
            reminderVars, canteenVars, rateVars>>

MCSpec == MCInit /\ [][MCNext]_MCVars

=============================================================================

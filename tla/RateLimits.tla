----------------------------- MODULE RateLimits -----------------------------
(***************************************************************************)
(* The counters that limit how often a client calls                        *)
(* (src/src/common/throttling/distributed-throttler.storage.ts), for one   *)
(* client and one limit.  They are rows of PostgreSQL, which the instances *)
(* of the server share; each row is about one window of time.              *)
(*                                                                         *)
(* An instance has a clock of its own, which may be off the one of the     *)
(* database.  A call reads it, counts itself in the row of its window by   *)
(* one statement, blocks the client in a second one if it is over the      *)
(* limit, and sometimes deletes the rows of windows that are over.  It may *)
(* be slow between any two of them.  The guard of @nestjs/throttler, which *)
(* is external, lets the call through unless it is answered isBlocked.     *)
(***************************************************************************)
EXTENDS Integers

CONSTANTS
    Hits,       \* calls in flight at the same time (a bound)
    Ttl,        \* length of a window
    Limit,      \* calls let through in a window
    BlockFor,   \* how long a client is blocked
    MaxSkew,    \* how far the clock of an instance is off the database's
    MaxHits,    \* calls counted in a window before another begins one (a bound)
    LastTick    \* ticks that time runs through (a bound)

ASSUME RateAssumption ==
    /\ Ttl \in Nat \ {0} /\ Limit \in Nat \ {0} /\ BlockFor \in Nat \ {0}
    /\ MaxHits \in Nat \ {0} /\ LastTick \in Nat /\ MaxSkew \in Nat

VARIABLES
    clock,      \* the time of the database
    bucket,     \* table RateLimitBucket, by window: hits, or 0 without a row
    blocked,    \* blockedUntil of each row, or 0
    hit,        \* what each call has read
    through,    \* history variable: calls let through in each window
    renewed     \* history variable: calls that may go through again in a window since
                \* its row was deleted

rateVars == <<clock, bucket, blocked, hit, through, renewed>>

Ticks == 0 .. LastTick
WindowOf(t) == t \div Ttl
Windows == 0 .. WindowOf(LastTick)
EndOfWindow(w) == (w + 1) * Ttl

Hit == [at : {"none", "count", "block", "clean"}, now : Ticks]
NoHit == [at |-> "none", now |-> 0]

RateInit ==
    /\ clock = 0
    /\ bucket = [w \in Windows |-> 0]
    /\ blocked = [w \in Windows |-> 0]
    /\ hit = [h \in Hits |-> NoHit]
    /\ through = [w \in Windows |-> 0]
    /\ renewed = [w \in Windows |-> 0]

ReadClock(h) ==
    /\ hit[h].at = "none"
    /\ \E now \in Ticks :
           /\ clock - MaxSkew <= now /\ now <= clock + MaxSkew
           /\ bucket[WindowOf(now)] < MaxHits
           /\ hit' = [hit EXCEPT ![h] = [at |-> "count", now |-> now]]
    /\ UNCHANGED <<clock, bucket, blocked, through, renewed>>

\* Over the limit, without a block that runs: the client is blocked again.
MustBlock(total, until, t) == total > Limit /\ until <= t

\* The statement inserts the row of the window, or adds one to it, and returns it.
Count(h) ==
    LET t == hit[h].now
        w == WindowOf(t)
    IN
    /\ hit[h].at = "count"
    /\ bucket' = [bucket EXCEPT ![w] = @ + 1]
    /\ IF MustBlock(bucket[w] + 1, blocked[w], t)
       THEN hit' = [hit EXCEPT ![h].at = "block"] /\ UNCHANGED through
       ELSE /\ hit' = [hit EXCEPT ![h].at = "clean"]
            /\ through' = IF blocked[w] > t THEN through ELSE [through EXCEPT ![w] = @ + 1]
    /\ UNCHANGED <<clock, blocked, renewed>>

\* The row may be gone; the call is refused all the same.
Block(h) ==
    LET t == hit[h].now
        w == WindowOf(t)
    IN
    /\ hit[h].at = "block"
    /\ blocked' = IF bucket[w] = 0 THEN blocked ELSE [blocked EXCEPT ![w] = t + BlockFor]
    /\ hit' = [hit EXCEPT ![h].at = "clean"]
    /\ UNCHANGED <<clock, bucket, through, renewed>>

\* Mutant: the rows of windows that have begun are deleted.
OverMutant(w) == w * Ttl < clock
Over(w) == EndOfWindow(w) < clock

\* One call in a hundred deletes the rows that are past for the database.
Clean(h) ==
    /\ hit[h].at = "clean"
    /\ \/ UNCHANGED <<bucket, blocked, renewed>>
       \/ /\ bucket' = [w \in Windows |-> IF Over(w) THEN 0 ELSE bucket[w]]
          /\ blocked' = [w \in Windows |-> IF Over(w) THEN 0 ELSE blocked[w]]
          /\ renewed' = [w \in Windows |->
                 IF Over(w) /\ bucket[w] > 0 THEN renewed[w] + Limit ELSE renewed[w]]
    /\ hit' = [hit EXCEPT ![h] = NoHit]
    /\ UNCHANGED <<clock, through>>

\* An instance is stopped.
Vanish(h) ==
    /\ hit[h].at # "none"
    /\ hit' = [hit EXCEPT ![h] = NoHit]
    /\ UNCHANGED <<clock, bucket, blocked, through, renewed>>

Second ==
    /\ clock < LastTick
    /\ clock' = clock + 1
    /\ UNCHANGED <<bucket, blocked, hit, through, renewed>>

RateNext ==
    \/ \E h \in Hits : ReadClock(h) \/ Count(h) \/ Block(h) \/ Clean(h) \/ Vanish(h)
    \/ Second

RateSpec == RateInit /\ [][RateNext]_rateVars

-----------------------------------------------------------------------------
(* Properties *)

RateTypeOK ==
    /\ clock \in Ticks
    /\ bucket \in [Windows -> Nat] /\ blocked \in [Windows -> Nat]
    /\ hit \in [Hits -> Hit]
    /\ through \in [Windows -> Nat]
    /\ renewed \in [Windows -> Nat]

\* « Aucune course entre deux fenêtres » (distributed-throttler.storage.ts:31): of the
\* calls of one window no more than the limit are let through, whatever instances
\* count, block and clean at the same time and however far their clocks are off,
\* until the window is over for the database.  After that, each deletion of the
\* row lets instances that are late or slow go through that many times more.
LimitPerWindow ==
    \A w \in Windows :
        /\ clock <= EndOfWindow(w) => through[w] <= Limit
        /\ through[w] <= Limit + renewed[w]

=============================================================================

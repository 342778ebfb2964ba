----------------------------- MODULE RateLimiter -----------------------------
(***************************************************************************)
(* rate-limiter.cpp: the token bucket behind every repetition filter.      *)
(*                                                                         *)
(* The code keeps `allowance' in messages, as a double, and adds           *)
(* time_passed * (rate / per).  Here an allowance is counted in 1/Per      *)
(* messages, so that one tick is worth Rate units and the arithmetic is    *)
(* exact: a message costs Per units and the bucket holds Rate * Per.       *)
(***************************************************************************)
EXTENDS Integers

CONSTANTS
    Rate,   \* max_per_dt: messages let through per interval
    Per     \* dt, in clock ticks

ASSUME LimiterAssumption == Rate \in Nat \ {0} /\ Per \in Nat \ {0}

Capacity == Rate * Per

\* A rate_limiter as it is constructed: never checked, nothing allowed yet.
NewLimiter == [last_ts |-> 0, allowance |-> 0]

(* Deliberately wrong variants, used to show that the properties bite. *)
Throttle_Uncapped(a) == a

\* "if (allowance > rate) allowance = rate"
Throttle(a) == IF a > Capacity THEN Capacity ELSE a

\* The allowance at time now, before the message is paid for.
Refilled(l, now) == Throttle(l.allowance + (now - l.last_ts) * Rate)

\* The verdict of check().
Allows(l, now) == Refilled(l, now) >= Per

\* Wrong variant: a refused message is paid for too.
Checked_AlwaysPays(l, now) ==
    [last_ts |-> now, allowance |-> Refilled(l, now) - Per]

\* The limiter after check(); a refused message costs nothing, but last_ts
\* moves all the same.
Checked(l, now) ==
    [last_ts   |-> now,
     allowance |-> Refilled(l, now) - (IF Allows(l, now) THEN Per ELSE 0)]

Limiters(Times) == [last_ts : Times, allowance : Int]
=============================================================================

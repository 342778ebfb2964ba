---------------------------- MODULE LimitedSource ----------------------------
(***************************************************************************)
(* One rate_limiter driven by a source that repeats a message whenever it  *)
(* likes, with the clock the code reads.                                   *)
(*                                                                         *)
(* time.cpp reads CLOCK_REALTIME, which ntpd or the operator may set back  *)
(* or forward: `reading' is what it gives and `uptime' the time that       *)
(* really passed.  An observer starts counting at any moment (`window')    *)
(* and counts what the limiter lets through from then on (`let_through'),  *)
(* and what the adjustments of the clock were worth (`ahead').             *)
(***************************************************************************)
EXTENDS RateLimiter

CONSTANTS
    Start,      \* the clock reading at start
    MaxUptime,  \* bound on uptime
    MaxReading, \* bound on what the clock is set to; 0: it is not adjusted
    MaxAhead    \* bound on ahead

ASSUME SourceAssumption ==
    /\ Start \in Nat /\ MaxUptime \in Nat
    /\ MaxReading \in Nat /\ MaxAhead \in Nat

VARIABLES
    reading,    \* what get_us_float() returns
    uptime,     \* time that really passed (plus Start)
    limiter,    \* the rate_limiter object
    checked_at, \* uptime of the latest check()
    highest,    \* the highest reading a check() has seen
    window,     \* uptime at which the observer started to count
    let_through,    \* messages let through since
    ahead,      \* what setting the clock forward has been worth since
    ahead_checked   \* ahead, at the latest check()

sourceVars == <<reading, uptime, limiter, checked_at, highest, window,
                let_through, ahead, ahead_checked>>

SourceInit ==
    /\ reading = Start
    /\ uptime = Start
    /\ limiter = NewLimiter
    /\ checked_at = 0 /\ highest = 0
    /\ window = Start
    /\ let_through = 0
    /\ ahead = 0 /\ ahead_checked = 0

SourceTick ==
    /\ uptime < MaxUptime
    /\ uptime' = uptime + 1
    /\ reading' = reading + 1
    /\ UNCHANGED <<limiter, checked_at, highest, window, let_through, ahead,
                   ahead_checked>>

\* What the limiter can make of the clock being set forward by d: it looks
\* like time that passed, but fills no more than the bucket.
Worth(d) == CASE d <= 0 -> 0
              [] d > 0 /\ d * Rate > Capacity -> Capacity
              [] OTHER -> d * Rate

\* CLOCK_REALTIME is set, back or forward.
Adjust ==
    /\ \E r \in 1..MaxReading :
          /\ reading' = r
          /\ ahead + Worth(r - reading) <= MaxAhead
          /\ ahead' = ahead + Worth(r - reading)
    /\ UNCHANGED <<uptime, limiter, checked_at, highest, window, let_through,
                   ahead_checked>>

\* rate_limiter::check()
SourceCheck ==
    /\ limiter' = Checked(limiter, reading)
    /\ checked_at' = uptime
    /\ highest' = IF reading > highest THEN reading ELSE highest
    /\ let_through' = let_through + (IF Allows(limiter, reading) THEN 1 ELSE 0)
    /\ ahead_checked' = ahead
    /\ UNCHANGED <<reading, uptime, window, ahead>>

\* The observer starts a new count.
Observe ==
    /\ window' = uptime
    /\ let_through' = 0
    /\ ahead' = 0 /\ ahead_checked' = 0
    /\ UNCHANGED <<reading, uptime, limiter, checked_at, highest>>

SourceNext == SourceTick \/ Adjust \/ SourceCheck \/ Observe

SourceSpec == SourceInit /\ [][SourceNext]_sourceVars

-----------------------------------------------------------------------------
SourceTypeOK ==
    /\ reading \in Int /\ highest \in Int
    /\ uptime \in Nat /\ checked_at \in Nat /\ window \in Nat
    /\ let_through \in Nat
    /\ ahead \in Nat /\ ahead_checked \in Nat
    /\ limiter \in Limiters(Int)

(***************************************************************************)
(* However long the source ran before and whenever the observer starts: in *)
(* any stretch of time the limiter lets through at most one full bucket    *)
(* plus what that stretch refills.  Setting the clock back under it gives  *)
(* nothing; setting it forward gives what that time would have refilled,   *)
(* but never more than one bucket, however far it is set.                  *)
(* (rate-limiter.cpp:16-41, time.cpp:12-23)                                *)
(***************************************************************************)
WindowBound == let_through * Per <= Capacity + (uptime - window) * Rate + ahead

(***************************************************************************)
(* A message that was not offered for a whole interval is let through.     *)
(* When the clock was set back the allowance goes negative and the message *)
(* is refused however quiet it was; that lasts no longer than the clock    *)
(* needs to get to where it ever was at a check, and one interval more.    *)
(* (rate-limiter.cpp:26-36, time.cpp:12-23)                                *)
(***************************************************************************)
RefusalIsBounded == reading - highest >= Per => Allows(limiter, reading)

-----------------------------------------------------------------------------
(***************************************************************************)
(* The inductive invariant behind WindowBound.  Since the latest check the *)
(* clock gained what time passed and what it was set forward, or so much   *)
(* that the bucket is full.  What was let through and what is still in the *)
(* bucket never exceed a full bucket, the refills since the window opened  *)
(* and what the adjustments were worth.  The allowance can be negative,    *)
(* hence the last conjunct of Budget; before the first message is let      *)
(* through nothing need be known.                                          *)
(***************************************************************************)
Gained ==
    \/ (reading - limiter.last_ts) * Rate
           <= (uptime - checked_at) * Rate + (ahead - ahead_checked)
    \/ ahead - ahead_checked >= Capacity

ObservedInOrder ==
    checked_at <= uptime /\ window <= uptime /\ ahead_checked <= ahead

NeverOverfull == limiter.allowance <= Capacity

Budget ==
    \/ let_through = 0
    \/ /\ window <= checked_at
       /\ Gained
       /\ let_through * Per + limiter.allowance
              <= Capacity + (checked_at - window) * Rate + ahead_checked
       /\ let_through * Per
              <= Capacity + (checked_at - window) * Rate + ahead_checked

IInv ==
    /\ SourceTypeOK
    /\ ObservedInOrder
    /\ NeverOverfull
    /\ Budget

(***************************************************************************)
(* The one behind RefusalIsBounded: the allowance is negative only by what *)
(* the clock was behind its highest when it was last read.                 *)
(***************************************************************************)
Behind ==
    /\ limiter.last_ts <= highest
    /\ limiter.allowance >= (limiter.last_ts - highest) * Rate
=============================================================================

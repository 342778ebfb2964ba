-------------------------------- MODULE Seen ---------------------------------
(***************************************************************************)
(* seen.cpp: the repetition filter.  Receiving threads (and the main loop, *)
(* for the global filter) call check(); a cleaner thread keeps the table   *)
(* of limiters from growing; tranceiver::stop() or the configuration's     *)
(* destructor calls stop().                                                *)
(*                                                                         *)
(* history_lock is held for the whole of check() and from each wake-up of  *)
(* the cleaner to its next wait or the end of its sweep, so each of these  *)
(* is one action.  A message is its CRC32 (the code compares nothing       *)
(* else), a member of Hashes.  std::sort orders by whole seconds and is    *)
(* not stable: among equal seconds any choice is possible.                 *)
(***************************************************************************)
EXTENDS RateLimiter, FiniteSets

CONSTANTS
    Hashes,         \* the messages, by CRC32
    MaxN,           \* max_n
    SpareDivisor,   \* 10 in the source: max_n / 10 more are swept than needed
    TicksPerSecond, \* the resolution of time_t in clock ticks
    Epoch,          \* clock reading at start
    MaxClock        \* bound on the clock

ASSUME SeenAssumption ==
    /\ IsFiniteSet(Hashes)
    /\ MaxN \in Nat
    /\ SpareDivisor \in Nat \ {0} /\ TicksPerSecond \in Nat \ {0}
    /\ Epoch \in Nat /\ MaxClock \in Nat
    /\ Per <= Epoch

VARIABLES
    clock,      \* get_us_float(); here never set back (see LimitedSource)
    history,    \* hash -> rate_limiter, for the hashes remembered
    terminate,
    cleaner,    \* "top": before while(!terminate), "ready": about to take the
                \* lock, "asleep": in wait_for, "done"
    stopper,    \* the caller of stop()
    seen_at,    \* observer: when a hash was last checked; 0: never
    born,       \* observer: when the limiter of a hash was made
    granted     \* observer: messages that limiter let through

vars == <<clock, history, terminate, cleaner, stopper, seen_at, born, granted>>

-----------------------------------------------------------------------------
Remembered == DOMAIN history

(* Deliberately wrong variants, used to show that the properties bite. *)
LimiterFor_Forgetful(h) == NewLimiter
MustWait_IgnoresStop == Cardinality(Remembered) < MaxN
SweepSize_NoSpare == LET n == Cardinality(Remembered) - MaxN
                     IN  IF n > 0 THEN n ELSE 0

\* The limiter check() uses for h: the one in the table or a new one.
LimiterFor(h) == IF h \in Remembered THEN history[h] ELSE NewLimiter

\* The inner loop of the cleaner keeps waiting.
MustWait == Cardinality(Remembered) < MaxN /\ ~terminate

\* lower_bound; the loop that erases runs zero times when it is negative.
SweepSize == LET n == Cardinality(Remembered) - MaxN + (MaxN \div SpareDivisor)
             IN  IF n > 0 THEN n ELSE 0

Second(t) == t \div TicksPerSecond      \* time_t(t)

LastSecond(h) == Second(history[h].last_ts)      \* get_last_ts()

\* What a sweep may erase: the list is sorted on descending last_ts and the
\* entries at its front go.
SweepChoices ==
    {S \in SUBSET Remembered :
        /\ Cardinality(S) = SweepSize
        /\ \A a \in S, b \in Remembered \ S : LastSecond(a) >= LastSecond(b)}

\* history_cv.notify_one()
Notified == IF cleaner = "asleep" THEN "ready" ELSE cleaner

-----------------------------------------------------------------------------
Init ==
    /\ clock = Epoch
    /\ history = <<>>
    /\ terminate = FALSE
    /\ cleaner = "top"
    /\ stopper = "running"
    /\ seen_at = [h \in Hashes |-> 0]
    /\ born = [h \in Hashes |-> 0]
    /\ granted = [h \in Hashes |-> 0]

Tick ==
    /\ clock < MaxClock
    /\ clock' = clock + 1
    /\ UNCHANGED <<history, terminate, cleaner, stopper, seen_at, born, granted>>

\* seen::check().  It does not look at terminate.
Check(h) ==
    LET l == LimiterFor(h)
        n == IF Allows(l, clock) THEN 1 ELSE 0
    IN  /\ history' = [g \in Remembered \cup {h} |->
                          IF g = h THEN Checked(l, clock) ELSE history[g]]
        /\ IF h \in Remembered
           THEN /\ granted' = [granted EXCEPT ![h] = @ + n]
                /\ UNCHANGED <<born, cleaner>>
           ELSE /\ granted' = [granted EXCEPT ![h] = n]
                /\ born' = [born EXCEPT ![h] = clock]
                /\ cleaner' = Notified
        /\ seen_at' = [seen_at EXCEPT ![h] = clock]
        /\ UNCHANGED <<clock, terminate, stopper>>

\* while(!terminate)
CleanerTop ==
    /\ cleaner = "top"
    /\ cleaner' = IF terminate THEN "done" ELSE "ready"
    /\ UNCHANGED <<clock, history, terminate, stopper, seen_at, born, granted>>

\* The lock is taken, there is room: wait_for.
CleanerSleep ==
    /\ cleaner = "ready"
    /\ MustWait
    /\ cleaner' = "asleep"
    /\ UNCHANGED <<clock, history, terminate, stopper, seen_at, born, granted>>

\* END_CHECK_INTERVAL_ms have passed.
CleanerTimeout ==
    /\ cleaner = "asleep"
    /\ cleaner' = "ready"
    /\ UNCHANGED <<clock, history, terminate, stopper, seen_at, born, granted>>

\* The lock is taken, the table is full or the filter stops: erase.
CleanerSweep ==
    /\ cleaner = "ready"
    /\ ~MustWait
    /\ \E S \in SweepChoices :
          /\ history' = [g \in Remembered \ S |-> history[g]]
          /\ granted' = [g \in Hashes |-> IF g \in S THEN 0 ELSE granted[g]]
    /\ cleaner' = "top"
    /\ UNCHANGED <<clock, terminate, stopper, seen_at, born>>

\* seen::stop(), in its three steps.
StopSet ==
    /\ stopper = "running"
    /\ terminate' = TRUE
    /\ stopper' = "set"
    /\ UNCHANGED <<clock, history, cleaner, seen_at, born, granted>>

StopNotify ==
    /\ stopper = "set"
    /\ cleaner' = Notified
    /\ stopper' = "joining"
    /\ UNCHANGED <<clock, history, terminate, seen_at, born, granted>>

StopJoin ==
    /\ stopper = "joining"
    /\ cleaner = "done"
    /\ stopper' = "joined"
    /\ UNCHANGED <<clock, history, terminate, cleaner, seen_at, born, granted>>

Cleaner == CleanerTop \/ CleanerSleep \/ CleanerTimeout \/ CleanerSweep
Stop == StopSet \/ StopNotify \/ StopJoin

Next == Tick \/ (\E h \in Hashes : Check(h)) \/ Cleaner \/ Stop

\* The cleaner is a thread that is always runnable: its waits time out.  The
\* caller of stop() runs on once it has called it; nobody has to call it.
Fairness ==
    /\ WF_vars(Cleaner)
    /\ WF_vars(StopNotify)
    /\ WF_vars(StopJoin)

Spec == Init /\ [][Next]_vars /\ Fairness

-----------------------------------------------------------------------------
TypeOK ==
    /\ clock \in Epoch..(IF MaxClock > Epoch THEN MaxClock ELSE Epoch)
    /\ Remembered \subseteq Hashes
    /\ \A h \in Remembered :
          history[h] \in [last_ts : Epoch..clock, allowance : 0..Capacity]
    /\ terminate \in BOOLEAN
    /\ cleaner \in {"top", "ready", "asleep", "done"}
    /\ stopper \in {"running", "set", "joining", "joined"}
    /\ seen_at \in [Hashes -> Nat] /\ born \in [Hashes -> Nat]
    /\ granted \in [Hashes -> Nat]

(***************************************************************************)
(* As long as a message is remembered it is repeated no more than its      *)
(* limiter allows for the time since it was first seen, whatever other     *)
(* messages come between and however often the cleaner sweeps.             *)
(* (seen.cpp:46-72)                                                        *)
(***************************************************************************)
RepeatsBounded ==
    \A h \in Remembered :
        granted[h] * Per <= Capacity + (clock - born[h]) * Rate

(***************************************************************************)
(* A table that filled up does not stay full: the cleaner gets it below    *)
(* max_n again, unless it was told to stop.  Needs max_n / 10 >= 1.        *)
(* (seen.cpp:78-103)                                                       *)
(***************************************************************************)
RoomIsMade ==
    Cardinality(Remembered) >= MaxN
        ~> (Cardinality(Remembered) < MaxN \/ terminate)

(***************************************************************************)
(* stop() returns: the cleaner notices terminate wherever it is.           *)
(* (seen.cpp:28-44, 78-82)                                                 *)
(***************************************************************************)
StopReturns == stopper = "set" ~> stopper = "joined"

(***************************************************************************)
(* The table remembers the messages seen last: a message that is one of    *)
(* the latest MaxN - MaxN / 10 (counting those of the same second too) is  *)
(* in it.  ham-router.cfg:20 calls max-n-elements the "number of unique    *)
(* messages to remember".  The sweep erases the entries with the highest   *)
(* last_ts. (seen.cpp:89-103)                                              *)
(***************************************************************************)
NotOlder(h) == {g \in Hashes : Second(seen_at[g]) >= Second(seen_at[h])}

RemembersLatest ==
    \A h \in Hashes :
        /\ seen_at[h] > 0
        /\ Cardinality(NotOlder(h)) <= MaxN - (MaxN \div SpareDivisor)
        => h \in Remembered
=============================================================================

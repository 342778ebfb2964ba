---------------------------- MODULE LimiterProofs ----------------------------
(***************************************************************************)
(* No stretch of time gets more than its share out of a rate_limiter,      *)
(* whatever the rate, the interval and the adjustments of the clock; and   *)
(* the repetition filter as a whole keeps what one limiter promises: its   *)
(* table grows and is swept while the limiters in it count on.             *)
(***************************************************************************)
EXTENDS LimitedSource, Seen, TLAPS

-----------------------------------------------------------------------------
(* One limiter.                                                            *)

\* Refills of consecutive stretches of time add up.
LEMMA RefillsAdd ==
    ASSUME NEW r \in Nat, NEW a \in Int, NEW b \in Int, NEW c \in Int
    PROVE  (b - a) * r + (c - b) * r = (c - a) * r
  OBVIOUS

\* A refill is never smaller than that of a shorter stretch of time.
LEMMA RefillMonotone ==
    ASSUME NEW r \in Nat, NEW a \in Int, NEW b \in Int, a <= b
    PROVE  a * r <= b * r
  OBVIOUS

\* The values the operators of RateLimiter take.
LEMMA LimiterTypes ==
    ASSUME NEW l \in Limiters(Int), NEW now \in Int
    PROVE  /\ Capacity \in Nat
           /\ Refilled(l, now) \in Int
           /\ Refilled(l, now) <= Capacity
           /\ Checked(l, now) \in Limiters(Int)
           /\ Checked(l, now).last_ts = now
  <1>1. Capacity \in Nat
    BY LimiterAssumption DEF Capacity
  <1>2. Refilled(l, now) \in Int /\ Refilled(l, now) <= Capacity
    BY <1>1, LimiterAssumption DEF Refilled, Throttle, Limiters
  <1>3. QED
    BY <1>1, <1>2, LimiterAssumption DEF Checked, Limiters

LEMMA IInvInit == SourceInit => IInv
  BY LimiterAssumption, SourceAssumption
  DEF SourceInit, IInv, SourceTypeOK, ObservedInOrder, NeverOverfull, Budget,
      NewLimiter, Limiters, Capacity

\* An adjustment is worth what time would be, or a whole bucket.
LEMMA WorthOf ==
    ASSUME NEW d \in Int
    PROVE  /\ Worth(d) \in Nat
           /\ d * Rate <= Worth(d) \/ Worth(d) >= Capacity
  <1> USE LimiterAssumption
  <1>1. Capacity \in Nat
    BY DEF Capacity
  <1>2. CASE d <= 0
    <2>1. d * Rate <= 0 * Rate
      BY <1>2, RefillMonotone
    <2>2. Worth(d) = 0
      BY <1>2 DEF Worth
    <2>3. QED
      BY <2>1, <2>2
  <1>3. CASE d > 0 /\ d * Rate > Capacity
    <2>1. Worth(d) = Capacity
      BY <1>3 DEF Worth
    <2>2. QED
      BY <1>1, <2>1
  <1>4. CASE d > 0 /\ ~(d * Rate > Capacity)
    <2>1. Worth(d) = d * Rate
      BY <1>4 DEF Worth
    <2>2. 0 * Rate <= d * Rate /\ d * Rate \in Int
      BY <1>4, RefillMonotone
    <2>3. QED
      BY <2>1, <2>2
  <1>5. QED
    BY <1>2, <1>3, <1>4

\* What is known of the values of the variables.
LEMMA SourceTypes ==
    ASSUME SourceTypeOK
    PROVE  /\ reading \in Int /\ highest \in Int /\ uptime \in Nat /\ checked_at \in Nat
           /\ window \in Nat /\ let_through \in Nat /\ limiter \in Limiters(Int)
           /\ ahead \in Nat /\ ahead_checked \in Nat
           /\ limiter.allowance \in Int /\ limiter.last_ts \in Int
           /\ Rate \in Nat /\ Per \in Nat /\ Per > 0 /\ Capacity \in Nat /\ Per <= Capacity
  BY LimiterAssumption DEF SourceTypeOK, Limiters, Capacity

\* The clock is set: Gained holds if it did.
LEMMA AdjustKeeps ==
    ASSUME IInv, Adjust PROVE IInv'
  <1>0. /\ reading \in Int /\ highest \in Int /\ uptime \in Nat /\ checked_at \in Nat
        /\ window \in Nat /\ let_through \in Nat /\ limiter \in Limiters(Int)
        /\ ahead \in Nat /\ ahead_checked \in Nat
        /\ limiter.allowance \in Int /\ limiter.last_ts \in Int
        /\ Rate \in Nat /\ Capacity \in Nat
    BY SourceTypes DEF IInv
  <1>1. PICK r \in 1..MaxReading : reading' = r /\ ahead' = ahead + Worth(r - reading)
    BY DEF Adjust
  <1> DEFINE d == r - reading
  <1>2. r \in Int /\ d \in Int
    BY <1>0, <1>1, SourceAssumption
  <1>3. /\ Worth(d) \in Nat
        /\ d * Rate <= Worth(d) \/ Worth(d) >= Capacity
    BY <1>2, WorthOf
  <1>4. /\ ahead' = ahead + Worth(d) /\ reading' \in Int /\ ahead' \in Nat
        /\ UNCHANGED <<uptime, limiter, checked_at, highest, window, let_through,
                       ahead_checked>>
    BY <1>0, <1>1, <1>2, <1>3 DEF Adjust
  <1>5. ahead_checked <= ahead
    BY DEF IInv, ObservedInOrder
  <1>6. Gained => Gained'
    <2> SUFFICES ASSUME Gained PROVE Gained'
      OBVIOUS
    <2>1. CASE (reading - limiter.last_ts) * Rate
                   <= (uptime - checked_at) * Rate + (ahead - ahead_checked)
      <3>1. (reading - limiter.last_ts) * Rate + (r - reading) * Rate
                = (r - limiter.last_ts) * Rate
        BY <1>0, <1>2, RefillsAdd
      <3>2. (r - limiter.last_ts) * Rate \in Int /\ (uptime - checked_at) * Rate \in Int
            /\ d * Rate \in Int
        BY <1>0, <1>2
      <3>3. CASE d * Rate <= Worth(d)
        <4>1. (r - limiter.last_ts) * Rate
                 <= (uptime - checked_at) * Rate + (ahead + Worth(d) - ahead_checked)
          BY <1>0, <1>3, <2>1, <3>1, <3>2, <3>3
        <4>2. /\ reading' = r /\ limiter' = limiter /\ uptime' = uptime
              /\ checked_at' = checked_at /\ ahead_checked' = ahead_checked
              /\ ahead' = ahead + Worth(d)
          BY <1>1, <1>4
        <4>3. QED
          BY <1>0, <1>2, <1>3, <3>2, <4>1, <4>2 DEF Gained
      <3>4. CASE Worth(d) >= Capacity
        BY <1>0, <1>3, <1>4, <1>5, <3>4 DEF Gained, Capacity
      <3>5. QED
        BY <1>3, <3>3, <3>4
    <2>2. CASE ahead - ahead_checked >= Capacity
      BY <1>0, <1>3, <1>4, <2>2 DEF Gained, Capacity
    <2>3. QED
      BY <2>1, <2>2 DEF Gained
  <1>7. SourceTypeOK' /\ ObservedInOrder' /\ NeverOverfull'
    BY <1>0, <1>3, <1>4 DEF IInv, SourceTypeOK, ObservedInOrder, NeverOverfull, Capacity
  <1>8. Budget'
    BY <1>4, <1>6 DEF IInv, Budget, Capacity
  <1>9. QED
    BY <1>7, <1>8 DEF IInv

\* A check pays from what is in the bucket by then.
LEMMA SourceCheckKeeps ==
    ASSUME IInv, SourceCheck PROVE IInv'
  <1> DEFINE full == Refilled(limiter, reading)
  <1>0. /\ reading \in Int /\ highest \in Int /\ uptime \in Nat /\ checked_at \in Nat
        /\ window \in Nat /\ let_through \in Nat /\ limiter \in Limiters(Int)
        /\ ahead \in Nat /\ ahead_checked \in Nat
        /\ limiter.allowance \in Int /\ limiter.last_ts \in Int
        /\ Rate \in Nat /\ Per \in Nat /\ Per > 0 /\ Capacity \in Nat /\ Per <= Capacity
    BY SourceTypes DEF IInv
  <1>1. checked_at <= uptime /\ window <= uptime /\ ahead_checked <= ahead
    BY DEF IInv, ObservedInOrder
  <1>2. /\ full \in Int /\ full <= Capacity
        /\ limiter' \in Limiters(Int) /\ limiter'.last_ts = reading
    BY <1>0, LimiterTypes DEF SourceCheck
  <1>3. \/ /\ full >= Per
           /\ limiter'.allowance = full - Per /\ let_through' = let_through + 1
        \/ /\ full < Per
           /\ limiter'.allowance = full /\ let_through' = let_through
    BY <1>0, <1>2 DEF SourceCheck, Checked, Allows
  <1>4. /\ checked_at' = uptime /\ window' = window /\ ahead_checked' = ahead
        /\ uptime' = uptime /\ reading' = reading /\ ahead' = ahead
        /\ highest' \in Int
    BY <1>0 DEF SourceCheck
  <1>5. Gained'
    BY <1>0, <1>2, <1>4 DEF Gained
  <1>6. 0 <= (uptime - window) * Rate /\ (uptime - window) * Rate \in Int
    BY <1>0, <1>1
  <1>7. ASSUME let_through * Per + full <= Capacity + (uptime - window) * Rate + ahead,
               let_through * Per <= Capacity + (uptime - window) * Rate + ahead
        PROVE  Budget'
    <2>1. (let_through + 1) * Per = let_through * Per + Per
          /\ let_through * Per \in Int
      BY <1>0
    <2>2. let_through' * Per + limiter'.allowance
             <= Capacity + (uptime - window) * Rate + ahead
          /\ let_through' * Per <= Capacity + (uptime - window) * Rate + ahead
      <3>1. CASE full >= Per /\ limiter'.allowance = full - Per
                 /\ let_through' = let_through + 1
        BY <1>0, <1>2, <1>6, <1>7, <2>1, <3>1
      <3>2. CASE limiter'.allowance = full /\ let_through' = let_through
        BY <1>0, <1>2, <1>6, <1>7, <2>1, <3>2
      <3>3. QED
        BY <1>3, <3>1, <3>2
    <2>3. QED
      BY <1>1, <1>4, <1>5, <2>2 DEF Budget, Capacity
  <1>8. ASSUME let_through = 0 PROVE Budget'
    <2>1. let_through * Per = 0
      BY <1>0, <1>8
    <2>2. QED
      BY <1>0, <1>2, <1>6, <1>7, <2>1
  <1>9. ASSUME window <= checked_at, Gained,
               let_through * Per + limiter.allowance
                   <= Capacity + (checked_at - window) * Rate + ahead_checked,
               let_through * Per
                   <= Capacity + (checked_at - window) * Rate + ahead_checked
        PROVE  Budget'
    <2>1. (checked_at - window) * Rate + (uptime - checked_at) * Rate
              = (uptime - window) * Rate
      BY <1>0, RefillsAdd
    <2>2. /\ 0 <= (uptime - checked_at) * Rate
          /\ (uptime - checked_at) * Rate \in Int /\ (checked_at - window) * Rate \in Int
          /\ let_through * Per \in Int /\ (reading - limiter.last_ts) * Rate \in Int
      BY <1>0, <1>1
    <2>3. let_through * Per <= Capacity + (uptime - window) * Rate + ahead
      BY <1>0, <1>1, <1>6, <1>9, <2>1, <2>2
    <2>4. full <= limiter.allowance + (reading - limiter.last_ts) * Rate
      BY <1>0, <2>2 DEF Refilled, Throttle
    <2>5. CASE (reading - limiter.last_ts) * Rate
                   <= (uptime - checked_at) * Rate + (ahead - ahead_checked)
      <3>1. let_through * Per + full <= Capacity + (uptime - window) * Rate + ahead
        BY <1>0, <1>2, <1>6, <1>9, <2>1, <2>2, <2>4, <2>5
      <3>2. QED
        BY <1>7, <2>3, <3>1
    <2>6. CASE ahead - ahead_checked >= Capacity
      <3>1. let_through * Per + full <= Capacity + (uptime - window) * Rate + ahead
        BY <1>0, <1>2, <1>6, <1>9, <2>1, <2>2, <2>6
      <3>2. QED
        BY <1>7, <2>3, <3>1
    <2>7. QED
      BY <1>9, <2>5, <2>6 DEF Gained
  <1>10. Budget'
    BY <1>8, <1>9 DEF IInv, Budget
  <1>11. SourceTypeOK'
    BY <1>0, <1>2, <1>3, <1>4 DEF SourceTypeOK
  <1>12. limiter'.allowance <= Capacity
    BY <1>0, <1>2, <1>3
  <1>13. QED
    BY <1>0, <1>1, <1>4, <1>10, <1>11, <1>12
    DEF IInv, ObservedInOrder, NeverOverfull, Capacity

LEMMA IInvNext == IInv /\ [SourceNext]_sourceVars => IInv'
  <1> SUFFICES ASSUME IInv, [SourceNext]_sourceVars PROVE IInv'
    OBVIOUS
  <1>0. /\ reading \in Int /\ highest \in Int /\ uptime \in Nat /\ checked_at \in Nat
        /\ window \in Nat /\ let_through \in Nat /\ limiter \in Limiters(Int)
        /\ ahead \in Nat /\ ahead_checked \in Nat
        /\ limiter.allowance \in Int /\ limiter.last_ts \in Int
        /\ Rate \in Nat /\ Capacity \in Nat
    BY SourceTypes DEF IInv
  <1>1. CASE SourceTick
    <2>1. /\ uptime' = uptime + 1 /\ reading' = reading + 1
          /\ UNCHANGED <<limiter, checked_at, highest, window, let_through, ahead,
                         ahead_checked>>
      BY <1>1 DEF SourceTick
    <2>2. SourceTypeOK' /\ ObservedInOrder' /\ NeverOverfull'
      BY <1>0, <2>1 DEF IInv, SourceTypeOK, ObservedInOrder, NeverOverfull, Capacity
    <2>3. /\ (reading + 1 - limiter.last_ts) * Rate = (reading - limiter.last_ts) * Rate + Rate
          /\ (uptime + 1 - checked_at) * Rate = (uptime - checked_at) * Rate + Rate
          /\ (reading - limiter.last_ts) * Rate \in Int
          /\ (uptime - checked_at) * Rate \in Int
      BY <1>0
    <2>4. Gained => Gained'
      BY <1>0, <2>1, <2>3 DEF Gained, Capacity
    <2>5. QED
      BY <2>1, <2>2, <2>4 DEF IInv, Budget, Capacity
  <1>2. CASE Adjust
    BY <1>2, AdjustKeeps
  <1>3. CASE SourceCheck
    BY <1>3, SourceCheckKeeps
  <1>4. CASE Observe
    BY <1>0, <1>4
    DEF Observe, IInv, SourceTypeOK, ObservedInOrder, NeverOverfull, Budget, Capacity
  <1>5. CASE UNCHANGED sourceVars
    BY <1>5
    DEF sourceVars, IInv, SourceTypeOK, ObservedInOrder, NeverOverfull, Budget, Gained,
        Capacity
  <1>6. QED
    BY <1>1, <1>2, <1>3, <1>4, <1>5 DEF SourceNext

LEMMA IInvBounds == IInv => WindowBound
  <1> SUFFICES ASSUME IInv PROVE WindowBound
    OBVIOUS
  <1>1. /\ uptime \in Nat /\ checked_at \in Nat /\ window \in Nat
        /\ let_through \in Nat /\ ahead \in Nat /\ ahead_checked \in Nat
        /\ Rate \in Nat /\ Per \in Nat /\ Capacity \in Nat
        /\ checked_at <= uptime /\ window <= uptime /\ ahead_checked <= ahead
    BY SourceTypes DEF IInv, ObservedInOrder
  <1>2. 0 <= (uptime - window) * Rate /\ (uptime - window) * Rate \in Int
    BY <1>1
  <1>3. CASE let_through = 0
    <2>1. let_through * Per = 0
      BY <1>1, <1>3
    <2>2. QED
      BY <1>1, <1>2, <2>1 DEF WindowBound
  <1>4. CASE let_through * Per <= Capacity + (checked_at - window) * Rate + ahead_checked
    <2>1. (checked_at - window) * Rate <= (uptime - window) * Rate
          /\ (checked_at - window) * Rate \in Int /\ let_through * Per \in Int
      BY <1>1, RefillMonotone
    <2>2. QED
      BY <1>1, <1>2, <1>4, <2>1 DEF WindowBound
  <1>5. QED
    BY <1>3, <1>4 DEF IInv, Budget

LEMMA BehindInit == SourceInit => Behind
  BY LimiterAssumption DEF SourceInit, Behind, NewLimiter

LEMMA BehindNext == SourceTypeOK /\ Behind /\ [SourceNext]_sourceVars => Behind'
  <1> SUFFICES ASSUME SourceTypeOK, Behind, [SourceNext]_sourceVars PROVE Behind'
    OBVIOUS
  <1>0. /\ reading \in Int /\ highest \in Int /\ limiter \in Limiters(Int)
        /\ limiter.allowance \in Int /\ limiter.last_ts \in Int
        /\ Rate \in Nat /\ Per \in Nat /\ Capacity \in Nat
    BY SourceTypes
  <1>1. CASE SourceCheck
    <2> DEFINE full == Refilled(limiter, reading)
    <2>1. /\ limiter'.last_ts = reading /\ full \in Int
          /\ highest' = IF reading > highest THEN reading ELSE highest
          /\ limiter'.allowance = IF full >= Per THEN full - Per ELSE full
      BY <1>0, <1>1, LimiterTypes DEF SourceCheck, Checked, Allows
    <2>2. limiter.allowance + (reading - limiter.last_ts) * Rate
             >= (reading - highest) * Rate
      <3>1. (limiter.last_ts - highest) * Rate + (reading - limiter.last_ts) * Rate
                = (reading - highest) * Rate
        BY <1>0, RefillsAdd
      <3>2. (limiter.last_ts - highest) * Rate \in Int
            /\ (reading - limiter.last_ts) * Rate \in Int
        BY <1>0
      <3>3. QED
        BY <1>0, <3>1, <3>2 DEF Behind
    <2>3. \/ full >= Capacity
          \/ full >= (reading - highest) * Rate
      BY <1>0, <2>2 DEF Refilled, Throttle
    <2>4. CASE reading <= highest
      <3>1. (reading - highest) * Rate <= 0 * Rate
        BY <1>0, <2>4, RefillMonotone
      <3>2. limiter'.allowance >= (reading - highest) * Rate
        BY <1>0, <2>1, <2>3, <3>1
      <3>3. QED
        BY <1>0, <2>1, <2>4, <3>2 DEF Behind
    <2>5. CASE reading > highest
      <3>1. 0 * Rate <= (reading - highest) * Rate /\ (reading - reading) * Rate = 0
        BY <1>0, <2>5, RefillMonotone
      <3>2. limiter'.allowance >= 0
        BY <1>0, <2>1, <2>3, <3>1
      <3>3. QED
        BY <1>0, <2>1, <2>5, <3>1, <3>2 DEF Behind
    <2>6. QED
      BY <1>0, <2>4, <2>5
  <1>2. CASE SourceTick \/ Adjust \/ Observe \/ UNCHANGED sourceVars
    BY <1>2 DEF SourceTick, Adjust, Observe, sourceVars, Behind
  <1>3. QED
    BY <1>1, <1>2 DEF SourceNext

\* Once the clock is a whole interval past all it was at a check, the bucket
\* is full.
LEMMA BehindBounds == SourceTypeOK /\ Behind => RefusalIsBounded
  <1> SUFFICES ASSUME SourceTypeOK, Behind, reading - highest >= Per
               PROVE  Allows(limiter, reading)
    BY DEF RefusalIsBounded
  <1>0. /\ reading \in Int /\ highest \in Int
        /\ limiter.allowance \in Int /\ limiter.last_ts \in Int
        /\ Rate \in Nat /\ Per \in Nat /\ Capacity \in Nat /\ Per <= Capacity
    BY SourceTypes
  <1>1. Per * Rate <= (reading - highest) * Rate /\ Per * Rate = Capacity
    BY <1>0, RefillMonotone DEF Capacity
  <1>2. (limiter.last_ts - highest) * Rate
            + (reading - limiter.last_ts) * Rate = (reading - highest) * Rate
    BY <1>0, RefillsAdd
  <1>3. (limiter.last_ts - highest) * Rate \in Int
        /\ (reading - limiter.last_ts) * Rate \in Int
    BY <1>0
  <1>4. limiter.allowance + (reading - limiter.last_ts) * Rate >= Capacity
    BY <1>0, <1>1, <1>2, <1>3 DEF Behind
  <1>5. QED
    BY <1>0, <1>4 DEF Allows, Refilled, Throttle

\* The strengthened invariant holds throughout (rate-limiter.cpp:16-41).
THEOREM LimiterInvariant == SourceSpec => []IInv
  BY IInvInit, IInvNext, PTL DEF SourceSpec

\* In any stretch of time at most one full bucket plus its refills is let
\* through, and for each time the clock is set forward what that time would
\* have refilled, at most one bucket (rate-limiter.cpp:16-41).
THEOREM WindowBounded == SourceSpec => []WindowBound
  BY LimiterInvariant, IInvBounds, PTL

\* A source that kept quiet until the clock was an interval past all it had
\* been at a check is let through (rate-limiter.cpp:26-36, time.cpp:12-23).
THEOREM RefusalsEnd == SourceSpec => []RefusalIsBounded
  <1>1. IInv => SourceTypeOK
    BY DEF IInv
  <1>2. QED
    BY <1>1, LimiterInvariant, BehindInit, BehindNext, BehindBounds, PTL
    DEF SourceSpec

-----------------------------------------------------------------------------
(* A table of them.                                                        *)

\* What the limiter of h let through and what is left in its bucket never
\* exceed a bucket and the refills since it was made.
TableBudget ==
    \A h \in Remembered :
        /\ born[h] <= history[h].last_ts
        /\ granted[h] * Per + history[h].allowance
               <= Capacity + (history[h].last_ts - born[h]) * Rate

TableInv == TypeOK /\ TableBudget

-----------------------------------------------------------------------------
(* Limiters that are never checked at an earlier time than before.         *)

\* A limiter as it is in the table at time now, or a new one.
Sound(l, now) ==
    /\ l = [last_ts |-> l.last_ts, allowance |-> l.allowance]
    /\ l.last_ts \in 0..now /\ l.allowance \in 0..Capacity

LEMMA CheckedIsSound ==
    ASSUME NEW now \in Nat, NEW l, Sound(l, now)
    PROVE  /\ Capacity \in Nat
           /\ Refilled(l, now) \in 0..Capacity
           /\ Checked(l, now) \in [last_ts : {now}, allowance : 0..Capacity]
           /\ Checked(l, now).last_ts = now
           /\ Checked(l, now).allowance
                  = Refilled(l, now) - (IF Allows(l, now) THEN Per ELSE 0)
  <1> USE LimiterAssumption
  <1>1. Capacity \in Nat
    BY DEF Capacity
  <1>2. l.allowance \in 0..Capacity /\ (now - l.last_ts) * Rate \in Nat
    BY <1>1 DEF Sound
  <1>3. Refilled(l, now) \in 0..Capacity
    BY <1>1, <1>2 DEF Refilled, Throttle
  <1>4. QED
    BY <1>1, <1>3 DEF Checked, Allows

LEMMA LimiterForIsSound ==
    ASSUME TypeOK, NEW h \in Hashes
    PROVE  clock \in Nat /\ Epoch <= clock /\ Sound(LimiterFor(h), clock)
  <1> USE LimiterAssumption, SeenAssumption
  <1>1. Capacity \in Nat
    BY DEF Capacity
  <1>2. clock \in Nat /\ Epoch <= clock
    BY DEF TypeOK
  <1>3. CASE h \in Remembered
    <2>1. history[h] \in [last_ts : Epoch..clock, allowance : 0..Capacity]
      BY <1>3 DEF TypeOK
    <2>2. QED
      BY <1>2, <1>3, <2>1 DEF LimiterFor, Sound
  <1>4. CASE h \notin Remembered
    BY <1>1, <1>2, <1>4 DEF LimiterFor, NewLimiter, Sound
  <1>5. QED
    BY <1>2, <1>3, <1>4

-----------------------------------------------------------------------------
LEMMA TableInvInit == Init => TableInv
  <1> SUFFICES ASSUME Init PROVE TableInv
    OBVIOUS
  <1>1. Remembered = {}
    BY DEF Init, Remembered
  <1>2. TableBudget
    BY <1>1 DEF TableBudget
  <1>3. /\ seen_at \in [Hashes -> Nat] /\ born \in [Hashes -> Nat]
        /\ granted \in [Hashes -> Nat]
    BY DEF Init
  <1>4. clock \in Epoch..(IF MaxClock > Epoch THEN MaxClock ELSE Epoch)
    BY SeenAssumption DEF Init
  <1>5. QED
    BY <1>1, <1>2, <1>3, <1>4 DEF Init, TableInv, TypeOK

\* A message is checked, and remembered from then on.
LEMMA CheckKeeps ==
    ASSUME TableInv, NEW h \in Hashes, Check(h) PROVE TableInv'
  <1> USE LimiterAssumption, SeenAssumption
  <1> DEFINE l == LimiterFor(h)
             n == IF Allows(l, clock) THEN 1 ELSE 0
  <1>1. clock \in Nat /\ Epoch <= clock /\ Sound(l, clock)
    BY LimiterForIsSound DEF TableInv
  <1>2. /\ Capacity \in Nat
        /\ Refilled(l, clock) \in 0..Capacity
        /\ Checked(l, clock) \in [last_ts : {clock}, allowance : 0..Capacity]
        /\ Checked(l, clock).last_ts = clock
        /\ Checked(l, clock).allowance = Refilled(l, clock) - n * Per
    BY <1>1, CheckedIsSound
  <1>3. /\ Remembered' = Remembered \cup {h}
        /\ history'[h] = Checked(l, clock)
        /\ \A g \in Remembered \ {h} : history'[g] = history[g]
        /\ clock' = clock
    BY DEF Check, Remembered
  <1>4. /\ seen_at \in [Hashes -> Nat] /\ born \in [Hashes -> Nat]
        /\ granted \in [Hashes -> Nat] /\ Remembered \subseteq Hashes
    BY DEF TableInv, TypeOK
  <1>5. /\ seen_at' \in [Hashes -> Nat] /\ born' \in [Hashes -> Nat]
        /\ granted' \in [Hashes -> Nat]
        /\ \A g \in Hashes \ {h} : born'[g] = born[g] /\ granted'[g] = granted[g]
        /\ IF h \in Remembered
           THEN granted'[h] = granted[h] + n /\ born'[h] = born[h]
           ELSE granted'[h] = n /\ born'[h] = clock
    BY <1>1, <1>4 DEF Check
  <1>6. TypeOK'
    <2>1. \A g \in Remembered' :
             history'[g] \in [last_ts : Epoch..clock, allowance : 0..Capacity]
      BY <1>1, <1>2, <1>3 DEF TableInv, TypeOK
    <2>2. cleaner' \in {"top", "ready", "asleep", "done"}
      BY DEF TableInv, TypeOK, Check, Notified
    <2>3. QED
      BY <1>3, <1>4, <1>5, <2>1, <2>2 DEF TableInv, TypeOK, Check
  <1>7. ASSUME NEW g \in Remembered'
        PROVE  /\ born'[g] <= history'[g].last_ts
               /\ granted'[g] * Per + history'[g].allowance
                      <= Capacity + (history'[g].last_ts - born'[g]) * Rate
    <2>1. CASE g # h
      BY <1>3, <1>4, <1>5, <2>1 DEF TableInv, TableBudget
    <2>2. CASE g = h /\ h \notin Remembered
      <3>1. granted'[h] * Per + history'[h].allowance <= Capacity
        BY <1>2, <1>3, <1>5, <2>2
      <3>2. QED
        BY <1>1, <1>2, <1>3, <1>5, <2>2, <3>1
    <2>3. CASE g = h /\ h \in Remembered
      <3> DEFINE last == history[h].last_ts
                 left == history[h].allowance
      <3>1. /\ last \in Nat /\ last <= clock /\ left \in Nat
            /\ granted[h] \in Nat /\ born[h] \in Nat /\ born[h] <= last
            /\ granted[h] * Per + left <= Capacity + (last - born[h]) * Rate
            /\ l = history[h]
        BY <1>2, <1>4, <2>3 DEF TableInv, TypeOK, TableBudget, LimiterFor
      <3>2. Refilled(l, clock) <= left + (clock - last) * Rate
        BY <1>1, <1>2, <3>1 DEF Refilled, Throttle
      <3>3. (last - born[h]) * Rate + (clock - last) * Rate
                = (clock - born[h]) * Rate
        BY <1>1, <3>1
      <3>4. (granted[h] + n) * Per = granted[h] * Per + n * Per
        BY <3>1
      <3>5. granted[h] * Per + Refilled(l, clock)
                <= Capacity + (clock - born[h]) * Rate
        BY <1>1, <1>2, <3>1, <3>2, <3>3
      <3>6. QED
        BY <1>1, <1>2, <1>3, <1>5, <2>3, <3>1, <3>4, <3>5
    <2>4. QED
      BY <1>3, <2>1, <2>2, <2>3
  <1>8. QED
    BY <1>6, <1>7 DEF TableInv, TableBudget

\* What the sweep leaves is as it was.
LEMMA SweepKeeps ==
    ASSUME TableInv, CleanerSweep PROVE TableInv'
  <1>1. PICK S \in SweepChoices :
            /\ history' = [g \in Remembered \ S |-> history[g]]
            /\ granted' = [g \in Hashes |-> IF g \in S THEN 0 ELSE granted[g]]
    BY DEF CleanerSweep
  <1>2. /\ Remembered' = Remembered \ S
        /\ \A g \in Remembered' : history'[g] = history[g]
    BY <1>1 DEF Remembered
  <1>3. granted' \in [Hashes -> Nat]
        /\ \A g \in Remembered' : granted'[g] = granted[g]
    BY <1>1, <1>2 DEF TableInv, TypeOK
  <1>4. UNCHANGED <<clock, terminate, stopper, seen_at, born>> /\ cleaner' = "top"
    BY DEF CleanerSweep
  <1>5. TypeOK'
    BY <1>2, <1>3, <1>4 DEF TableInv, TypeOK
  <1>6. TableBudget'
    BY <1>2, <1>3, <1>4 DEF TableInv, TableBudget
  <1>7. QED
    BY <1>5, <1>6 DEF TableInv

\* Time passes; a limiter is not touched by it.
LEMMA TickKeeps ==
    ASSUME TableInv, Tick PROVE TableInv'
  <1>1. clock \in Nat /\ clock' = clock + 1 /\ clock' \in Epoch..MaxClock
    BY SeenAssumption DEF TableInv, TypeOK, Tick
  <1>2. UNCHANGED <<history, terminate, cleaner, stopper, seen_at, born, granted>>
    BY DEF Tick
  <1>3. TypeOK'
    BY <1>1, <1>2, SeenAssumption DEF TableInv, TypeOK, Remembered
  <1>4. QED
    BY <1>2, <1>3 DEF TableInv, TableBudget, Remembered

LEMMA TableInvNext == TableInv /\ [Next]_vars => TableInv'
  <1> SUFFICES ASSUME TableInv, [Next]_vars PROVE TableInv'
    OBVIOUS
  <1>1. CASE CleanerTop \/ CleanerSleep \/ CleanerTimeout \/ Stop \/ UNCHANGED vars
    <2>1. UNCHANGED <<clock, history, seen_at, born, granted>>
      BY <1>1 DEF CleanerTop, CleanerSleep, CleanerTimeout, Stop, StopSet,
                  StopNotify, StopJoin, vars
    <2>2. /\ terminate' \in BOOLEAN
          /\ cleaner' \in {"top", "ready", "asleep", "done"}
          /\ stopper' \in {"running", "set", "joining", "joined"}
      BY <1>1 DEF TableInv, TypeOK, CleanerTop, CleanerSleep, CleanerTimeout, Stop,
                  StopSet, StopNotify, StopJoin, Notified, vars
    <2>3. QED
      BY <2>1, <2>2 DEF TableInv, TypeOK, TableBudget, Remembered
  <1>2. QED
    BY <1>1, CheckKeeps, SweepKeeps, TickKeeps DEF Next, Cleaner

-----------------------------------------------------------------------------
LEMMA TableInvHolds == Spec => []TableInv
  BY TableInvInit, TableInvNext, PTL DEF Spec

LEMMA TableInvBounds == TableInv => RepeatsBounded
  <1> SUFFICES ASSUME TableInv, NEW h \in Remembered
               PROVE  granted[h] * Per <= Capacity + (clock - born[h]) * Rate
    BY DEF RepeatsBounded
  <1> USE LimiterAssumption, SeenAssumption
  <1> DEFINE last == history[h].last_ts
  <1>1. /\ clock \in Nat /\ last \in Nat /\ last <= clock /\ Capacity \in Nat
        /\ history[h].allowance \in Nat
        /\ granted[h] \in Nat /\ born[h] \in Nat
    BY DEF TableInv, TypeOK, Capacity
  <1>2. granted[h] * Per + history[h].allowance
            <= Capacity + (last - born[h]) * Rate
    BY DEF TableInv, TableBudget
  <1>3. (last - born[h]) * Rate <= (clock - born[h]) * Rate
    BY <1>1
  <1>4. QED
    BY <1>1, <1>2, <1>3

(***************************************************************************)
(* However large the table may be, whatever is sent and whenever it is     *)
(* swept: as long as a message is remembered it is let through no more     *)
(* often than one bucket and its refills allow. (seen.cpp:46-72)           *)
(***************************************************************************)
THEOREM RepeatsAlwaysBounded == Spec => []RepeatsBounded
  BY TableInvHolds, TableInvBounds, PTL
=============================================================================

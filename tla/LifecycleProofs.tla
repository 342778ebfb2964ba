---------------------------- MODULE LifecycleProofs ----------------------------
(***************************************************************************)
(* For every configuration file: no thread uses what was deleted, a file   *)
(* in the usual order gets the program to run, and who reads the position  *)
(* undisturbed gets what gpsd said last.                                   *)
(***************************************************************************)
EXTENDS Lifecycle, TLAPS

-----------------------------------------------------------------------------
(* The position.                                                           *)

Fixes == Places \cup {Nowhere}
Coordinates == Fixes \cup {Leftover, "default"}

\* What a call may return is among what was there since it began.
GpsInv ==
    /\ fix \in Fixes /\ current_position \in Fixes
    /\ reader \in [Readers -> {"idle", "copying", "returned"}]
    /\ got \in [Readers -> Coordinates \X Coordinates]
    /\ during \in [Readers -> SUBSET Fixes]
    /\ follower # "storing" => current_position = fix
    /\ \A r \in Readers :
          /\ reader[r] # "idle" => Present \subseteq during[r]
          /\ reader[r] = "copying" => \E p \in during[r] : p # Nowhere
          /\ reader[r] = "returned" => \A p \in Fixes : during[r] = {p} =>
                got[r] = IF p = Nowhere THEN Default ELSE Position(p)

-----------------------------------------------------------------------------
(* Who exists while who runs.                                              *)

N == Len(file.tranceivers)
Tr(i) == file.tranceivers[i]

AfterDelete == {"global filter", "gps", "returned"}
AfterStop == {"delete"} \cup AfterDelete
TearingDown == {"switchboard", "stop"} \cup AfterStop

Live == {"top", "waiting", "reading", "telling", "checking", "locating", "queueing"}
Broken == {"exited", "crashed", "failed", "corrupted"}

\* A detached thread may be left behind from here on.
LeftBehind(t) == Detached(t) /\ main \in {"delete", "global filter", "gps"}

TypeOK ==
    /\ file \in Files /\ section \in Nat /\ section >= 1 /\ at \in Nat /\ at >= 1
    /\ main \in {"loading", "running"} \cup Broken \cup TearingDown
    /\ thread \in [Readers -> {"none", "ended"} \cup Live]
    /\ web \in {"none", "idle", "querying", "ended"}

\* The loops over the tranceivers begin with the first.
FromTheFirst ==
    /\ main = "loading" /\ ~Section("tranceivers") => at = 1
    /\ main \in {"running", "switchboard"} => at = 1

\* A thread belongs to a tranceiver of the file, which is there with its
\* filter; only those who have a filter check it; only those who were given a
\* connector wait for its answer.
Founded ==
    \A t \in Readers :
        /\ thread[t] # "none" => \E i \in 1..N : Tr(i) = t
        /\ Going /\ thread[t] \in Live =>
              \/ Self(t) \in alive /\ (Filtered(t) => FilterOf(t) \in alive)
              \/ LeftBehind(t)
        /\ thread[t] \in {"reading", "checking"} => Filtered(t)
        /\ Going /\ thread[t] = "locating" => t \in given

\* The work queue and the connector stay until the end.
Shared ==
    /\ main # "returned" => The("work queue") \in alive
    /\ given # {} /\ main # "returned" => The("gps") \in alive
    /\ main = "loading" => \A i \in 1..Len(file.sections) :
           i < section /\ file.sections[i] = "general" => The("gps") \in alive
    /\ main \in {"running"} \cup TearingDown /\ Contains(file.sections, "general") =>
           IF main = "returned" THEN file.follows => follower = "done"
                                ELSE The("gps") \in alive

\* Who has a loop of his own has ended when stop() returned, the others when
\* they were deleted, but for the detached ones.
Ended ==
    /\ main = "stop" => \A i \in 1..N :
           i < at /\ OwnLoop(Tr(i)) => thread[Tr(i)] = "ended"
    /\ main \in AfterStop => \A i \in 1..N :
           OwnLoop(Tr(i)) => thread[Tr(i)] = "ended"
    /\ main = "delete" => \A i \in 1..N :
           i < at /\ Tr(i) \in Readers /\ ~Detached(Tr(i)) => thread[Tr(i)] = "ended"
    /\ main \in AfterDelete => \A i \in 1..N :
           Tr(i) \in Readers /\ ~Detached(Tr(i)) => thread[Tr(i)] = "ended"

\* The web server's connection: its tranceiver is in the file, and made after
\* that of the database.
Served ==
    /\ web # "none" => \E i \in 1..N : Kind[Tr(i)] = "ws"
    /\ web # "none" /\ Has(file, "db") /\ main \notin AfterStop /\ Going
           => The("database") \in alive
    /\ main = "delete" => \A i \in 1..N :
           i < at /\ Kind[Tr(i)] = "ws" => web \in {"none", "ended"}
    /\ main \in AfterDelete => web \in {"none", "ended"}

LInv == TypeOK /\ FromTheFirst /\ Founded /\ Shared /\ Ended /\ Served

\* What was made of a file in the usual order up to here.
MadeInOrder ==
    /\ main \notin {"exited", "crashed"}
    /\ main = "loading" /\ section >= 2 => The("gps") \in alive
    /\ main = "loading" /\ section >= 3 => The("filters") \in alive
    /\ \A t \in Readers : thread[t] \in Live => t \in given
    /\ main = "loading" => \A i \in 1..N :
           (section = 3 /\ i < at) \/ section >= 4 => Brought(Tr(i)) \subseteq alive
    /\ (main = "loading" /\ section >= 5) \/ main = "running"
           => The("switchboard") \in alive
Ordered == InOrder(file) /\ NamesDefined(file) => MadeInOrder

LEMMA DefaultType == Default \in Coordinates \X Coordinates
  BY DEF Default, Position, Coordinates, Fixes

\* Outside get_position() and the thread that follows gpsd nothing changes.
LEMMA GpsStutter == GpsInv /\ UNCHANGED gpsVars => GpsInv'
  BY DEF GpsInv, gpsVars, Present

\* operator() of gps.cpp: a store joins what every call at work may see.
LEMMA GpsFollower == GpsInv /\ Follower => GpsInv'
  <1> SUFFICES ASSUME GpsInv, Follower PROVE GpsInv'
    OBVIOUS
  <1>1. CASE Top \/ NoData \/ Lose
    BY <1>1 DEF Top, NoData, Lose, GpsInv, Present
  <1>2. CASE Hear
    <2>1. /\ fix' \in Fixes /\ follower = "waiting" /\ follower' = "storing"
          /\ reader' = reader /\ got' = got /\ current_position' = current_position
          /\ during' = [r \in Readers |->
                IF reader[r] = "idle" THEN {} ELSE during[r] \cup {fix'}]
      BY <1>2 DEF Hear, Joined, Fixes
    <2>2. during' \in [Readers -> SUBSET Fixes]
      BY <2>1 DEF GpsInv
    <2>3. ASSUME NEW r \in Readers, reader[r] # "idle"
          PROVE  /\ during'[r] = during[r] \cup {fix'}
                 /\ current_position \in during[r]
      BY <2>1, <2>3 DEF GpsInv, Present
    <2>4. ASSUME NEW r \in Readers, reader[r] # "idle"
          PROVE  Present' \subseteq during'[r]
      BY <2>1, <2>3, <2>4 DEF Present
    <2>5. ASSUME NEW r \in Readers, reader[r] = "copying"
          PROVE  \E p \in during'[r] : p # Nowhere
      BY <2>3, <2>5 DEF GpsInv
    <2>6. ASSUME NEW r \in Readers, reader[r] = "returned",
                 NEW p \in Fixes, during'[r] = {p}
          PROVE  got[r] = IF p = Nowhere THEN Default ELSE Position(p)
      <3>1. during[r] = {p}
        BY <2>3, <2>6
      <3>2. QED
        BY <2>6, <3>1 DEF GpsInv
    <2>7. QED
      BY <2>1, <2>2, <2>4, <2>5, <2>6 DEF GpsInv
  <1>3. CASE Store
    BY <1>3 DEF Store, GpsInv, Present
  <1>4. QED
    BY <1>1, <1>2, <1>3 DEF Follower

\* A call begins: it sees what is there, or what is becoming.
LEMMA GpsHasValue ==
    ASSUME NEW r \in Readers, GpsInv, HasValue(r)
    PROVE  GpsInv'
  <1>1. /\ during' = [during EXCEPT ![r] = Present]
        /\ UNCHANGED <<current_position, follower, fix>>
    BY DEF HasValue
  <1>2. Present' = Present /\ Present \subseteq Fixes
    BY <1>1 DEF Present, GpsInv
  <1>3. PICK seen \in Present :
          IF seen # Nowhere
          THEN reader' = [reader EXCEPT ![r] = "copying"] /\ UNCHANGED got
          ELSE /\ reader' = [reader EXCEPT ![r] = "returned"]
               /\ got' = [got EXCEPT ![r] = Default]
    BY DEF HasValue
  <1>4. /\ reader' \in [Readers -> {"idle", "copying", "returned"}]
        /\ got' \in [Readers -> Coordinates \X Coordinates]
        /\ during' \in [Readers -> SUBSET Fixes]
    BY <1>1, <1>2, <1>3, DefaultType DEF GpsInv
  <1>5. ASSUME NEW q \in Readers
        PROVE  /\ reader'[q] # "idle" => Present' \subseteq during'[q]
               /\ reader'[q] = "copying" => \E p \in during'[q] : p # Nowhere
               /\ reader'[q] = "returned" => \A p \in Fixes : during'[q] = {p} =>
                     got'[q] = IF p = Nowhere THEN Default ELSE Position(p)
    <2>1. CASE q # r
      BY <1>1, <1>2, <1>3, <2>1 DEF GpsInv
    <2>2. CASE q = r
      BY <1>1, <1>2, <1>3, <2>2 DEF GpsInv
    <2>3. QED
      BY <2>1, <2>2
  <1>6. QED
    BY <1>1, <1>2, <1>4, <1>5 DEF GpsInv

\* The words of one value only make that value.
LEMMA OneValueCopied ==
    ASSUME NEW r \in Readers, NEW p \in Fixes, p # Nowhere, during[r] = {p}
    PROVE  Copies(r) = {Position(p)}
  <1>1. Words(r) = {p}
    BY DEF Words
  <1>2. QED
    BY <1>1 DEF Copies, Position

\* ... and it returns: the copy is made of words that were there.
LEMMA GpsReturn ==
    ASSUME NEW r \in Readers, GpsInv, Return(r)
    PROVE  GpsInv'
  <1>1. /\ UNCHANGED <<current_position, follower, fix, during>>
        /\ reader[r] = "copying"
        /\ reader' = [reader EXCEPT ![r] = "returned"]
    BY DEF Return
  <1>2. PICK c \in Copies(r) : got' = [got EXCEPT ![r] = c]
    BY DEF Return
  <1>3. c \in Coordinates \X Coordinates
    <2>1. Words(r) \subseteq Coordinates
      BY DEF Words, GpsInv, Coordinates
    <2>2. Position(Nowhere) \in Coordinates \X Coordinates
      BY DEF Position, Coordinates, Fixes
    <2>3. QED
      BY <2>1, <2>2 DEF Copies
  <1>4. ASSUME NEW p \in Fixes, during[r] = {p}
        PROVE  p # Nowhere /\ c = Position(p)
    <2>1. p # Nowhere
      BY <1>1, <1>4 DEF GpsInv
    <2>2. QED
      BY <1>2, <1>4, <2>1, OneValueCopied
  <1>5. Present' = Present
    BY <1>1 DEF Present
  <1>6. /\ reader' \in [Readers -> {"idle", "copying", "returned"}]
        /\ got' \in [Readers -> Coordinates \X Coordinates]
    BY <1>1, <1>2, <1>3 DEF GpsInv
  <1>7. ASSUME NEW q \in Readers
        PROVE  /\ reader'[q] # "idle" => Present' \subseteq during'[q]
               /\ reader'[q] = "copying" => \E p \in during'[q] : p # Nowhere
               /\ reader'[q] = "returned" => \A p \in Fixes : during'[q] = {p} =>
                     got'[q] = IF p = Nowhere THEN Default ELSE Position(p)
    <2>1. CASE q # r
      BY <1>1, <1>2, <1>5, <2>1 DEF GpsInv
    <2>2. CASE q = r
      BY <1>1, <1>2, <1>4, <1>5, <2>2 DEF GpsInv
    <2>3. QED
      BY <2>1, <2>2
  <1>8. QED
    BY <1>1, <1>6, <1>7 DEF GpsInv

LEMMA GpsUsed ==
    ASSUME NEW r \in Readers, GpsInv, Used(r)
    PROVE  GpsInv'
  BY DefaultType DEF Used, GpsInv, Present

\* Every step of the program is one of these for the position.
LEMMA GpsStep == GpsInv /\ [Next]_vars => GpsInv'
  <1> SUFFICES ASSUME GpsInv, [Next]_vars PROVE GpsInv'
    OBVIOUS
  <1>1. CASE UNCHANGED gpsVars
    BY <1>1, GpsStutter
  <1>2. CASE Follow
    BY <1>2, GpsFollower DEF Follow
  <1>3. CASE TellGps
    BY <1>3 DEF TellGps, Stop, GpsInv, Present
  <1>4. ASSUME NEW t \in Readers, HasValue(t) \/ Return(t) \/ Used(t)
        PROVE  GpsInv'
    BY <1>4, GpsHasValue, GpsReturn, GpsUsed
  <1>5. CASE Load \/ MainPut \/ Signal \/ Visit \/ Answer \/ Unavailable \/ Misuse
    <2>1. UNCHANGED gpsVars
      BY <1>5 DEF Load, LoadGeneral, LoadFilters, LoadMappings, Instantiate,
                  Instantiated, Start, MainPut, Signal, Visit, Answer, Unavailable,
                  Misuse
    <2>2. QED
      BY <2>1, <1>1
  <1>6. CASE TearDown /\ ~TellGps
    <2>1. UNCHANGED gpsVars
      BY <1>6 DEF TearDown, Leave, Delete, LoopDone, Tell, Join, Destroy, JoinGps
    <2>2. QED
      BY <2>1, <1>1
  <1>7. ASSUME NEW t \in Readers, Thread(t) \/ Frame(t)
        PROVE  GpsInv'
    <2>1. \/ UNCHANGED gpsVars
          \/ HasValue(t) \/ Return(t) \/ Used(t)
      BY <1>7 DEF Thread, LoopTop, Wake, Receive, Frame, Checked, Locate, Copy,
                  Located, Queue, NothingElse
    <2>2. QED
      BY <2>1, <1>1, <1>4
  <1>8. CASE UNCHANGED vars
    BY <1>8, <1>1 DEF vars
  <1>9. QED
    BY <1>2, <1>3, <1>5, <1>6, <1>7, <1>8 DEF Next

LEMMA GpsStart == Init => GpsInv
  BY DefaultType DEF Init, GpsInit, GpsInv, Fixes

(***************************************************************************)
(* Whoever called get_position() while nothing was stored got what gpsd    *)
(* said last, or the default: the copy of the optional is made without a   *)
(* lock, but only a store that overlaps can spoil it.                      *)
(* (gps.cpp:169-177, 188-194)                                              *)
(***************************************************************************)
THEOREM LastReportAlwaysCounts == Spec => []LastReportCounts
  <1>1. GpsInv => LastReportCounts
    BY DEF GpsInv, LastReportCounts, Undisturbed
  <1>2. QED
    BY <1>1, GpsStart, GpsStep, PTL DEF Spec

-----------------------------------------------------------------------------
(* What the proofs below keep asking.                                      *)

LEMMA FileType ==
    ASSUME TypeOK
    PROVE  /\ file.sections \in Seq(STRING) /\ Len(file.sections) \in Nat
           /\ file.tranceivers \in Seq(DOMAIN Kind) /\ N \in Nat
           /\ \A i \in 1..N : Tr(i) \in DOMAIN Kind
           /\ \A i \in 1..N : OwnLoop(Tr(i)) \/ Filtered(Tr(i)) => Tr(i) \in Readers
  <1>1. /\ file.sections \in Seq(STRING)
        /\ file.tranceivers \in Seq(DOMAIN Kind)
    BY LifecycleAssumption DEF TypeOK
  <1>2. \A i \in 1..N : Tr(i) \in DOMAIN Kind
    BY <1>1 DEF N, Tr
  <1>3. QED
    BY <1>1, <1>2, LifecycleAssumption DEF N, Tr, OwnLoop, Filtered

\* The objects of one tranceiver are not those of another, nor the program's.
LEMMA BroughtOnly ==
    /\ \A t, u : Self(u) \in Brought(t) \/ FilterOf(u) \in Brought(t) => u = t
    /\ \A t : /\ The("work queue") \notin Brought(t)
              /\ The("gps") \notin Brought(t)
              /\ The("switchboard") \notin Brought(t)
    /\ \A t : The("database") \in Brought(t) <=> Kind[t] = "db"
    /\ \A t : Self(t) \in Brought(t) /\ (Filtered(t) => FilterOf(t) \in Brought(t))
  BY DEF Self, FilterOf, The, Brought

LEMMA AfterIs ==
    /\ After("switchboard") = "stop" /\ After("stop") = "delete"
    /\ After("delete") = "global filter" /\ After("global filter") = "gps"
    /\ After("gps") = "returned"
  BY DEF After

LEMMA TheIs ==
    \A k, l \in STRING : The(k) = The(l) => k = l
  BY DEF The

\* Where only the position or the thread that follows gpsd changes, and not
\* after the end.
LEMMA OnlyThePosition ==
    ASSUME LInv, Going \/ follower' = follower,
           UNCHANGED <<file, main, section, at, alive, given, thread, web>>
    PROVE  LInv'
  <1> USE DEF LInv, N, Tr
  <1>1. TypeOK'
    BY DEF TypeOK
  <1>2. FromTheFirst'
    BY DEF FromTheFirst, Section
  <1>3. Founded'
    BY DEF Founded, Self, FilterOf, Filtered, Going, LeftBehind, Detached
  <1>4. Shared'
    BY DEF Shared, The, Going, Contains
  <1>5. Ended'
    BY DEF Ended, OwnLoop, Detached
  <1>6. Served'
    BY DEF Served, Going, Has, The
  <1>7. QED
    BY <1>1, <1>2, <1>3, <1>4, <1>5, <1>6

\* The program ends before its time: nothing else changes any more.
LEMMA Breaks ==
    ASSUME LInv, Going, main' \in Broken,
           UNCHANGED <<file, section, at, alive, given, thread, web>>
    PROVE  LInv'
  <1> USE DEF LInv, N, Tr, Broken, TearingDown, AfterStop, AfterDelete
  <1>1. TypeOK' /\ FromTheFirst'
    BY DEF TypeOK, FromTheFirst
  <1>2. Founded'
    BY DEF Founded, Filtered, Going
  <1>3. Shared'
    BY DEF Shared, The, Going
  <1>4. Ended'
    BY DEF Ended
  <1>5. Served'
    BY DEF Served, Going
  <1>6. QED
    BY <1>1, <1>2, <1>3, <1>4, <1>5

\* The threads only: one that runs goes on, or ends.
LEMMA ThreadGoes ==
    ASSUME LInv, Going, NEW t \in Readers, NEW to \in Live \cup {"ended"},
           thread[t] \in Live, thread' = [thread EXCEPT ![t] = to],
           to \in {"reading", "checking"} => Filtered(t),
           to = "locating" => t \in given \/ main' = "crashed",
           main' \in {main, "crashed"},
           UNCHANGED <<file, section, at, alive, given, web>>
    PROVE  LInv'
  <1> USE DEF LInv
  <1> USE DEF Broken, TearingDown, AfterStop, AfterDelete
  <1>1. TypeOK'
    BY DEF TypeOK, Live
  <1>2. FromTheFirst'
    BY DEF FromTheFirst, Section, TypeOK
  <1>3. Founded'
    <2>1. ASSUME NEW u \in Readers
          PROVE  /\ thread'[u] # "none" => \E i \in 1..N : Tr(i) = u
                 /\ Going' /\ thread'[u] \in Live =>
                       \/ Self(u) \in alive /\ (Filtered(u) => FilterOf(u) \in alive)
                       \/ LeftBehind(u)'
                 /\ thread'[u] \in {"reading", "checking"} => Filtered(u)
                 /\ Going' /\ thread'[u] = "locating" => u \in given
      <3>1. CASE u = t
        BY <3>1 DEF Founded, TypeOK, Live, Going, LeftBehind, Detached
      <3>2. CASE u # t
        BY <3>2 DEF Founded, TypeOK, Live, Going, LeftBehind, Detached
      <3>3. QED
        BY <3>1, <3>2
    <2>2. QED
      BY <2>1 DEF Founded, N, Tr, Self, FilterOf, Filtered
  <1>4. Shared'
    BY DEF Shared, The, Going, TypeOK
  <1>5. Ended'
    <2>1. \A u \in Readers : thread[u] = "ended" => thread'[u] = "ended"
      BY DEF TypeOK, Live
    <2>2. \A i \in 1..N : OwnLoop(Tr(i)) => Tr(i) \in Readers
      BY FileType
    <2>3. main' = main \/ main' = "crashed"
      OBVIOUS
    <2>4. QED
      BY <2>1, <2>2, <2>3 DEF Ended, N, Tr, OwnLoop, Detached
  <1>6. Served'
    BY DEF Served, Going, Has, The, N, Tr
  <1>7. QED
    BY <1>1, <1>2, <1>3, <1>4, <1>5, <1>6

\* Of all of these only the threads' actions change, and they do so like this.
LEMMA ThreadStep ==
    ASSUME LInv, NEW t \in Readers, Thread(t) \/ Frame(t)
    PROVE  LInv'
  <1> USE DEF Goes, NothingElse, Live, Again, Begins
  <1>1. CASE LoopTop(t)
    BY <1>1, ThreadGoes DEF LoopTop
  <1>2. CASE Wake(t)
    BY <1>2, ThreadGoes DEF Wake
  <1>3. CASE Receive(t)
    BY <1>3, ThreadGoes DEF Receive
  <1>4. CASE Checked(t)
    BY <1>4, ThreadGoes DEF Checked
  <1>5. CASE Locate(t)
    BY <1>5, ThreadGoes DEF Locate
  <1>6. CASE Copy(t)
    BY <1>6, OnlyThePosition DEF Copy, lifeVars
  <1>7. CASE Located(t)
    <2>1. PICK to \in {Again(t), "queueing"} : Goes(t, "locating", to)
      BY <1>7 DEF Located
    <2>2. QED
      BY <1>7, <2>1, ThreadGoes DEF Located
  <1>8. CASE Queue(t)
    BY <1>8, ThreadGoes DEF Queue
  <1>9. CASE Frame(t)
    <2>1. Filtered(t)
      BY <1>9 DEF Frame, LInv, Founded
    <2>2. QED
      BY <1>9, <2>1, ThreadGoes DEF Frame
  <1>10. QED
    BY <1>1, <1>2, <1>3, <1>4, <1>5, <1>6, <1>7, <1>8, <1>9 DEF Thread

-----------------------------------------------------------------------------
(* main(): the program is put together ...                                 *)

\* While it is loading nothing was stopped.
LEMMA NothingStopped ==
    ASSUME main' \in {"loading", "running"} \cup Broken
    PROVE  Ended'
  BY DEF Ended, Broken, AfterStop, AfterDelete

LEMMA LoadGeneralStep ==
    ASSUME LInv, LoadGeneral
    PROVE  LInv'
  <1> USE DEF LInv, N, Tr
  <1>1. /\ main = "loading" /\ main' = "loading"
        /\ section' = section + 1 /\ section \in Nat /\ section >= 1 /\ at = 1 /\ at' = 1
        /\ alive' = alive \cup {The("gps"), The("global filter")}
        /\ UNCHANGED <<file, given, told, thread, web, work>>
    BY DEF LoadGeneral, Section, FromTheFirst, TypeOK
  <1>2. TypeOK'
    <2>1. section \in Nat /\ section >= 1 /\ section' = section + 1
      BY <1>1
    <2>2. section' \in Nat /\ section' >= 1
      BY <2>1
    <2>3. QED
      BY <1>1, <2>2 DEF TypeOK
  <1>3. FromTheFirst'
    BY <1>1 DEF FromTheFirst
  <1>4. Founded'
    BY <1>1 DEF Founded, Self, FilterOf, Filtered, Going, LeftBehind,
                Detached
  <1>5. Shared'
    BY <1>1 DEF Shared, The, TearingDown, AfterStop, AfterDelete
  <1>6. Served'
    BY <1>1 DEF Served, Going, Has, The, AfterStop, AfterDelete
  <1>7. QED
    BY <1>1, <1>2, <1>3, <1>4, <1>5, <1>6, NothingStopped

\* A section that is not the general one, after which something more exists.
LEMMA SectionStep ==
    ASSUME LInv, main = "loading", main' = "loading", at = 1,
           section <= Len(file.sections), file.sections[section] # "general",
           section' = section + 1, at' = at, alive \subseteq alive',
           UNCHANGED <<file, given, thread, web>>
    PROVE  LInv'
  <1> USE DEF LInv, N, Tr
  <1>0. /\ Len(file.sections) \in Nat /\ section \in Nat /\ section >= 1
        /\ section' \in Nat /\ section' >= 1
    BY FileType DEF TypeOK
  <1>1. TypeOK' /\ FromTheFirst'
    BY <1>0 DEF TypeOK, FromTheFirst
  <1>2. Founded'
    BY DEF Founded, Self, FilterOf, Filtered, Going, LeftBehind, Detached
  <1>3. Shared'
    <2>1. ASSUME NEW i \in 1..Len(file.sections), i < section',
                 file.sections[i] = "general"
          PROVE  The("gps") \in alive
      <3>1. i < section
        BY <1>0, <2>1
      <3>2. QED
        BY <2>1, <3>1 DEF Shared
    <2>2. QED
      BY <2>1 DEF Shared, The, TearingDown, AfterStop, AfterDelete
  <1>4. Served'
    BY DEF Served, Going, Has, The, AfterStop, AfterDelete
  <1>5. QED
    BY <1>1, <1>2, <1>3, <1>4, NothingStopped

LEMMA LoadNamesStep ==
    ASSUME LInv, LoadFilters \/ LoadMappings
    PROVE  LInv'
  <1>1. CASE LoadFilters
    <2>1. at = 1
      BY <1>1 DEF LoadFilters, Section, LInv, FromTheFirst
    <2>2. QED
      BY <1>1, <2>1, SectionStep DEF LoadFilters, Section
  <1>2. CASE LoadMappings
    <2>1. at = 1 /\ main = "loading"
      BY <1>2 DEF LoadMappings, Section, LInv, FromTheFirst
    <2>2. CASE main' = "exited"
      BY <1>2, <2>1, <2>2, Breaks DEF LoadMappings, Broken, Going
    <2>3. CASE main' # "exited"
      BY <1>2, <2>1, <2>3, SectionStep DEF LoadMappings, Section
    <2>4. QED
      BY <2>2, <2>3
  <1>3. QED
    BY <1>1, <1>2

\* The tranceiver, its filter and its thread come together; the web server's
\* is not made before the database it looks for.
LEMMA InstantiateStep ==
    ASSUME LInv, Instantiate
    PROVE  LInv'
  <1> USE DEF LInv
  <1>1. /\ main = "loading" /\ section \in Nat /\ section >= 1 /\ at \in Nat /\ at >= 1
        /\ Section("tranceivers") /\ at \in 1..N /\ Here = Tr(at)
        /\ UNCHANGED <<file, section, told, work>>
    BY FileType DEF Instantiate, Section, TypeOK, N, Tr, Here
  <1>2. CASE Unfounded(Here)
    BY <1>1, <1>2, Breaks DEF Instantiate, Broken, Going
  <1>3. CASE ~Unfounded(Here)
    <2>1. /\ alive' = alive \cup Brought(Here)
          /\ given' = given \cup GivenTo(Here)
          /\ thread' = [t \in Readers |-> IF t = Here THEN Begins(t) ELSE thread[t]]
          /\ web' = IF Kind[Here] = "ws" THEN "idle" ELSE web
          /\ at' = at + 1
          /\ main' = "loading"
      BY <1>1, <1>3 DEF Instantiate
    <2>2. TypeOK'
      BY <1>1, <2>1 DEF TypeOK, Begins, Live
    <2>3. FromTheFirst'
      BY <1>1, <2>1 DEF FromTheFirst, Section
    <2>4. Founded'
      <3>1. ASSUME NEW t \in Readers
            PROVE  /\ thread'[t] # "none" => \E i \in 1..N : Tr(i) = t
                   /\ thread'[t] \in Live =>
                         Self(t) \in alive' /\ (Filtered(t) => FilterOf(t) \in alive')
                   /\ thread'[t] \in {"reading", "checking"} => Filtered(t)
                   /\ thread'[t] = "locating" => t \in given'
        <4>1. CASE t = Here
          BY <1>1, <2>1, <4>1, BroughtOnly DEF Begins
        <4>2. CASE t # Here
          BY <1>1, <2>1, <4>2 DEF Founded, Going, LeftBehind
        <4>3. QED
          BY <4>1, <4>2
      <3>2. QED
        BY <1>1, <3>1 DEF Founded, N, Tr, Self, FilterOf, Filtered
    <2>5. Shared'
      BY <1>1, <2>1 DEF Shared, The, GivenTo, TearingDown, AfterStop, AfterDelete
    <2>6. Served'
      <3>1. CASE Kind[Here] = "ws"
        <4>1. Has(file, "db") => The("database") \in alive'
          BY <1>3, <2>1, <3>1 DEF Unfounded, NoDatabase, NoFilter
        <4>2. \E i \in 1..N : Kind[Tr(i)] = "ws"
          BY <1>1, <3>1
        <4>3. QED
          BY <1>1, <2>1, <4>1, <4>2 DEF Served, Has, The, AfterStop, AfterDelete, N, Tr
      <3>2. CASE Kind[Here] # "ws"
        BY <1>1, <2>1, <3>2
           DEF Served, Going, Has, The, AfterStop, AfterDelete, N, Tr
      <3>3. QED
        BY <3>1, <3>2
    <2>7. QED
      BY <2>1, <2>2, <2>3, <2>4, <2>5, <2>6, NothingStopped
  <1>4. QED
    BY <1>2, <1>3

LEMMA InstantiatedStep ==
    ASSUME LInv, Instantiated
    PROVE  LInv'
  <1> USE DEF LInv, N, Tr
  <1>0. Len(file.sections) \in Nat /\ section \in Nat /\ section >= 1
    BY FileType DEF TypeOK
  <1>1. /\ main = "loading" /\ main' = "loading" /\ at' = 1
        /\ section' = section + 1 /\ section \in Nat /\ section >= 1
        /\ file.sections[section] = "tranceivers"
        /\ UNCHANGED <<file, alive, given, told, thread, web, work>>
    BY DEF Instantiated, Section, TypeOK
  <1>2. TypeOK' /\ FromTheFirst'
    BY <1>1 DEF TypeOK, FromTheFirst
  <1>3. Founded'
    BY <1>1 DEF Founded, Self, FilterOf, Filtered, Going, LeftBehind,
                Detached
  <1>4. Shared'
    <2>1. ASSUME NEW i \in 1..Len(file.sections), i < section',
                 file.sections[i] = "general"
          PROVE  The("gps") \in alive'
      <3>1. section' = section + 1 /\ file.sections[section] = "tranceivers"
        BY <1>1
      <3>2. i < section
        BY <1>0, <2>1, <3>1
      <3>3. QED
        BY <1>1, <2>1, <3>2 DEF Shared
    <2>2. QED
      BY <1>1, <2>1 DEF Shared, The, TearingDown, AfterStop, AfterDelete
  <1>5. Served'
    BY <1>1 DEF Served, Going, Has, The, AfterStop, AfterDelete
  <1>6. QED
    BY <1>1, <1>2, <1>3, <1>4, <1>5, NothingStopped

\* All sections were read: so was the general one, if there is one.
LEMMA StartStep ==
    ASSUME LInv, Start
    PROVE  LInv'
  <1> USE DEF LInv, N, Tr
  <1>0. Len(file.sections) \in Nat /\ section \in Nat /\ section >= 1
    BY FileType DEF TypeOK
  <1>1. /\ main = "loading" /\ main' = "running" /\ at = 1
        /\ section > Len(file.sections)
        /\ alive' = alive \cup {The("agent")}
        /\ UNCHANGED <<file, section, at, given, told, thread, web, work>>
    <2>1. main = "loading" /\ section > Len(file.sections)
      BY DEF Start
    <2>2. ~Section("tranceivers")
      BY <2>1, FileType DEF Section, TypeOK
    <2>3. QED
      BY <2>1, <2>2 DEF Start, FromTheFirst
  <1>2. TypeOK' /\ FromTheFirst'
    BY <1>1 DEF TypeOK, FromTheFirst
  <1>3. Founded'
    BY <1>1 DEF Founded, Self, FilterOf, Filtered, Going, LeftBehind,
                Detached
  <1>4. Shared'
    <2>1. ASSUME NEW i \in 1..Len(file.sections), file.sections[i] = "general"
          PROVE  The("gps") \in alive
      <3>1. i < section
        BY <1>0, <1>1, <2>1
      <3>2. QED
        BY <1>1, <2>1, <3>1 DEF Shared
    <2>2. QED
      BY <1>1, <2>1 DEF Shared, The, Contains, TearingDown, AfterStop, AfterDelete
  <1>5. Served'
    BY <1>1 DEF Served, Going, Has, The, AfterStop, AfterDelete
  <1>6. QED
    BY <1>1, <1>2, <1>3, <1>4, <1>5, NothingStopped

LEMMA MainPutStep ==
    ASSUME LInv, MainPut
    PROVE  LInv'
  <1>1. CASE main' = "running"
    <2>1. UNCHANGED <<file, main, section, at, alive, given, thread, web, follower>>
      BY <1>1 DEF MainPut, gpsVars
    <2>2. QED
      BY <2>1, OnlyThePosition
  <1>2. CASE main' = "crashed"
    BY <1>2, Breaks DEF MainPut, Broken, Going
  <1>3. QED
    BY <1>1, <1>2 DEF MainPut

LEMMA SignalStep ==
    ASSUME LInv, Signal
    PROVE  LInv'
  <1>1. UNCHANGED <<file, main, section, at, alive, given, thread, web, follower>>
    BY DEF Signal, gpsVars
  <1>2. QED
    BY <1>1, OnlyThePosition

\* Something outside ends the program, or what it did with deleted objects.
LEMMA BreakStep ==
    ASSUME LInv, Unavailable \/ Misuse
    PROVE  LInv'
  BY Breaks DEF Unavailable, Misuse, Broken, Section, Going

LEMMA FollowStep ==
    ASSUME LInv, Follow
    PROVE  LInv'
  <1>1. CASE follower' = "failed"
    BY <1>1, Breaks DEF Follow, Broken
  <1>2. CASE follower' # "failed"
    <2>1. UNCHANGED <<file, main, section, at, alive, given, thread, web>> /\ Going
      BY <1>2 DEF Follow
    <2>2. QED
      BY <2>1, OnlyThePosition
  <1>3. QED
    BY <1>1, <1>2

\* A page is asked for and answered.
LEMMA WebStep ==
    ASSUME LInv, Visit \/ Answer
    PROVE  LInv'
  <1> USE DEF LInv, N, Tr
  <1>1. /\ web \in {"idle", "querying"} /\ web' \in {"idle", "querying"}
        /\ UNCHANGED <<file, main, section, at, alive, given, told, thread, follower>>
    BY DEF Visit, Answer, gpsVars
  <1>2. TypeOK'
    BY <1>1 DEF TypeOK
  <1>3. FromTheFirst'
    BY <1>1 DEF FromTheFirst, Section
  <1>4. Founded'
    BY <1>1 DEF Founded, Self, FilterOf, Filtered, Going, LeftBehind,
                Detached
  <1>5. Shared'
    BY <1>1 DEF Shared, The, Contains
  <1>6. Ended'
    BY <1>1 DEF Ended, OwnLoop, Detached
  <1>7. Served'
    BY <1>1 DEF Served, Going, Has, The
  <1>8. QED
    BY <1>2, <1>3, <1>4, <1>5, <1>6, <1>7

-----------------------------------------------------------------------------
(* ... and taken apart.                                                    *)

LEMMA LeaveStep ==
    ASSUME LInv, Leave
    PROVE  LInv'
  <1> USE DEF LInv, N, Tr
  <1>1. /\ main = "running" /\ main' = "switchboard"
        /\ alive' = alive \ {The("agent")}
        /\ UNCHANGED <<file, section, at, given, told, thread, web>>
    BY DEF Leave
  <1>2. /\ The("agent") # The("gps") /\ The("agent") # The("work queue")
        /\ The("agent") # The("database")
        /\ \A t : The("agent") # Self(t) /\ The("agent") # FilterOf(t)
    BY DEF The, Self, FilterOf
  <1>3. TypeOK' /\ FromTheFirst'
    BY <1>1 DEF TypeOK, FromTheFirst, TearingDown
  <1>4. Founded'
    BY <1>1, <1>2 DEF Founded, Self, FilterOf, Filtered, Going, LeftBehind,
                Detached
  <1>5. Shared'
    BY <1>1, <1>2 DEF Shared, The, Contains, TearingDown, AfterStop, AfterDelete
  <1>6. Ended'
    BY <1>1 DEF Ended, AfterStop, AfterDelete
  <1>7. Served'
    BY <1>1, <1>2 DEF Served, Going, Has, The, AfterStop, AfterDelete
  <1>8. QED
    BY <1>3, <1>4, <1>5, <1>6, <1>7

\* The switchboard before the threads have ended, the global filter after.
LEMMA DeleteStep ==
    ASSUME LInv, Delete
    PROVE  LInv'
  <1> USE DEF LInv, N, Tr
  <1>0. Len(file.tranceivers)' \in Nat
    BY FileType DEF Delete
  <1>1. /\ \/ main = "switchboard" /\ main' = "stop"
           \/ main = "global filter" /\ main' = "gps"
        /\ alive' = alive \ {The(main)}
        /\ UNCHANGED <<file, section, at, given, told, thread, web>>
    BY AfterIs DEF Delete, Deleted
  <1>2. /\ The(main) # The("gps") /\ The(main) # The("work queue")
        /\ The(main) # The("database")
        /\ \A t : The(main) # Self(t) /\ The(main) # FilterOf(t)
    BY <1>1 DEF The, Self, FilterOf
  <1>3. TypeOK' /\ FromTheFirst'
    BY <1>1 DEF TypeOK, FromTheFirst, TearingDown, AfterStop, AfterDelete
  <1>4. Founded'
    BY <1>1, <1>2 DEF Founded, Self, FilterOf, Filtered, Going, LeftBehind,
                Detached
  <1>5. Shared'
    BY <1>1, <1>2 DEF Shared, The, Contains, TearingDown, AfterStop, AfterDelete
  <1>6. Ended'
    <2>1. CASE main = "switchboard"
      <3>1. at' = 1 /\ main' = "stop"
        BY <1>1, <2>1 DEF FromTheFirst
      <3>2. QED
        <4>1. \A i \in 1..Len(file.tranceivers)' : ~(i < at')
          BY <1>0, <3>1
        <4>2. QED
          BY <3>1, <4>1 DEF Ended, AfterStop, AfterDelete
    <2>2. CASE main = "global filter"
      BY <1>1, <2>2 DEF Ended, AfterStop, AfterDelete, OwnLoop, Detached
    <2>3. QED
      BY <1>1, <2>1, <2>2
  <1>7. Served'
    BY <1>1, <1>2 DEF Served, Going, Has, The, AfterStop, AfterDelete
  <1>8. QED
    BY <1>3, <1>4, <1>5, <1>6, <1>7

\* The loop is done: what holds of those it passed holds of all.
LEMMA LoopDoneStep ==
    ASSUME LInv, LoopDone
    PROVE  LInv'
  <1> USE DEF LInv
  <1>0. N \in Nat /\ at \in Nat /\ N < at
    BY FileType DEF LoopDone, N, TypeOK
  <1>1. /\ \/ main = "stop" /\ main' = "delete"
           \/ main = "delete" /\ main' = "global filter"
        /\ at' = 1
        /\ UNCHANGED <<file, section, alive, given, told, thread, web>>
    BY AfterIs DEF LoopDone
  <1>2. \A i \in 1..N : i < at
    BY <1>0
  <1>3. TypeOK' /\ FromTheFirst'
    <2>0. at' = 1
      BY <1>1
    <2>1. at' \in Nat /\ at' >= 1
      BY <2>0
    <2>2. main' \in TearingDown
      BY <1>1 DEF TearingDown, AfterStop, AfterDelete
    <2>3. TypeOK'
      BY <1>1, <2>1, <2>2 DEF TypeOK
    <2>4. QED
      BY <1>1, <2>3 DEF FromTheFirst
  <1>4. Founded'
    BY <1>1 DEF Founded, Self, FilterOf, Filtered, Going, LeftBehind, Detached, N, Tr
  <1>5. Shared'
    BY <1>1 DEF Shared, The, Contains, TearingDown, AfterStop, AfterDelete
  <1>6. Ended'
    <2>1. N' = N /\ \A i \in 1..N : Tr(i)' = Tr(i)
      BY <1>1 DEF N, Tr
    <2>2. CASE main = "stop"
      <3>1. \A i \in 1..N : OwnLoop(Tr(i)) => thread[Tr(i)] = "ended"
        BY <1>2, <2>2 DEF Ended
      <3>2. QED
        BY <1>1, <2>1, <2>2, <3>1 DEF Ended, AfterStop, AfterDelete, OwnLoop, Detached
    <2>3. CASE main = "delete"
      <3>1. /\ \A i \in 1..N : OwnLoop(Tr(i)) => thread[Tr(i)] = "ended"
            /\ \A i \in 1..N :
                  Tr(i) \in Readers /\ ~Detached(Tr(i)) => thread[Tr(i)] = "ended"
        BY <1>2, <2>3 DEF Ended, AfterStop
      <3>2. QED
        BY <1>1, <2>1, <2>3, <3>1 DEF Ended, AfterStop, AfterDelete, OwnLoop, Detached
    <2>4. QED
      BY <1>1, <2>2, <2>3
  <1>7. Served'
    <2>1. CASE main = "stop"
      BY <1>1, <2>1 DEF Served, Going, Has, The, AfterStop, AfterDelete, N, Tr
    <2>2. CASE main = "delete"
      <3>1. web \in {"none", "ended"}
        BY <1>2, <2>2 DEF Served, TypeOK
      <3>2. QED
        BY <1>1, <2>2, <3>1 DEF Served, Going, Has, The, AfterStop, AfterDelete, N, Tr
    <2>3. QED
      BY <1>1, <2>1, <2>2
  <1>8. QED
    BY <1>3, <1>4, <1>5, <1>6, <1>7

\* stop() returns when the thread has ended, where there is one to wait for.
LEMMA StopStep ==
    ASSUME LInv, Tell \/ Join
    PROVE  LInv'
  <1> USE DEF LInv
  <1>1. /\ main = "stop" /\ main' = "stop" /\ at \in 1..N
        /\ \/ at' = at
           \/ /\ at' = at + 1
              /\ OwnLoop(Tr(at)) => thread[Tr(at)] = "ended"
        /\ UNCHANGED <<file, section, alive, given, thread, web>>
    BY FileType DEF Tell, Join, Here, N, Tr, TypeOK
  <1>2. TypeOK' /\ FromTheFirst'
    BY <1>1 DEF TypeOK, FromTheFirst
  <1>3. Founded'
    BY <1>1 DEF Founded, Self, FilterOf, Filtered, Going, LeftBehind, Detached, N, Tr
  <1>4. Shared'
    BY <1>1 DEF Shared, The, Contains, TearingDown, AfterStop, AfterDelete
  <1>5. Ended'
    <2>1. ASSUME NEW i \in 1..N, i < at', OwnLoop(Tr(i))
          PROVE  thread[Tr(i)] = "ended"
      <3>1. i < at \/ (i = at /\ at' = at + 1)
        BY <1>1, <2>1
      <3>2. QED
        BY <1>1, <2>1, <3>1 DEF Ended
    <2>2. QED
      BY <1>1, <2>1 DEF Ended, AfterStop, AfterDelete, OwnLoop, Detached, N, Tr
  <1>6. Served'
    BY <1>1 DEF Served, Going, Has, The, AfterStop, AfterDelete, N, Tr
  <1>7. QED
    BY <1>2, <1>3, <1>4, <1>5, <1>6

\* The tranceiver goes with its filter, when its last thread has ended.
LEMMA DestroyStep ==
    ASSUME LInv, Destroy
    PROVE  LInv'
  <1> USE DEF LInv
  <1>1. /\ main = "delete" /\ main' = "delete" /\ at \in 1..N /\ at' = at + 1
        /\ thread' = [t \in Readers |->
                         IF t = Tr(at) /\ (Detached(t) => thread[t] = "waiting")
                         THEN "ended" ELSE thread[t]]
        /\ web' = IF Kind[Tr(at)] = "ws" THEN "ended" ELSE web
        /\ alive' = alive \ Brought(Tr(at))
        /\ UNCHANGED <<file, section, given, told>>
    BY FileType DEF Destroy, Here, N, Tr, TypeOK
  <1>2. TypeOK' /\ FromTheFirst'
    BY <1>1 DEF TypeOK, FromTheFirst
  <1>3. Founded'
    <2>1. ASSUME NEW t \in Readers
          PROVE  /\ thread'[t] # "none" => \E i \in 1..N : Tr(i) = t
                 /\ thread'[t] \in Live =>
                       \/ Self(t) \in alive' /\ (Filtered(t) => FilterOf(t) \in alive')
                       \/ LeftBehind(t)'
                 /\ thread'[t] \in {"reading", "checking"} => Filtered(t)
                 /\ thread'[t] = "locating" => t \in given
      <3>1. CASE t = Tr(at)
        <4>1. CASE Detached(t)
          BY <1>1, <3>1, <4>1 DEF Founded, Going, LeftBehind, Detached
        <4>2. CASE ~Detached(t)
          BY <1>1, <3>1, <4>2 DEF Founded, Going, Live
        <4>3. QED
          BY <4>1, <4>2
      <3>2. CASE t # Tr(at)
        BY <1>1, <3>2, BroughtOnly DEF Founded, Going, LeftBehind, Detached
      <3>3. QED
        BY <3>1, <3>2
    <2>2. QED
      BY <1>1, <2>1 DEF Founded, N, Tr, Self, FilterOf, Filtered
  <1>4. Shared'
    BY <1>1, BroughtOnly DEF Shared, The, Contains, TearingDown, AfterStop, AfterDelete
  <1>5. Ended'
    <2>1. \A t \in Readers : thread[t] = "ended" => thread'[t] = "ended"
      BY <1>1
    <2>2. \A i \in 1..N : OwnLoop(Tr(i)) => thread'[Tr(i)] = "ended"
      BY <1>1, <2>1, FileType DEF Ended, AfterStop
    <2>3. ASSUME NEW i \in 1..N, i < at', Tr(i) \in Readers, ~Detached(Tr(i))
          PROVE  thread'[Tr(i)] = "ended"
      <3>1. i < at \/ i = at
        BY <1>1, <2>3
      <3>2. QED
        BY <1>1, <2>1, <2>3, <3>1 DEF Ended
    <2>4. QED
      BY <1>1, <2>2, <2>3 DEF Ended, AfterStop, AfterDelete, OwnLoop, Detached, N, Tr
  <1>6. Served'
    <2>1. web' # "none" => \E i \in 1..N : Kind[Tr(i)] = "ws"
      BY <1>1 DEF Served
    <2>2. ASSUME NEW i \in 1..N, i < at', Kind[Tr(i)] = "ws"
          PROVE  web' \in {"none", "ended"}
      <3>1. i < at \/ i = at
        BY <1>1, <2>2
      <3>2. QED
        BY <1>1, <2>2, <3>1 DEF Served
    <2>3. QED
      BY <1>1, <2>1, <2>2 DEF Served, AfterStop, AfterDelete, N, Tr
  <1>7. QED
    BY <1>2, <1>3, <1>4, <1>5, <1>6

\* The last of them: nobody is left who could use what goes now.
LEMMA JoinGpsStep ==
    ASSUME LInv, JoinGps
    PROVE  LInv'
  <1> USE DEF LInv
  <1>1. /\ main = "gps" /\ main' = "returned"
        /\ file.follows /\ The("gps") \in alive => follower = "done"
        /\ UNCHANGED <<file, section, at, given, told, thread, web, follower>>
    BY AfterIs DEF JoinGps, gpsVars
  <1>2. TypeOK' /\ FromTheFirst'
    BY <1>1 DEF TypeOK, FromTheFirst, TearingDown, AfterStop, AfterDelete
  <1>4. Founded'
    BY <1>1 DEF Founded, Filtered, Going, N, Tr
  <1>5. Shared'
    BY <1>1 DEF Shared, Contains, TearingDown, AfterStop, AfterDelete
  <1>6. Ended'
    BY <1>1 DEF Ended, AfterStop, AfterDelete, OwnLoop, Detached, N, Tr
  <1>7. Served'
    BY <1>1 DEF Served, AfterStop, AfterDelete, N, Tr
  <1>8. QED
    BY <1>2, <1>4, <1>5, <1>6, <1>7

LEMMA LifeStep == LInv /\ [Next]_vars => LInv'
  <1> SUFFICES ASSUME LInv, [Next]_vars PROVE LInv'
    OBVIOUS
  <1>1. CASE Load
    BY <1>1, LoadGeneralStep, LoadNamesStep, InstantiateStep, InstantiatedStep,
       StartStep DEF Load
  <1>2. CASE MainPut \/ Signal \/ Unavailable \/ Misuse
    BY <1>2, MainPutStep, SignalStep, BreakStep
  <1>3. CASE TellGps
    BY <1>3, OnlyThePosition DEF TellGps, Stop, lifeVars
  <1>4. CASE TearDown /\ ~TellGps
    BY <1>4, LeaveStep, DeleteStep, LoopDoneStep, StopStep, DestroyStep, JoinGpsStep
       DEF TearDown
  <1>5. CASE Follow
    BY <1>5, FollowStep
  <1>6. CASE Visit \/ Answer
    BY <1>6, WebStep
  <1>7. ASSUME NEW t \in Readers, Thread(t) \/ Frame(t)
        PROVE  LInv'
    BY <1>7, ThreadStep
  <1>8. CASE UNCHANGED vars
    BY <1>8, OnlyThePosition DEF vars, gpsVars, lifeVars
  <1>9. QED
    BY <1>1, <1>2, <1>3, <1>4, <1>5, <1>6, <1>7, <1>8 DEF Next

LEMMA LifeStart == Init => LInv
  <1> SUFFICES ASSUME Init PROVE LInv
    OBVIOUS
  <1>1. TypeOK /\ FromTheFirst
    <2>0. section = 1 /\ at = 1
      BY DEF Init
    <2>1. section \in Nat /\ section >= 1 /\ at \in Nat /\ at >= 1
      BY <2>0
    <2>2. thread \in [Readers -> {"none", "ended"} \cup Live]
      BY DEF Init
    <2>3. file \in Files /\ main = "loading" /\ web = "none" /\ at = 1
      BY DEF Init
    <2>4. QED
      BY <2>1, <2>2, <2>3 DEF TypeOK, FromTheFirst
  <1>2. Founded /\ Ended /\ Served
    BY DEF Init, Founded, Live, Ended, Served, AfterStop, AfterDelete, TearingDown, Broken
  <1>3. Shared
    <2>0. section = 1
      BY DEF Init
    <2>1. \A i \in 1..Len(file.sections) : ~(i < section)
      BY <1>1, <2>0, FileType
    <2>2. QED
      BY <2>1 DEF Init, Shared, TearingDown, AfterStop, AfterDelete
  <1>4. QED
    BY <1>1, <1>2, <1>3 DEF LInv

(***************************************************************************)
(* For every configuration file, with every kind of tranceiver: no thread  *)
(* uses what was deleted and none is left when main() returns, but for the *)
(* pages of the web server, which ask a deleted database while the         *)
(* tranceivers are deleted, and the detached threads of the LoRa modem     *)
(* from then on. (configuration.cpp:59-86, tranceiver.cpp:29-46)           *)
(***************************************************************************)
THEOREM NothingDeletedIsEverUsed == Spec => []NothingDeletedIsUsed
  <1>1. LInv => NothingDeletedIsUsed
    <2> SUFFICES ASSUME LInv PROVE NothingDeletedIsUsed
      OBVIOUS
    <2> USE DEF LInv
    <2>1. ASSUME Going, NEW t \in Readers, ~LeftBehind(t)
          PROVE  Uses(t) \subseteq alive
      <3>1. thread[t] \in {"none", "ended"} \cup Live
        BY DEF TypeOK
      <3>2. thread[t] \in Live =>
               Self(t) \in alive /\ (Filtered(t) => FilterOf(t) \in alive)
        BY <2>1 DEF Founded
      <3>3. The("work queue") \in alive
        BY <2>1 DEF Shared, Going
      <3>4. thread[t] = "locating" => The("gps") \in alive
        BY <2>1 DEF Founded, Shared, Going
      <3>5. CASE thread[t] \in {"none", "ended"}
        BY <3>5 DEF Uses
      <3>6. CASE thread[t] = "checking"
        BY <3>2, <3>6 DEF Uses, Founded, Live
      <3>7. CASE thread[t] = "locating"
        BY <3>2, <3>4, <3>7 DEF Uses, Live
      <3>8. CASE thread[t] = "queueing"
        BY <3>2, <3>3, <3>8 DEF Uses, Live
      <3>9. CASE thread[t] \in {"top", "waiting", "reading", "telling"}
        BY <3>2, <3>9 DEF Uses, Live
      <3>10. QED
        BY <3>1, <3>5, <3>6, <3>7, <3>8, <3>9 DEF Live
    <2>2. Going /\ QueriesWhatIsGone => main = "delete"
      BY DEF Served, QueriesWhatIsGone, AfterStop
    <2>3. ASSUME main = "returned"
          PROVE  /\ \A t \in Readers : thread[t] \in {"none", "ended"} \/ Detached(t)
                 /\ web \in {"none", "ended"}
                 /\ Contains(file.sections, "general") /\ file.follows
                        => follower = "done"
      <3>1. \A t \in Readers : thread[t] \in {"none", "ended"} \/ Detached(t)
        BY <2>3 DEF Founded, Ended, AfterDelete
      <3>2. QED
        BY <2>3, <3>1 DEF Served, Shared, TearingDown, AfterStop, AfterDelete
    <2>4. QED
      BY <2>1, <2>2, <2>3 DEF NothingDeletedIsUsed, LeftBehind
  <1>2. QED
    BY <1>1, LifeStart, LifeStep, PTL DEF Spec

-----------------------------------------------------------------------------
(* A file in the usual order.                                              *)

LEMMA SectionsInOrder ==
    ASSUME InOrder(file), NEW name, Section(name), LInv
    PROVE  /\ name = "general" => section = 1
           /\ name = "filters" => section = 2
           /\ name = "tranceivers" => section = 3
           /\ name = "mappings" => section = 4
  <1>1. file.sections = <<"general", "filters", "tranceivers", "mappings">>
    BY DEF InOrder
  <1>2. section \in 1..4 /\ file.sections[section] = name
    BY <1>1 DEF Section, LInv, TypeOK
  <1>3. QED
    BY <1>1, <1>2

\* Threads take nothing away, and no pointer they follow is unset.
LEMMA OrderedThread ==
    ASSUME LInv, MadeInOrder, NEW t \in Readers, Thread(t) \/ Frame(t)
    PROVE  MadeInOrder'
  <1>1. thread[t] \in Live => t \in given
    BY DEF MadeInOrder
  <1>2. /\ UNCHANGED <<file, section, at, alive, given, main>>
        /\ \A u \in Readers : thread'[u] \in Live => thread[u] \in Live
    <2> USE DEF LInv, TypeOK, Goes, NothingElse, Live
    <2>1. CASE LoopTop(t) \/ Wake(t) \/ Receive(t) \/ Frame(t) \/ Checked(t)
      BY <2>1 DEF LoopTop, Wake, Receive, Frame, Checked
    <2>2. CASE Locate(t)
      <3>1. t \in given
        BY <1>1, <2>2 DEF Locate
      <3>2. QED
        BY <2>2, <3>1 DEF Locate
    <2>3. CASE Copy(t) \/ Located(t) \/ Queue(t)
      BY <2>3 DEF Copy, Located, Queue, lifeVars
    <2>4. QED
      BY <2>1, <2>2, <2>3 DEF Thread
  <1>3. QED
    BY <1>2 DEF MadeInOrder, N, Tr, Brought, Self, FilterOf, Filtered, The

LEMMA OrderedLoad ==
    ASSUME LInv, InOrder(file), NamesDefined(file), MadeInOrder, Load
    PROVE  MadeInOrder'
  <1> USE DEF MadeInOrder
  <1>0. section \in Nat /\ at \in Nat /\ N \in Nat
    BY FileType DEF LInv, TypeOK
  <1>1. CASE LoadGeneral
    <2>1. /\ section = 1 /\ main' = main /\ at = 1 /\ at' = 1
          /\ section' = section + 1
          /\ alive' = alive \cup {The("gps"), The("global filter")}
          /\ UNCHANGED <<file, given, thread>>
      BY <1>1, SectionsInOrder DEF LoadGeneral, LInv, FromTheFirst, Section
    <2>2. section' = 2
      <3>1. section = 1 /\ section' = section + 1
        BY <2>1
      <3>2. QED
        BY <3>1
    <2>3. ~(section' >= 3) /\ ~(section' >= 4) /\ ~(section' >= 5) /\ section' # 3
      BY <2>2
    <2>4. The("gps") \in alive' /\ main' # "running" /\ The("gps")' = The("gps")
      BY <1>1, <2>1 DEF LoadGeneral, Section, The
    <2>5. QED
      BY <2>1, <2>3, <2>4
  <1>2. CASE LoadFilters
    <2>1. /\ section = 2 /\ main = "loading" /\ main' = main
          /\ section' = section + 1
          /\ alive' = alive \cup {The("filters")}
          /\ UNCHANGED <<file, at, given, thread>>
      BY <1>2, SectionsInOrder DEF LoadFilters, Section
    <2>2. at = 1
      BY <1>2 DEF LoadFilters, LInv, FromTheFirst, Section
    <2>3. section' = 3
      BY <2>1
    <2>4. ~(section' >= 4) /\ ~(section' >= 5) /\ \A i \in 1..N : ~(i < at')
      BY <1>0, <2>1, <2>2, <2>3
    <2>5. QED
      BY <2>1, <2>4 DEF N, The
  <1>3. CASE LoadMappings
    <2>1. section = 4 /\ main = "loading"
      BY <1>3, SectionsInOrder DEF LoadMappings, Section
    <2>2. \A i \in 1..N : Brought(Tr(i)) \subseteq alive
      BY <2>1
    <2>3. \A i \in 1..N : Self(Tr(i)) \in alive
      BY <2>2, BroughtOnly
    <2>4. \A t \in file.mapped : Self(t) \in alive
      BY <2>3 DEF NamesDefined, N, Tr
    <2>5. file.filters \subseteq Known
      BY <2>1 DEF Known, NamesDefined
    <2>6. /\ alive' = alive \cup {The("switchboard")} /\ section' = section + 1
          /\ UNCHANGED <<file, main, at, given, thread>>
      BY <1>3, <2>4, <2>5 DEF LoadMappings
    <2>7. section' = 5
      BY <2>1, <2>6
    <2>8. QED
      BY <2>1, <2>2, <2>6, <2>7
         DEF N, Tr, Brought, Self, FilterOf, Filtered, The
  <1>4. CASE Instantiate
    <2>1. section = 3 /\ main = "loading" /\ at \in 1..N /\ Here = Tr(at)
      BY <1>0, <1>4, SectionsInOrder
         DEF Instantiate, Section, N, Tr, Here, LInv, TypeOK
    <2>2. ~Unfounded(Here)
      <3>1. ASSUME Kind[Here] = "ws", Has(file, "db")
            PROVE  The("database") \in alive
        <4>1. PICK i \in 1..N : Kind[Tr(i)] = "db"
          BY <3>1 DEF Has, N, Tr
        <4>2. i < at
          BY <2>1, <3>1, <4>1 DEF InOrder, N, Tr
        <4>3. Brought(Tr(i)) \subseteq alive
          BY <2>1, <4>2
        <4>4. QED
          BY <4>1, <4>3, BroughtOnly
      <3>2. file.peers \subseteq Known
        BY <2>1 DEF Known, NamesDefined
      <3>3. QED
        BY <3>1, <3>2 DEF Unfounded, NoDatabase, NoFilter
    <2>3. /\ alive' = alive \cup Brought(Here)
          /\ given' = given \cup {Here}
          /\ thread' = [t \in Readers |-> IF t = Here THEN Begins(t) ELSE thread[t]]
          /\ at' = at + 1
          /\ UNCHANGED <<main, file, section>>
      BY <1>4, <2>1, <2>2 DEF Instantiate, GivenTo
    <2>4. \A t \in Readers : thread'[t] \in Live => t \in given'
      BY <2>3
    <2>5. ASSUME NEW i \in 1..N, i < at'
          PROVE  Brought(Tr(i)) \subseteq alive'
      <3>1. i < at \/ i = at
        BY <1>0, <2>3, <2>5
      <3>2. QED
        BY <2>1, <2>3, <2>5, <3>1
    <2>6. QED
      BY <2>1, <2>3, <2>4, <2>5 DEF N, Tr, Brought, Self, FilterOf, Filtered, The
  <1>5. CASE Instantiated
    <2>1. section = 3 /\ main = "loading" /\ N < at
      BY <1>5, SectionsInOrder DEF Instantiated, Section, N
    <2>2. \A i \in 1..N : i < at
      BY <1>0, <2>1
    <2>3. section' = section + 1 /\ UNCHANGED <<file, main, alive, given, thread>>
      BY <1>5 DEF Instantiated
    <2>4. section' = 4
      BY <2>1, <2>3
    <2>5. QED
      BY <2>1, <2>2, <2>3, <2>4 DEF N, Tr, Brought, Self, FilterOf, Filtered, The
  <1>6. CASE Start
    <2>1. Len(file.sections) = 4
      BY DEF InOrder
    <2>2. main = "loading" /\ section >= 5
      BY <1>0, <1>6, <2>1 DEF Start
    <2>3. /\ main' = "running" /\ alive' = alive \cup {The("agent")}
          /\ UNCHANGED <<file, given, thread>>
      BY <1>6 DEF Start
    <2>4. QED
      BY <2>2, <2>3 DEF N, The
  <1>7. QED
    BY <1>1, <1>2, <1>3, <1>4, <1>5, <1>6 DEF Load

LEMMA SameFile == [Next]_vars => file' = file
  BY DEF Next, vars, lifeVars, Load, LoadGeneral, LoadFilters, LoadMappings, Instantiate,
         Instantiated, Start, Unavailable, MainPut, Signal, Misuse, TearDown, Leave,
         Delete, LoopDone, Tell, Join, Destroy, TellGps, JoinGps, Follow, Visit, Answer,
         Thread, LoopTop, Wake, Receive, Frame, Checked, Locate, Copy, Located, Queue,
         NothingElse

LEMMA OrderedStep ==
    ASSUME LInv, Ordered, [Next]_vars
    PROVE  Ordered'
  <1> SUFFICES ASSUME InOrder(file), NamesDefined(file), MadeInOrder
               PROVE  MadeInOrder'
    BY SameFile DEF Ordered, InOrder, NamesDefined
  <1>2. CASE Load
    BY <1>2, OrderedLoad
  <1>3. CASE MainPut
    <2>1. main = "running" /\ The("switchboard") \in alive
      BY <1>3 DEF MainPut, MadeInOrder
    <2>2. UNCHANGED <<file, main, alive, given, thread>>
      BY <1>3, <2>1 DEF MainPut
    <2>3. QED
      BY <2>1, <2>2 DEF MadeInOrder, The
  <1>4. CASE Leave
    BY <1>4 DEF Leave, MadeInOrder
  <1>5. CASE TearDown /\ ~Leave
    <2>1. /\ main \in TearingDown /\ main' \in TearingDown
          /\ given' = given
          /\ \A t \in Readers : thread'[t] \in Live => t \in given
      <3>1. CASE Delete \/ LoopDone \/ Tell \/ Join \/ TellGps \/ JoinGps
        BY <3>1, AfterIs DEF Delete, LoopDone, Tell, Join, TellGps, JoinGps, lifeVars,
           TearingDown, AfterStop, AfterDelete, MadeInOrder
      <3>2. CASE Destroy
        BY <3>2 DEF Destroy, Live, TearingDown, AfterStop, MadeInOrder
      <3>3. QED
        BY <1>5, <3>1, <3>2 DEF TearDown
    <2>2. QED
      BY <2>1 DEF MadeInOrder, TearingDown, AfterStop, AfterDelete
  <1>6. CASE Visit \/ Answer \/ Signal \/ UNCHANGED vars
    <2>1. UNCHANGED <<file, main, section, at, alive, given, thread>>
      BY <1>6 DEF Visit, Answer, Signal, vars, lifeVars
    <2>2. QED
      BY <2>1 DEF MadeInOrder, N, Tr, Brought, Self, FilterOf, Filtered, The
  <1>7. CASE Follow \/ Unavailable \/ Misuse
    <2>1. /\ main' \in {main, "failed", "corrupted"}
          /\ UNCHANGED <<file, section, at, alive, given, thread>>
      BY <1>7 DEF Follow, Unavailable, Misuse
    <2>2. QED
      BY <2>1 DEF MadeInOrder, N, Tr, Brought, Self, FilterOf, Filtered, The
  <1>8. ASSUME NEW t \in Readers, Thread(t) \/ Frame(t)
        PROVE  MadeInOrder'
    BY <1>8, OrderedThread
  <1>9. QED
    BY <1>2, <1>3, <1>4, <1>5, <1>6, <1>7, <1>8 DEF Next

LEMMA OrderedStart == Init => Ordered
  <1> SUFFICES ASSUME Init PROVE MadeInOrder
    BY DEF Ordered
  <1>1. section = 1 /\ at = 1
    BY DEF Init
  <1>2. /\ ~(section >= 2) /\ ~(section >= 3) /\ ~(section >= 4) /\ ~(section >= 5)
        /\ section # 3
    BY <1>1
  <1>3. QED
    BY <1>2 DEF Init, MadeInOrder, Live

(***************************************************************************)
(* The usual order is enough: a file in that order, with a traffic-db      *)
(* before the web server and every name defined that it refers to, is      *)
(* never the reason that the program exits while it loads it, and no       *)
(* pointer that was not set is followed, whatever the tranceivers are and  *)
(* whatever their threads do meanwhile; only something outside the program *)
(* may end it. (configuration.cpp:12-57, 88-93, 125-168)                   *)
(***************************************************************************)
THEOREM OrderIsAlwaysEnough == Spec => []OrderIsEnough
  <1>1. Ordered => OrderIsEnough
    BY DEF Ordered, MadeInOrder, OrderIsEnough
  <1>2. QED
    BY <1>1, LifeStart, LifeStep, OrderedStart, OrderedStep, PTL DEF Spec
=============================================================================

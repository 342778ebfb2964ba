--------------------------------- MODULE Gps ---------------------------------
(***************************************************************************)
(* gps.cpp: the thread that follows gpsd stores current_position, and the  *)
(* receiving threads read it through get_position(), without a lock.       *)
(*                                                                         *)
(* The std::optional is three words: latitude, longitude and whether it is *)
(* engaged.  A store takes a while here (from Hear to Store), and so does  *)
(* get_position() (from HasValue to Return); where they overlap, each word *)
(* that is returned is one that was there at some time during the call.    *)
(* Lifecycle says who reads, and when the thread begins and ends.          *)
(***************************************************************************)
EXTENDS Integers, FiniteSets

CONSTANTS
    Readers,        \* the threads that call get_position()
    Places,         \* coordinates the receiver may report
    HasDefault,     \* local-latitude and local-longitude are set
    Nowhere,        \* nullopt
    Leftover        \* what the words of an empty optional hold

ASSUME GpsAssumption ==
    /\ HasDefault \in BOOLEAN
    /\ Nowhere \notin Places /\ Leftover \notin Places

VARIABLES
    current_position,   \* Nowhere or a place
    gpsd,       \* gps_instance is not nullptr
    terminate,
    follower,   \* where the thread is
    fix,        \* what it is about to store
    reader,     \* where each reader is in get_position()
    got,        \* what it returned
    during      \* reader -> what current_position was, or was becoming,
                \* since its call began

gpsVars == <<current_position, gpsd, terminate, follower, fix,
             reader, got, during>>

\* What the words of current_position hold now: also what they are becoming.
Present == {current_position} \cup (IF follower = "storing" THEN {fix} ELSE {})

\* A store of p begins; it is part of what the readers at work may see.
Joined(p) ==
    [r \in Readers |-> IF reader[r] = "idle" THEN {} ELSE during[r] \cup {p}]

Position(p) == <<p, p>>      \* latitude and longitude of p
Default == Position(IF HasDefault THEN "default" ELSE Nowhere)

GpsInit ==
    /\ current_position = Nowhere
    /\ gpsd = FALSE
    /\ terminate = FALSE
    /\ follower = "top"
    /\ fix = Nowhere
    /\ reader = [r \in Readers |-> "idle"]
    /\ got = [r \in Readers |-> Default]
    /\ during = [r \in Readers |-> {}]

-----------------------------------------------------------------------------
(* operator(): the thread that follows gpsd.                               *)

\* for(;!terminate;), and the connection when there is none: a gpsd that does
\* not answer ends the program, also when it was lost on the way.
Top ==
    /\ follower = "top"
    /\ \/ terminate /\ follower' = "done" /\ UNCHANGED gpsd
       \/ ~terminate /\ follower' = "waiting" /\ gpsd' = TRUE
       \/ ~terminate /\ ~gpsd /\ follower' = "failed" /\ UNCHANGED gpsd
    /\ UNCHANGED <<current_position, terminate, fix, reader, got, during>>

\* waiting() times out after 100 ms.
NoData ==
    /\ follower = "waiting"
    /\ follower' = "top"
    /\ UNCHANGED <<current_position, gpsd, terminate, fix, reader, got,
                   during>>

\* read() returns nullptr: the connection is lost.  The thread sleeps for a
\* second or until terminate, and goes on.
Lose ==
    /\ follower = "waiting"
    /\ gpsd' = FALSE
    /\ follower' = "top"
    /\ UNCHANGED <<current_position, terminate, fix, reader, got, during>>

\* read() returns a fix, or that there is none (MODE_2D is not reached).
Hear ==
    /\ follower = "waiting"
    /\ fix' \in Places \cup {Nowhere}
    /\ follower' = "storing"
    /\ during' = Joined(fix')
    /\ UNCHANGED <<current_position, gpsd, terminate, reader, got>>

\* Deliberately wrong variants, used to show that the properties bite.
Store_KeepsOld ==
    /\ follower = "storing"
    /\ current_position' = IF fix = Nowhere THEN current_position ELSE fix
    /\ follower' = "top"
    /\ UNCHANGED <<gpsd, terminate, fix, reader, got, during>>

\* current_position = { } or { latitude, longitude }
Store ==
    /\ follower = "storing"
    /\ current_position' = fix
    /\ follower' = "top"
    /\ UNCHANGED <<gpsd, terminate, fix, reader, got, during>>

\* The destructor sets terminate and waits for the thread.
Stop ==
    /\ ~terminate
    /\ terminate' = TRUE
    /\ UNCHANGED <<current_position, gpsd, follower, fix, reader, got,
                   during>>

-----------------------------------------------------------------------------
(* get_position(), called by thread r.                                     *)

\* current_position.has_value()
HasValue(r) ==
    /\ reader[r] = "idle"
    /\ during' = [during EXCEPT ![r] = Present]
    /\ \E seen \in Present :
          IF seen # Nowhere
          THEN reader' = [reader EXCEPT ![r] = "copying"] /\ UNCHANGED got
          ELSE /\ reader' = [reader EXCEPT ![r] = "returned"]
               /\ got' = [got EXCEPT ![r] = Default]
    /\ UNCHANGED <<current_position, gpsd, terminate, follower, fix>>

\* return current_position: what the copy may come to.
Words(r) == {IF p = Nowhere THEN Leftover ELSE p : p \in during[r]}
Copies(r) ==
    (IF during[r] = {Nowhere} THEN {} ELSE Words(r) \X Words(r))
        \cup (IF Nowhere \in during[r] THEN {Position(Nowhere)} ELSE {})

Return(r) ==
    /\ reader[r] = "copying"
    /\ got' \in {[got EXCEPT ![r] = p] : p \in Copies(r)}
    /\ reader' = [reader EXCEPT ![r] = "returned"]
    /\ UNCHANGED <<current_position, gpsd, terminate, follower, fix,
                   during>>

\* The caller has used what it got.
Used(r) ==
    /\ reader[r] = "returned"
    /\ reader' = [reader EXCEPT ![r] = "idle"]
    /\ got' = [got EXCEPT ![r] = Default]
    /\ during' = [during EXCEPT ![r] = {}]
    /\ UNCHANGED <<current_position, gpsd, terminate, follower, fix>>

Follower == Top \/ NoData \/ Lose \/ Hear \/ Store
Reader(r) == HasValue(r) \/ Return(r) \/ Used(r)

-----------------------------------------------------------------------------
\* Reader r has its answer, and nothing was stored from its call until now.
Undisturbed(r) == /\ reader[r] = "returned"
                  /\ during[r] = {current_position}
                  /\ follower # "storing"

(***************************************************************************)
(* Who is not disturbed gets what gpsd said last: the position, or the     *)
(* default when it said that there is no fix or has not said anything.     *)
(* (gps.cpp:169-177, 188-194)                                              *)
(***************************************************************************)
LastReportCounts ==
    \A r \in Readers :
        Undisturbed(r) => got[r] = IF fix = Nowhere THEN Default ELSE Position(fix)

(***************************************************************************)
(* Without a fix the default position is used: ham-router.cfg:10, "used    *)
(* when there's no fix (unless not set)".  When the connection to gpsd is  *)
(* lost current_position is not reset.                                     *)
(* (gps.cpp:155-167)                                                       *)
(***************************************************************************)
NoFixMeansDefault ==
    \A r \in Readers : Undisturbed(r) /\ ~gpsd => got[r] = Default

(***************************************************************************)
(* With a default position set nobody goes without a position              *)
(* (ham-router.cfg:10).  But the position may be reset between the two     *)
(* looks at it. (gps.cpp:170, 190-193)                                     *)
(***************************************************************************)
AlwaysAPosition ==
    HasDefault => \A r \in Readers : got[r] # Position(Nowhere)
=============================================================================

----------------------------- MODULE Websockets -----------------------------
(***************************************************************************)
(* websockets.cpp: the records a browser is shown.  main's thread pushes   *)
(* records on a history of limited length; the one thread of libwebsockets *)
(* serves the sessions in turn.  A session remembers no position but the   *)
(* time stamp of the last record it got, so what it is sent next depends   *)
(* on the clock, which may stand still or be set back.                     *)
(*                                                                         *)
(* `lock' is held for the whole of push_to_websockets() and of             *)
(* send_records(), so each is one action.                                  *)
(***************************************************************************)
EXTENDS Integers, Sequences, SequencesExt, FiniteSetsExt

CONSTANTS
    Sessions,
    MaxHistory,     \* MAX_HISTORY_SIZE
    MaxPushes,      \* bound on the records pushed
    MaxClock        \* bound on the clock

ASSUME WebsocketsAssumption ==
    /\ MaxHistory \in Nat \ {0}
    /\ MaxPushes \in Nat /\ MaxClock \in Nat \ {0}

VARIABLES
    clock,      \* get_us()
    json_data,  \* the history: [ts, nr]; nr (observer) numbers the records
    pushed,     \* how many records were ever pushed
    ts,         \* session -> ws_session_data.ts
    shown,      \* observer: session -> the records it got, in order
    connected,  \* the sessions that are established
    steady      \* observer: so far each record had a later time than the last

vars == <<clock, json_data, pushed, ts, shown, connected, steady>>

Init ==
    /\ clock \in 1..MaxClock
    /\ json_data = <<>>
    /\ pushed = 0
    /\ ts = [s \in Sessions |-> 0]
    /\ shown = [s \in Sessions |-> <<>>]
    /\ connected = {}
    /\ steady = TRUE

\* CLOCK_REALTIME goes on or is set, forwards or back.
Clock ==
    /\ clock' \in 1..MaxClock
    /\ UNCHANGED <<json_data, pushed, ts, shown, connected, steady>>

(* Deliberately wrong variants, used to show that the properties bite. *)
Resume_Inclusive(t) ==
    Max({1} \cup {i \in DOMAIN json_data : json_data[i].ts <= t})
Resume_LastOnly(t) ==
    IF json_data # <<>> /\ Last(json_data).ts > t
    THEN Len(json_data) ELSE Len(json_data) + 1

\* The oldest records are erased until the rest fits.
Trimmed(h) == IF Len(h) > MaxHistory
              THEN SubSeq(h, Len(h) - MaxHistory + 1, Len(h))
              ELSE h

\* push_to_websockets()
Push ==
    /\ pushed < MaxPushes
    /\ json_data' = Trimmed(Append(json_data, [ts |-> clock, nr |-> pushed + 1]))
    /\ pushed' = pushed + 1
    /\ steady' = (steady /\ \A i \in DOMAIN json_data : json_data[i].ts < clock)
    /\ UNCHANGED <<clock, ts, shown, connected>>

\* Where send_records() starts for a session with time stamp t: it goes back
\* from the end to a record that is not newer than t and starts behind it.
Resume(t) == 1 + Max({0} \cup {i \in DOMAIN json_data : json_data[i].ts <= t})

Unsent(t) == SubSeq(json_data, Resume(t), Len(json_data))

\* send_records() for session s, which starts from time stamp t and was shown
\* the records `before'.
SendRecords(s, t, before) ==
    /\ shown' = [shown EXCEPT ![s] =
                     before \o [i \in DOMAIN Unsent(t) |-> Unsent(t)[i].nr]]
    /\ ts' = [ts EXCEPT ![s] = IF Unsent(t) = <<>> THEN t ELSE Last(Unsent(t)).ts]

\* LWS_CALLBACK_ESTABLISHED
Establish(s) ==
    /\ s \notin connected
    /\ connected' = connected \cup {s}
    /\ SendRecords(s, 0, <<>>)
    /\ UNCHANGED <<clock, json_data, pushed, steady>>

\* LWS_CALLBACK_SERVER_WRITEABLE
Writeable(s) ==
    /\ s \in connected
    /\ SendRecords(s, ts[s], shown[s])
    /\ UNCHANGED <<clock, json_data, pushed, connected, steady>>

\* The browser goes away.
Close(s) ==
    /\ s \in connected
    /\ connected' = connected \ {s}
    /\ UNCHANGED <<clock, json_data, pushed, ts, shown, steady>>

Next == \/ Clock \/ Push
        \/ \E s \in Sessions : Establish(s) \/ Writeable(s) \/ Close(s)

\* A callback asks to be called again when the socket is writeable, and the
\* browsers read on.
Fairness == \A s \in Sessions : WF_vars(Writeable(s))

Spec == Init /\ [][Next]_vars /\ Fairness

-----------------------------------------------------------------------------
Records == [ts : Nat \ {0}, nr : Nat \ {0}]

TypeOK ==
    /\ clock \in Nat \ {0}
    /\ json_data \in Seq(Records) /\ Len(json_data) <= MaxHistory
    /\ pushed \in Nat
    /\ ts \in [Sessions -> Nat]
    /\ shown \in [Sessions -> Seq(Nat \ {0})]
    /\ connected \subseteq Sessions
    /\ steady \in BOOLEAN

(***************************************************************************)
(* A browser gets each record at most once, in the order in which they     *)
(* were pushed, whatever the clock does: though the session only keeps a   *)
(* time stamp, and other records may bear the same or a later one.         *)
(* (websockets.cpp:27-76)                                                  *)
(***************************************************************************)
InOrderOnce ==
    \A s \in Sessions : \A i, j \in DOMAIN shown[s] :
        i < j => shown[s][i] < shown[s][j]

(***************************************************************************)
(* With a clock that advances between any two records a session that is    *)
(* served has got all of the history, so what it misses was pushed out of  *)
(* the history before its turn came. (websockets.cpp:33, 50-71)            *)
(***************************************************************************)
NothingSkipped ==
    [][\A s \in Sessions : steady /\ Writeable(s) =>
          \A i \in DOMAIN json_data : Contains(shown'[s], json_data[i].nr)]_vars

(***************************************************************************)
(* With such a clock every record is shown to whoever is connected, or is  *)
(* pushed out of the history. (websockets.cpp:90-96)                       *)
(***************************************************************************)
InHistory(n) == \E i \in DOMAIN json_data : json_data[i].nr = n

EveryRecordShown ==
    \A s \in Sessions, n \in 1..MaxPushes :
        InHistory(n) /\ s \in connected
            ~> \/ Contains(shown[s], n) \/ ~InHistory(n)
               \/ s \notin connected \/ ~steady

-----------------------------------------------------------------------------
(***************************************************************************)
(* Why InOrderOnce holds: the history is the latest records in a row, and  *)
(* the time stamp of a session is that of the last record it was shown, so *)
(* that the search never stops before this record.                         *)
(***************************************************************************)
LatestInARow ==
    \A i \in DOMAIN json_data : json_data[i].nr = pushed - Len(json_data) + i

CursorIsLastShown ==
    \A s \in Sessions :
        shown[s] # <<>> =>
            /\ shown[s][Len(shown[s])] <= pushed
            /\ \A i \in DOMAIN json_data :
                  json_data[i].nr = shown[s][Len(shown[s])]
                      => json_data[i].ts = ts[s]

IInv == TypeOK /\ LatestInARow /\ CursorIsLastShown /\ InOrderOnce
=============================================================================

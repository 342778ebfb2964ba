------------------------------ MODULE Database -------------------------------
(***************************************************************************)
(* db-mongodb.cpp and tranceiver-db.cpp: main inserts messages, the web    *)
(* server's threads (webserver.cpp, one per connection) make pages of what *)
(* is stored.  They share one client object, m_c, without a lock; whoever  *)
(* gets an exception deletes it and makes another.                         *)
(*                                                                         *)
(* A query is one step of the server, but its thread has fetched m_c       *)
(* before and a page is made of many of them.  Using or deleting a client  *)
(* that was deleted is undefined: the program dies or nothing is noticed.  *)
(***************************************************************************)
EXTENDS Traffic, Integers, Sequences, FiniteSets, FiniteSetsExt

CONSTANTS
    From,           \* the "from" of a message, or what stands for none
    Raw,            \* its raw data
    Visitors,       \* threads of the web server
    DayLength, MaxTime, \* receive times are 0..MaxTime
    Zone,           \* local time is that much ahead of UTC
    Limit,          \* at most so many records on a page, 1000 in the source
    MaxFaults       \* bound on what goes wrong

ASSUME DatabaseAssumption ==
    /\ DayLength \in Nat \ {0} /\ MaxTime \in Nat /\ Zone \in Int
    /\ Limit \in Nat /\ MaxFaults \in Nat
    /\ "main" \notin Visitors

Users == {"main"} \cup Visitors

VARIABLES
    stored,     \* the collection: <<message, receive-time>>
    client,     \* m_c; clients are numbered
    clients,    \* how many were made
    deleted,    \* those that were deleted
    at,         \* what each user is doing: "idle", a query, "delete", "new"
    using,      \* the client it does it with
    inserting,  \* the record main is inserting
    back,       \* after reconnecting: where a visitor goes on
    table,      \* a visitor's page so far: name -> number of records; -1: none
    rows,       \* its air time table: <<from, date>> -> number of records
    link,       \* the row it clicks on, and what history.html shows
    faults,
    overlap,    \* observer: m_c was fetched or in use while another replaced it
    crashed,
    db_rc       \* what put_message_low() returned

db_vars == <<stored, client, clients, deleted, at, using, inserting, back,
             table, rows, link, faults, overlap, crashed, db_rc>>

-----------------------------------------------------------------------------
Calls == {From[m] : m \in Messages}
Dates == 0..(MaxTime \div DayLength)

\* "/": the queries in the order the page makes them.  The first is thrown
\* away, "packets" and "total" are get_misc_counts(), with one client.
Page == <<"discarded", "packets", "total", "heard", "air", "to", "protocol",
          "heat">>
Tables == {Page[i] : i \in 2..Len(Page)}

After(q) == LET i == CHOOSE j \in DOMAIN Page : Page[j] = q
            IN  IF i = Len(Page) THEN "linked" ELSE Page[i + 1]

\* What an exception in a query skips: all of get_misc_counts().
Skip(q) == IF q \in {"packets", "total"} THEN "heard" ELSE After(q)

Records == {stored[i] : i \in DOMAIN stored}

(* Deliberately wrong variants, used to show that the properties bite. *)
Counted_Swapped(q) == IF q = "total" THEN Cardinality({Raw[r[1]] : r \in Records})
                                     ELSE Len(stored)

\* Whatever a table groups by, null included, its counts add up to this.
Counted(q) == IF q = "packets" THEN Cardinality({Raw[r[1]] : r \in Records})
                               ELSE Len(stored)

\* get_air_time(): $dateToString gives the date in UTC.
AirTime == [row \in Calls \X Dates |->
    Cardinality({r \in Records : From[r[1]] = row[1] /\ r[2] \div DayLength = row[2]})]

(* Deliberately wrong variants, used to show that the properties bite. *)
InHistory_AfterMidnight(r, call, date) ==
    /\ From[r[1]] = call
    /\ r[2] + Zone > date * DayLength
    /\ r[2] + Zone <= (date + 1) * DayLength

\* get_history(): mktime() takes the date as local time; $gte and $lte.
InHistory(r, call, date) ==
    /\ From[r[1]] = call
    /\ r[2] + Zone >= date * DayLength
    /\ r[2] + Zone <= (date + 1) * DayLength

History(call, date) == {r \in Records : InHistory(r, call, date)}

-----------------------------------------------------------------------------
DbInit ==
    /\ stored = <<>>
    /\ client = 1 /\ clients = 1 /\ deleted = {}
    /\ at = [u \in Users |-> "idle"]
    /\ using = [u \in Users |-> 0]
    /\ inserting = <<>>
    /\ back = [v \in Visitors |-> "idle"]
    /\ table = [v \in Visitors |-> [q \in Tables |-> -1]]
    /\ rows = [v \in Visitors |-> AirTime]
    /\ link = [v \in Visitors |-> <<>>]
    /\ faults = 0
    /\ overlap = FALSE /\ crashed = FALSE
    /\ db_rc = [m \in Messages |-> "none"]

\* u fetches m_c for a query, be it while another user is replacing it.
Fetch(u, q) ==
    /\ at' = [at EXCEPT ![u] = q]
    /\ using' = [using EXCEPT ![u] = client]
    /\ overlap' = (overlap \/ \E w \in Users \ {u} : at[w] \in {"delete", "new"})

\* The undefined behaviour of using what was deleted.
Dies(u) == using[u] \in deleted /\ crashed' = TRUE

\* insert_into_database() on behalf of main, up to the query.
DbPut(m) ==
    /\ at["main"] = "idle"
    /\ \E t \in 0..MaxTime : inserting' = <<m, t>>
    /\ Fetch("main", "insert")
    /\ UNCHANGED <<stored, client, clients, deleted, back, table, rows, link,
                   faults, crashed, db_rc>>

\* TE_ok, whatever became of it.
DbReturn ==
    /\ at' = [at EXCEPT !["main"] = "idle"]
    /\ db_rc' = [db_rc EXCEPT ![inserting[1]] = "TE_ok"]

Insert ==
    /\ at["main"] = "insert" /\ ~crashed
    /\ stored' = Append(stored, inserting)
    /\ DbReturn
    /\ UNCHANGED <<client, clients, deleted, using, inserting, back, table,
                   rows, link, faults, overlap, crashed>>

\* insert_one() gives no result; there is no exception and no reconnecting.
InsertFails ==
    /\ at["main"] = "insert" /\ ~crashed
    /\ faults < MaxFaults
    /\ faults' = faults + 1
    /\ DbReturn
    /\ UNCHANGED <<stored, client, clients, deleted, using, inserting, back,
                   table, rows, link, overlap, crashed>>

-----------------------------------------------------------------------------
\* A visitor asks for "/".
Visit(v) ==
    /\ at[v] = "idle"
    /\ table' = [table EXCEPT ![v] = [q \in Tables |-> -1]]
    /\ link' = [link EXCEPT ![v] = <<>>]
    /\ Fetch(v, "discarded")
    /\ UNCHANGED <<stored, client, clients, deleted, inserting, back, rows,
                   faults, crashed, db_rc>>

\* The next query of the page ends well; the thread goes on to the one after.
Query(v) ==
    /\ at[v] \in Tables \cup {"discarded"} /\ ~crashed
    /\ table' = IF at[v] \in Tables
                THEN [table EXCEPT ![v][at[v]] = Counted(at[v])] ELSE table
    /\ rows' = IF at[v] = "air" THEN [rows EXCEPT ![v] = AirTime] ELSE rows
    /\ IF at[v] = "packets"
       THEN at' = [at EXCEPT ![v] = "total"] /\ UNCHANGED <<using, overlap>>
       ELSE Fetch(v, After(at[v]))
    /\ UNCHANGED <<stored, client, clients, deleted, inserting, back, link,
                   faults, crashed, db_rc>>

\* The page is there; the visitor leaves or clicks on a row of the air time
\* table it has.
Click(v) ==
    /\ at[v] = "linked" /\ ~crashed
    /\ \/ /\ at' = [at EXCEPT ![v] = "idle"]
          /\ UNCHANGED <<using, link, overlap>>
       \/ /\ table[v]["air"] >= 0
          /\ \E row \in Calls \X Dates :
                /\ rows[v][row] > 0
                /\ link' = [link EXCEPT ![v] = <<row, -1>>]
          /\ Fetch(v, "history")
    /\ UNCHANGED <<stored, client, clients, deleted, inserting, back, table,
                   rows, faults, crashed, db_rc>>

ShowHistory(v) ==
    /\ at[v] = "history" /\ ~crashed
    /\ LET shown == Cardinality(History(link[v][1][1], link[v][1][2]))
       IN  link' = [link EXCEPT ![v][2] = IF shown > Limit THEN Limit ELSE shown]
    /\ at' = [at EXCEPT ![v] = "idle"]
    /\ UNCHANGED <<stored, client, clients, deleted, using, inserting, back,
                   table, rows, faults, overlap, crashed, db_rc>>

-----------------------------------------------------------------------------
InQuery(u) == at[u] \notin {"idle", "linked", "delete", "new"}

\* A query throws; the table or the record is missing.
Fault(u) ==
    /\ InQuery(u) /\ ~crashed
    /\ faults < MaxFaults
    /\ faults' = faults + 1
    /\ at' = [at EXCEPT ![u] = "delete"]
    /\ back' = IF u = "main" THEN back
               ELSE [back EXCEPT ![u] = IF at[u] = "history" THEN "idle"
                                                             ELSE Skip(at[u])]
    /\ UNCHANGED <<stored, client, clients, deleted, using, inserting, table,
                   rows, link, overlap, crashed, db_rc>>

\* reconnect(): delete m_c
Delete(u) ==
    /\ at[u] = "delete" /\ ~crashed
    /\ deleted' = deleted \cup {client}
    /\ \/ UNCHANGED crashed
       \/ client \in deleted /\ crashed' = TRUE
    /\ overlap' = (overlap \/ \E w \in Users \ {u} : at[w] \notin {"idle", "linked"})
    /\ at' = [at EXCEPT ![u] = "new"]
    /\ UNCHANGED <<stored, client, clients, using, inserting, back, table, rows,
                   link, faults, db_rc>>

(* Deliberately wrong variants. *)
New_KeepsPointer(u) ==
    /\ at[u] = "new" /\ ~crashed
    /\ at' = [at EXCEPT ![u] = IF u = "main" THEN "idle" ELSE back[u]]
    /\ using' = [using EXCEPT ![u] = client]
    /\ UNCHANGED <<stored, client, clients, deleted, inserting, back, table,
                   rows, link, faults, overlap, crashed, db_rc>>

\* m_c = new client; the caller goes on.
New(u) ==
    /\ at[u] = "new" /\ ~crashed
    /\ clients' = clients + 1
    /\ client' = clients'
    /\ \/ /\ u = "main"
          /\ DbReturn
          /\ UNCHANGED using
       \/ /\ u # "main"
          /\ at' = [at EXCEPT ![u] = back[u]]
          /\ using' = [using EXCEPT ![u] = client']
          /\ UNCHANGED db_rc
    /\ UNCHANGED <<stored, deleted, inserting, back, table, rows, link, faults,
                   overlap, crashed>>

\* A query with a client that was deleted.
Die(u) ==
    /\ InQuery(u) /\ ~crashed
    /\ Dies(u)
    /\ UNCHANGED <<stored, client, clients, deleted, at, using, inserting, back,
                   table, rows, link, faults, overlap, db_rc>>

DbStep(u) == \/ u = "main" /\ Insert
             \/ u \in Visitors /\ (Query(u) \/ Click(u) \/ ShowHistory(u))
             \/ Delete(u) \/ New(u)

-----------------------------------------------------------------------------
(***************************************************************************)
(* A page is made of queries while main goes on inserting, but it never    *)
(* contradicts itself backwards: of two of its tables the later one counts *)
(* at least as many records, and there are no more unique packets than     *)
(* packets; a query that fails leaves its table empty and nothing else.    *)
(* (webserver.cpp:70-160, db-mongodb.cpp:164-310)                          *)
(***************************************************************************)
PageNeverGoesBack ==
    \A v \in Visitors, i, j \in 2..Len(Page) :
        i < j /\ table[v][Page[i]] >= 0 /\ table[v][Page[j]] >= 0
            => table[v][Page[i]] <= table[v][Page[j]]

(***************************************************************************)
(* "Click on a date to jump to show packets of that date for that          *)
(* callsign" (webserver.cpp:109): the page behind a row of the air time    *)
(* table shows at least the records the row counted, up to the limit.  In  *)
(* UTC it is so; in any other time zone get_history() takes another day    *)
(* than get_air_time(). (db-mongodb.cpp:225, 329-339)                      *)
(***************************************************************************)
LinkShowsTheRow ==
    \A v \in Visitors :
        link[v] # <<>> /\ link[v][2] >= 0 =>
            link[v][2] >= Min({Limit, rows[v][link[v][1]]})

(***************************************************************************)
(* put_message() says TE_ok whatever happened: a record is missing only    *)
(* when its insertion failed, there is never one too many, and the order   *)
(* is that of main's calls. (db-mongodb.cpp:128-161, tranceiver-db.cpp)    *)
(***************************************************************************)
MissingOnlyByFault ==
    /\ Len(stored) + faults >= Cardinality({m \in Messages : db_rc[m] = "TE_ok"})
    /\ \A i, j \in DOMAIN stored : stored[i][1] = stored[j][1] => i = j

(***************************************************************************)
(* The client that was deleted is only touched when another thread was at  *)
(* the database while it was replaced; a user alone always gets a live one.*)
(* (db-mongodb.cpp:40-48)                                                  *)
(***************************************************************************)
DeadClientOnlyByOverlap == crashed => overlap
=============================================================================

------------------------------ MODULE Lifecycle ------------------------------
(***************************************************************************)
(* configuration.cpp, the base class of the tranceivers and main.cpp: the  *)
(* program is put together in the order of its configuration file, while   *)
(* the threads that exist already run, and taken apart after ^C in the     *)
(* order of the destructor.  Who shares the position of the GPS is Gps.    *)
(*                                                                         *)
(* Main's loop, the filters and the inside of the tranceivers have modules *)
(* of their own (Router, Seen, Lora, ...): what is asked here is which     *)
(* objects exist while which threads use them.                             *)
(***************************************************************************)
EXTENDS Gps, SequencesExt

CONSTANTS
    Files,      \* configuration files, see below
    Kind,       \* tranceiver -> "beacon", "udp", "mqtt", "kiss", "lora", "db", "ws"
    Program     \* owner of what belongs to no tranceiver

(***************************************************************************)
(* A configuration file says, in this order, which sections and which      *)
(* tranceivers there are; whether gpsd is to be followed; the names its    *)
(* filters have; and the names it refers to: the tranceivers and filters   *)
(* of the mappings, and the filters of the peers of axudp.                 *)
(***************************************************************************)
ASSUME LifecycleAssumption ==
    /\ \A f \in Files : /\ f.sections \in Seq(STRING)
                       /\ f.tranceivers \in Seq(DOMAIN Kind)
    /\ \A t \in DOMAIN Kind :
          Kind[t] \in {"beacon", "udp", "mqtt", "kiss", "lora"} => t \in Readers

VARIABLES
    file,       \* the configuration file
    main,       \* what main() is doing
    section,    \* the section of the file it is loading
    at,         \* in a loop over the tranceivers: at which it is
    alive,      \* the objects that exist
    given,      \* the tranceivers that were given a gps_connector
    told,       \* the tranceivers whose terminate is set
    thread,     \* Readers -> where the thread, or the library's, is
    web,        \* the thread of the web server's connection
    work,       \* work_list is not empty
    asked       \* ^C

lifeVars == <<file, main, section, at, alive, given, told, thread, web, work,
              asked>>
vars == <<gpsVars, lifeVars>>

The(kind) == <<kind, Program>>
FilterOf(t) == <<"filter", t>>      \* the tranceiver's own seen
Self(t) == <<"tranceiver", t>>

Has(f, kind) == \E i \in 1 .. Len(f.tranceivers) : Kind[f.tranceivers[i]] = kind
Here == file.tranceivers[at]

\* The threads of a tranceiver: a loop of its own until terminate is set, one
\* that libmosquitto made and ends in mosquitto_destroy(), or a new one for
\* each packet that the LoRa modem reports, which nobody waits for.
OwnLoop(t) == Kind[t] \in {"beacon", "udp", "kiss"}
Detached(t) == Kind[t] = "lora"
Filtered(t) == Kind[t] \in {"udp", "mqtt", "kiss", "lora"}  \* beacons have none

\* Where a thread begins, and where it waits when it has done something.
Begins(t) == IF Kind[t] \in {"udp", "kiss"} THEN "top" ELSE "waiting"
Again(t) == IF Detached(t) /\ Self(t) \notin alive THEN "ended" ELSE Begins(t)

\* How the program may end: the file is wrong, a pointer was not set, something
\* outside it fails, what was deleted is used, or main() returns.
Going == main \notin {"exited", "crashed", "failed", "corrupted", "returned"}

Init ==
    /\ GpsInit
    /\ file \in Files
    /\ main = "loading"
    /\ section = 1 /\ at = 1
    /\ alive = {The("work queue")}
    /\ given = {} /\ told = {}
    /\ thread = [t \in Readers |-> "none"]
    /\ web = "none"
    /\ work = FALSE /\ asked = FALSE

-----------------------------------------------------------------------------
(* The constructor of configuration: sections in the order of the file.    *)

Section(name) == /\ main = "loading"
                 /\ section <= Len(file.sections)
                 /\ file.sections[section] = name

\* load_general(): the connector and its thread, the global filter.
LoadGeneral ==
    /\ Section("general")
    /\ alive' = alive \cup {The("gps"), The("global filter")}
    /\ section' = section + 1
    /\ UNCHANGED <<gpsVars, file, main, at, given, told, thread, web, work, asked>>

\* load_filters()
LoadFilters ==
    /\ Section("filters")
    /\ alive' = alive \cup {The("filters")}
    /\ section' = section + 1
    /\ UNCHANGED <<gpsVars, file, main, at, given, told, thread, web, work, asked>>

\* The names that filters.find() finds now.
Known == IF The("filters") \in alive THEN file.defined ELSE {}

\* load_bridge_switchboard(): the filters and the tranceivers that the mappings
\* name have to exist by now.
LoadMappings ==
    /\ Section("mappings")
    /\ IF file.filters \subseteq Known /\ \A t \in file.mapped : Self(t) \in alive
       THEN /\ alive' = alive \cup {The("switchboard")}
            /\ section' = section + 1
            /\ UNCHANGED main
       ELSE main' = "exited" /\ UNCHANGED <<alive, section>>
    /\ UNCHANGED <<gpsVars, file, at, given, told, thread, web, work, asked>>

\* The web server looks for its traffic-db among the tranceivers before it.
NoDatabase(t) == /\ Kind[t] = "ws"
                 /\ Has(file, "db")
                 /\ The("database") \notin alive

\* axudp looks for the filters of its peers.
NoFilter(t) == Kind[t] = "udp" /\ ~(file.peers \subseteq Known)

Unfounded(t) == NoDatabase(t) \/ NoFilter(t)

\* What is made with tranceiver t, and deleted with it.
Brought(t) ==
    {Self(t)} \cup (IF Filtered(t) THEN {FilterOf(t)} ELSE {})
              \cup (IF Kind[t] = "db" THEN {The("database")} ELSE {})

\* Deliberately wrong variants, used to show that the properties bite.
GivenTo_NotTheFirst(t) == IF at > 1 /\ The("gps") \in alive THEN {t} ELSE {}

\* The pointer as it is now, which may be nullptr.
GivenTo(t) == IF The("gps") \in alive THEN {t} ELSE {}

\* tranceiver::instantiate() of the next one; its thread begins to run.
Instantiate ==
    /\ Section("tranceivers")
    /\ at <= Len(file.tranceivers)
    /\ IF Unfounded(Here)
       THEN main' = "exited" /\ UNCHANGED <<at, alive, given, thread, web>>
       ELSE /\ alive' = alive \cup Brought(Here)
            /\ given' = given \cup GivenTo(Here)
            /\ thread' = [t \in Readers |-> IF t = Here THEN Begins(t) ELSE thread[t]]
            /\ web' = IF Kind[Here] = "ws" THEN "idle" ELSE web
            /\ at' = at + 1
            /\ UNCHANGED main
    /\ UNCHANGED <<gpsVars, file, section, told, work, asked>>

Instantiated ==
    /\ Section("tranceivers")
    /\ at > Len(file.tranceivers)
    /\ section' = section + 1
    /\ at' = 1
    /\ UNCHANGED <<gpsVars, file, main, alive, given, told, thread, web, work, asked>>

\* The SNMP agent and the thread of process() begin.
Start ==
    /\ main = "loading"
    /\ section > Len(file.sections)
    /\ main' = "running"
    /\ alive' = alive \cup {The("agent")}
    /\ UNCHANGED <<gpsVars, file, section, at, given, told, thread, web, work, asked>>

\* error_exit(), when a device, a port, a broker or a name cannot be had, or
\* SIGPIPE: while a tranceiver or the agent is made, or main handles a message.
Unavailable ==
    /\ \/ /\ Section("tranceivers") /\ at <= Len(file.tranceivers)
          /\ Kind[Here] # "beacon"
       \/ main = "loading" /\ section > Len(file.sections)
       \/ main = "running" /\ ~asked /\ work
    /\ main' = "failed"
    /\ UNCHANGED <<gpsVars, file, section, at, alive, given, told, thread, web, work,
                   asked>>

-----------------------------------------------------------------------------
(* The threads.                                                            *)

\* Thread t goes on; nothing happens after the end of the program.
Goes(t, from, to) ==
    /\ Going
    /\ thread[t] = from
    /\ thread' = [thread EXCEPT ![t] = to]

NothingElse ==
    UNCHANGED <<gpsVars, file, main, section, at, alive, given, told, web, work,
                asked>>


\* for(;!terminate;)
LoopTop(t) ==
    /\ Goes(t, "top", IF t \in told THEN "ended"
                      ELSE IF Kind[t] = "beacon" THEN "telling" ELSE "waiting")
    /\ NothingElse

\* The beacon has slept, or poll() timed out or failed, which ends the loop.
Wake(t) ==
    /\ OwnLoop(t)
    /\ \/ Goes(t, "waiting",
               IF t \in told /\ Kind[t] = "beacon" THEN "ended" ELSE "top")
       \/ Kind[t] # "beacon" /\ Goes(t, "waiting", "ended")
    /\ NothingElse

\* The tranceiver or the web server that main is deleting takes no more.
Closing(t) == main = "delete" /\ at <= Len(file.tranceivers) /\ Here = t

\* A datagram, a publication or a packet, which goes to queue_incoming_message();
\* of KISS frames poll() only announces the first byte.
Receive(t) ==
    /\ Filtered(t) /\ ~Closing(t)
    /\ Goes(t, "waiting", IF Kind[t] = "kiss" THEN "reading" ELSE "checking")
    /\ NothingElse

\* The bytes of a frame come one by one, each to a read() that waits for it
\* (see Kiss), until the frame is complete or given up.
Frame(t) ==
    /\ \E to \in {Again(t), "checking"} : Goes(t, "reading", to)
    /\ NothingElse

\* The filter's answer; a frame may have no position.
Checked(t) ==
    /\ \E to \in {Again(t), "queueing"} : Goes(t, "checking", to)
    /\ NothingElse

\* gps->get_position(): for the distance to the sender, or to tell one's own.
Locate(t) ==
    /\ Goes(t, IF Kind[t] = "beacon" THEN "telling" ELSE "checking", "locating")
    /\ IF t \in given
       THEN HasValue(t) /\ UNCHANGED main
       ELSE main' = "crashed" /\ UNCHANGED gpsVars
    /\ UNCHANGED <<file, section, at, alive, given, told, web, work, asked>>

Copy(t) == Going /\ Return(t) /\ UNCHANGED lifeVars

\* Without a position a beacon has nothing to say.
Located(t) ==
    /\ Goes(t, "locating",
            IF Kind[t] = "beacon" /\ got[t] = Position(Nowhere)
            THEN Again(t) ELSE "queueing")
    /\ Used(t)
    /\ UNCHANGED <<file, main, section, at, alive, given, told, web, work, asked>>

\* incoming.push() and work_list.push(), which Router looks at more closely.
Queue(t) ==
    /\ Goes(t, "queueing", Again(t))
    /\ work' = TRUE
    /\ UNCHANGED <<gpsVars, file, main, section, at, alive, given, told, web, asked>>

\* A visitor asks for a page; it is answered from the traffic database.
Visit ==
    /\ Going
    /\ ~\E t \in DOMAIN Kind : Kind[t] = "ws" /\ Closing(t)
    /\ web = "idle" /\ web' = "querying"
    /\ UNCHANGED <<gpsVars, file, main, section, at, alive, given, told, thread,
                   work, asked>>

Answer ==
    /\ Going
    /\ web = "querying" /\ web' = "idle"
    /\ UNCHANGED <<gpsVars, file, main, section, at, alive, given, told, thread,
                   work, asked>>

\* The thread that follows gpsd, when the file says so.
Follow ==
    /\ Going /\ file.follows /\ The("gps") \in alive
    /\ Follower
    /\ main' = IF follower' = "failed" THEN "failed" ELSE main
    /\ UNCHANGED <<file, section, at, alive, given, told, thread, web, work, asked>>

-----------------------------------------------------------------------------
(* process() in a few words, and the end of main().                        *)

Signal ==
    /\ main \in {"loading", "running"} /\ ~asked
    /\ asked' = TRUE
    /\ UNCHANGED <<gpsVars, file, main, section, at, alive, given, told, thread,
                   web, work>>

\* A message goes to the switchboard, which may not exist.
MainPut ==
    /\ main = "running" /\ ~asked /\ work
    /\ work' \in BOOLEAN
    /\ main' = IF The("switchboard") \in alive THEN "running" ELSE "crashed"
    /\ UNCHANGED <<gpsVars, file, section, at, alive, given, told, thread, web,
                   asked>>

\* Deliberately wrong variants, used to show that the properties bite.
After_GpsEarly(step) ==
    CASE step = "switchboard" -> "stop"
      [] step = "stop" -> "gps"
      [] step = "gps" -> "delete"
      [] step = "delete" -> "global filter"
      [] step = "global filter" -> "returned"

\* ~configuration(): what is deleted after what.  (stop_webserver() comes
\* first but "webserver" is never set; stop_websockets() ends a thread that
\* uses nothing of this; "d" is never set.)
After(step) ==
    CASE step = "switchboard" -> "stop"
      [] step = "stop" -> "delete"
      [] step = "delete" -> "global filter"
      [] step = "global filter" -> "gps"
      [] step = "gps" -> "returned"

\* What is left when main() returns is deleted, too.
Deleted(objects) ==
    alive' = IF After(main) = "returned" THEN {} ELSE alive \ objects

\* The loop of process() ends and the agent is deleted.
Leave ==
    /\ main = "running" /\ asked
    /\ main' = "switchboard"
    /\ alive' = alive \ {The("agent")}
    /\ UNCHANGED <<gpsVars, file, section, at, given, told, thread, web, work, asked>>

Delete ==
    /\ main \in {"switchboard", "global filter"}
    /\ Deleted({The(main)})
    /\ main' = After(main)
    /\ UNCHANGED <<gpsVars, file, section, at, given, told, thread, web, work, asked>>

LoopDone ==
    /\ main \in {"stop", "delete"}
    /\ at > Len(file.tranceivers)
    /\ at' = 1
    /\ main' = After(main)
    /\ UNCHANGED <<gpsVars, file, section, alive, given, told, thread, web, work,
                   asked>>

\* tranceiver::stop(): terminate = true ...
Tell ==
    /\ main = "stop" /\ at <= Len(file.tranceivers)
    /\ told' = told \cup {Here}
    /\ UNCHANGED <<gpsVars, file, main, section, at, alive, given, thread, web,
                   work, asked>>

\* ... and th->join() where there is such a thread; s->stop().
Join ==
    /\ main = "stop" /\ at <= Len(file.tranceivers)
    /\ Here \in told
    /\ OwnLoop(Here) => thread[Here] = "ended"
    /\ at' = at + 1
    /\ UNCHANGED <<gpsVars, file, main, section, alive, given, told, thread, web,
                   work, asked>>

\* delete t: the destructor of the class waits for the library's threads, that
\* of the base class deletes the filter.  LoRa_end() takes the modem's interrupt
\* away, but a thread that works on a packet goes on.
Destroy ==
    /\ main = "delete" /\ at <= Len(file.tranceivers)
    /\ Kind[Here] = "mqtt" => thread[Here] = "waiting"
    /\ Kind[Here] = "ws" => web = "idle"
    /\ thread' = [t \in Readers |->
                     IF t = Here /\ (Detached(t) => thread[t] = "waiting")
                     THEN "ended" ELSE thread[t]]
    /\ web' = IF Kind[Here] = "ws" THEN "ended" ELSE web
    /\ alive' = alive \ Brought(Here)
    /\ at' = at + 1
    /\ UNCHANGED <<gpsVars, file, main, section, given, told, work, asked>>

\* ~gps_connector(): terminate = true ...
TellGps ==
    /\ main = "gps" /\ file.follows /\ The("gps") \in alive
    /\ Stop
    /\ UNCHANGED lifeVars

\* ... and th->join(), where there is such a thread; without a general section
\* there is no connector.
JoinGps ==
    /\ main = "gps"
    /\ file.follows /\ The("gps") \in alive => terminate /\ follower = "done"
    /\ Deleted({The("gps")})
    /\ main' = After(main)
    /\ UNCHANGED <<gpsVars, file, section, at, given, told, thread, web, work, asked>>

-----------------------------------------------------------------------------
\* What the thread of tranceiver t uses at this moment.
Uses(t) ==
    CASE thread[t] \in {"none", "ended"} -> {}
      [] thread[t] = "checking" -> {Self(t), FilterOf(t)}
      [] thread[t] = "locating" -> {Self(t), The("gps")}
      [] thread[t] = "queueing" -> {Self(t), The("work queue")}
      [] thread[t] \in {"top", "waiting", "reading", "telling"} ->
             IF OwnLoop(t) THEN {Self(t)} ELSE {}

QueriesWhatIsGone ==
    web = "querying" /\ Has(file, "db") /\ The("database") \notin alive

\* Whoever uses what was deleted may go on as if nothing was wrong, or not.
Misuse ==
    /\ Going
    /\ QueriesWhatIsGone \/ \E t \in Readers : ~(Uses(t) \subseteq alive)
    /\ main' = "corrupted"
    /\ UNCHANGED <<gpsVars, file, section, at, alive, given, told, thread, web, work,
                   asked>>

-----------------------------------------------------------------------------
Load == \/ LoadGeneral \/ LoadFilters \/ LoadMappings \/ Instantiate \/ Instantiated
        \/ Start
TearDown == Leave \/ Delete \/ LoopDone \/ Tell \/ Join \/ Destroy \/ TellGps \/ JoinGps
Thread(t) == \/ LoopTop(t) \/ Wake(t) \/ Receive(t) \/ Checked(t)
             \/ Locate(t) \/ Copy(t) \/ Located(t) \/ Queue(t)

Next == \/ Load \/ MainPut \/ Signal \/ TearDown \/ Follow \/ Visit \/ Answer
        \/ Unavailable \/ Misuse
        \/ \E t \in Readers : Thread(t) \/ Frame(t)

\* Every thread goes on: the waits of the loops time out, a call that has
\* begun returns.  No message has to arrive, a frame that has begun need not be
\* completed, nobody has to press ^C.
Spec ==
    /\ Init /\ [][Next]_vars
    /\ WF_vars(Load) /\ WF_vars(TearDown) /\ WF_vars(Follow) /\ WF_vars(Answer)
    /\ \A t \in Readers : WF_vars(Thread(t))

-----------------------------------------------------------------------------
(***************************************************************************)
(* No thread uses what was deleted, though the threads of the tranceivers, *)
(* those of libmosquitto and that of gpsd end at different times and main  *)
(* waits for each in another place; and none is left when main() returns.  *)
(* There are two exceptions.  The pages of the web server ask a traffic    *)
(* database that was deleted, until the web server is deleted as well.     *)
(* And nobody waits for the detached threads of the LoRa modem, LoRa.c:255 *)
(* (rx_f, tranceiver-lora-sx1278.cpp:18-64): one that handles a packet     *)
(* while its tranceiver is deleted uses that, its filter and the connector *)
(* from then on.                                                           *)
(* (configuration.cpp:59-86, tranceiver.cpp:29-46, gps.cpp:123-135)        *)
(***************************************************************************)
NothingDeletedIsUsed ==
    /\ Going => \A t \in Readers :
          \/ Uses(t) \subseteq alive
          \/ Detached(t) /\ main \in {"delete", "global filter", "gps"}
    /\ Going /\ QueriesWhatIsGone => main = "delete"
    /\ main = "returned" =>
          /\ \A t \in Readers : thread[t] \in {"none", "ended"} \/ Detached(t)
          /\ web \in {"none", "ended"}
          /\ Contains(file.sections, "general") /\ file.follows => follower = "done"

(***************************************************************************)
(* A file in the order of ham-router.cfg (general, filters, tranceivers    *)
(* with those that others refer to first, mappings) in which every name    *)
(* that is referred to is defined is never the reason that the program     *)
(* exits while it loads it, nor does the program ever follow a pointer     *)
(* that was not set, whatever the threads do while the rest is being       *)
(* loaded.  It may still end because a device, a port, a broker or gpsd    *)
(* does not answer ("failed").  The names are part of it: ham-router.cfg   *)
(* itself refers to a filter and to a tranceiver that it does not define   *)
(* (ham-router.cfg:237, 278). (configuration.cpp:12-57, 88-93, 125-168)    *)
(***************************************************************************)
InOrder(f) ==
    /\ f.sections = <<"general", "filters", "tranceivers", "mappings">>
    /\ \A i, j \in 1 .. Len(f.tranceivers) :
          Kind[f.tranceivers[i]] = "db" /\ Kind[f.tranceivers[j]] = "ws" => i < j

NamesDefined(f) ==
    /\ f.filters \subseteq f.defined /\ f.peers \subseteq f.defined
    /\ \A t \in f.mapped : \E i \in 1 .. Len(f.tranceivers) : f.tranceivers[i] = t

OrderIsEnough ==
    InOrder(file) /\ NamesDefined(file) => main \notin {"exited", "crashed"}

(***************************************************************************)
(* After ^C the program ends: every thread that is waited for notices it.  *)
(* The one exception is a KISS tranceiver that stop() waits for while it   *)
(* is in the middle of a frame whose rest never comes, for its read() has  *)
(* no time-out. (configuration.cpp:59-86, gps.cpp:144, 152,                *)
(* tranceiver.cpp:34-42, tranceiver-kiss.cpp:35-39)                        *)
(***************************************************************************)
Stuck == /\ main = "stop" /\ at <= Len(file.tranceivers)
         /\ Kind[Here] = "kiss" /\ thread[Here] = "reading"


(***************************************************************************)
(* The web server is stopped before what its pages show is deleted, as     *)
(* ~configuration() sets out to do (configuration.cpp:61-63).  But the     *)
(* daemon belongs to the tranceiver, which is deleted after the database's *)
(* as it comes after it in the file.                                       *)
(***************************************************************************)
WebStopsFirst == ~(Going /\ QueriesWhatIsGone)
=============================================================================

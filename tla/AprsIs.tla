------------------------------- MODULE AprsIs --------------------------------
(***************************************************************************)
(* tranceiver-aprs-si.cpp: the uplink to APRS-IS, a TCP session that is    *)
(* made when there is something to send and made anew after it failed.     *)
(* Only main calls put_message_low().                                      *)
(*                                                                         *)
(* A session can be cut at any time: the server keeps what it has got, the *)
(* rest is gone, and a write to a session that was cut may still be taken. *)
(* A server may say nothing after the login.  What kind of message it is   *)
(* and the limiter's verdict (Seen's) are free here.                       *)
(***************************************************************************)
EXTENDS Traffic, Integers, FiniteSets, Sequences, SequencesExt

CONSTANT
    MaxSessions     \* bound on the sessions

ASSUME AprsIsAssumption ==
    /\ IsFiniteSet(Messages)
    /\ "login" \notin Messages     \* the login is no message
    /\ MaxSessions \in Nat

VARIABLES
    aprs,       \* put_message_low(): "idle", "connect", "login", "reply", "write"
    uplinked,   \* its message
    fd,         \* the session of the socket, or -1
    sessions,   \* how many were made
    cut,        \* the sessions that were cut
    silent,     \* the sessions whose server says nothing
    flight,     \* on its way in the present session
    server,     \* what the server got, per session
    accepted,   \* observer: what is to be uplinked
    written,    \* observer: the session a message was written to
    aprs_rc     \* what put_message_low() returned for each message

aprs_vars == <<aprs, uplinked, fd, sessions, cut, silent, flight, server,
               accepted, written, aprs_rc>>

AprsInit ==
    /\ aprs = "idle"
    /\ fd = -1
    /\ sessions = 0 /\ cut = {} /\ silent = {}
    /\ flight = <<>>
    /\ server = [s \in 1..MaxSessions |-> <<>>]
    /\ accepted = <<>>
    /\ written = [m \in Messages |-> 0]
    /\ aprs_rc = [m \in Messages |-> "none"]

AprsReturn(m, rc) ==
    /\ aprs' = "idle"
    /\ aprs_rc' = [aprs_rc EXCEPT ![m] = rc]

\* WRITE() of a line: it reaches the session unless that was cut.
Write(line) ==
    flight' = IF fd \in cut THEN flight ELSE Append(flight, line)

\* close(fd), fd = -1
Close == fd' = -1 /\ flight' = <<>>

-----------------------------------------------------------------------------
\* put_message_low(m) up to its lock: it is too short, no APRS packet, refused
\* by the limiter, or goes on.
AprsPut(m) ==
    /\ aprs = "idle"
    /\ uplinked' = m
    /\ \/ /\ \E rc \in {"TE_hardware", "TE_ok", "TE_ratelimiting"} : AprsReturn(m, rc)
          /\ UNCHANGED accepted
       \/ /\ aprs' = IF fd = -1 THEN "connect" ELSE "write"
          /\ accepted' = Append(accepted, m)
          /\ UNCHANGED aprs_rc
    /\ UNCHANGED <<fd, sessions, cut, silent, flight, server, written>>

(* Deliberately wrong variants, used to show that the properties bite. *)
Connect_LogsInOnce ==
    /\ aprs = "connect"
    /\ sessions < MaxSessions
    /\ sessions' = sessions + 1
    /\ fd' = sessions'
    /\ aprs' = IF sessions = 0 THEN "login" ELSE "write"
    /\ UNCHANGED <<uplinked, cut, silent, flight, server, accepted, written,
                   aprs_rc>>

\* connect_to(); a name that cannot be resolved is in Unresolved.
Connect ==
    /\ aprs = "connect"
    /\ \/ /\ sessions < MaxSessions
          /\ sessions' = sessions + 1
          /\ fd' = sessions'
          /\ silent' \in {silent, silent \cup {sessions'}}
          /\ aprs' = "login"
          /\ UNCHANGED aprs_rc
       \/ /\ AprsReturn(uplinked, "TE_hardware")
          /\ UNCHANGED <<fd, sessions, silent>>
    /\ UNCHANGED <<uplinked, cut, flight, server, accepted, written>>

\* What follows a write or a read that fails: only a session that was cut
\* makes it fail.  A write may then end the program instead: Outlets!BrokenPipe.
Fails ==
    /\ fd \in cut
    /\ Close
    /\ AprsReturn(uplinked, "TE_hardware")

Login ==
    /\ aprs = "login"
    /\ \/ Fails
       \/ /\ Write("login")
          /\ aprs' = "reply"
          /\ UNCHANGED <<fd, aprs_rc>>
    /\ UNCHANGED <<uplinked, sessions, cut, silent, server, accepted, written>>

(* Deliberately wrong variants. *)
Reply_LoopsAtEndOfFile ==
    /\ aprs = "reply"
    /\ fd \notin cut /\ fd \notin silent
    /\ aprs' = "write"
    /\ UNCHANGED <<uplinked, fd, sessions, cut, silent, flight, server, accepted,
                   written, aprs_rc>>

\* receive_string(): it blocks for as long as the server says nothing.
Reply ==
    /\ aprs = "reply"
    /\ \/ Fails
       \/ /\ fd \notin cut /\ fd \notin silent
          /\ aprs' = "write"
          /\ UNCHANGED <<fd, flight, aprs_rc>>
    /\ UNCHANGED <<uplinked, sessions, cut, silent, server, accepted, written>>

\* The message goes out as it came in; it is not tried again.
WritePayload ==
    /\ aprs = "write"
    /\ \/ Fails
       \/ /\ Write(uplinked)
          /\ AprsReturn(uplinked, "TE_ok")
          /\ UNCHANGED fd
    /\ written' = [written EXCEPT ![uplinked] = fd]
    /\ UNCHANGED <<uplinked, sessions, cut, silent, server, accepted>>

\* The server gets what was written first.
Arrive ==
    /\ flight # <<>> /\ fd \notin cut
    /\ server' = [server EXCEPT ![fd] = Append(@, Head(flight))]
    /\ flight' = Tail(flight)
    /\ UNCHANGED <<aprs, uplinked, fd, sessions, cut, silent, accepted, written,
                   aprs_rc>>

Cut ==
    /\ fd # -1 /\ fd \notin cut
    /\ cut' = cut \cup {fd}
    /\ flight' = <<>>
    /\ UNCHANGED <<aprs, uplinked, fd, sessions, silent, server, accepted,
                   written, aprs_rc>>

AprsStep == Connect \/ Login \/ Reply \/ WritePayload

-----------------------------------------------------------------------------
Taken(line) == \E k \in DOMAIN accepted : accepted[k] = line

InThatOrder(x, y) ==
    \E k, l \in DOMAIN accepted : k < l /\ accepted[k] = x /\ accepted[l] = y

(***************************************************************************)
(* What APRS-IS gets: every session begins with its one login, and over    *)
(* all sessions the messages the limiter let through come in their order,  *)
(* none of them twice, however the sessions break.                         *)
(* (tranceiver-aprs-si.cpp:94-142)                                         *)
(***************************************************************************)
UplinkIsFaithful ==
    \A s \in 1..MaxSessions : server[s] # <<>> =>
        /\ server[s][1] = "login"
        /\ \A i \in 2..Len(server[s]) :
              /\ Taken(server[s][i])
              /\ \A t \in s..MaxSessions : \A j \in 2..Len(server[t]) :
                    s < t \/ i < j => /\ server[s][i] # server[t][j]
                                     /\ InThatOrder(server[s][i], server[t][j])

(***************************************************************************)
(* TE_ok means that the server has the message, or will have it, unless    *)
(* the session it was written to was cut; after TE_hardware it never comes *)
(* there, so that nothing would be doubled by trying again (nobody does).  *)
(* (tranceiver-aprs-si.cpp:127-142, net.cpp:25-41)                         *)
(***************************************************************************)
LostOnlyWhenCut ==
    \A m \in ToSet(accepted) :
        /\ aprs_rc[m] = "TE_ok" /\ written[m] \notin cut =>
              Contains(server[written[m]] \o flight, m)
        /\ aprs_rc[m] = "TE_hardware" =>
              /\ \A s \in 1..MaxSessions : ~Contains(server[s], m)
              /\ ~Contains(flight, m)
=============================================================================

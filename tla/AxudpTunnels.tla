---------------------------- MODULE AxudpTunnels ----------------------------
(***************************************************************************)
(* tranceiver-axudp.cpp: routers that tunnel frames to each other in UDP   *)
(* datagrams and, when told to `distribute', pass on what they receive.    *)
(*                                                                         *)
(* Each router has one AXUDP tranceiver with two threads in it: main's,    *)
(* in put_message_low(), and its own, which receives and distributes.  A   *)
(* tunnel may have a repetition filter, which refills as time passes and   *)
(* now and then forgets a frame.  UDP loses and reorders, and delivers     *)
(* within MaxDelay or not at all; a socket holds at most MaxInbox          *)
(* datagrams, and a router deals with what it has within a tick.           *)
(***************************************************************************)
EXTENDS RateLimiter, Sequences, SequencesExt, FiniteSets, Bags

CONSTANTS
    Routers,
    Peers,          \* Routers -> Seq(Routers): the configured peers, in order
    Frames,
    Rejects,        \* <<r, p, f>>: the filter r has for its peer p says no to f
    Broken,         \* <<r, p>>: transmit_udp() from r to p fails
    ContinueOnError,
    Filtered,       \* routers whose tunnel has a repetition filter
    MaxForgets,     \* bound on how often a filter forgets a frame
    MaxDelay,       \* ticks a datagram is on its way, at most
    ListenPort,     \* the port number in the peers' "host:port"
    SourcePorts,    \* what the kernel binds transmit_udp()'s socket to
    MaxInbox,       \* datagrams a socket holds
    NoFrame, Nobody

ASSUME TunnelAssumption ==
    /\ IsFiniteSet(Routers) /\ IsFiniteSet(Frames)
    /\ Peers \in [Routers -> Seq(Routers)]
    /\ ContinueOnError \in BOOLEAN
    /\ Filtered \subseteq Routers
    /\ MaxForgets \in Nat /\ MaxDelay \in Nat /\ MaxInbox \in Nat \ {0}
    /\ ListenPort \in 1..65535 /\ SourcePorts \subseteq 1..65535

VARIABLES
    inbox,      \* router -> bag of datagrams in its socket or on their way
    bucket,     \* router -> frame -> allowance of its rate limiter
    forgets,
    put,        \* main's thread in put_message_low()
    rx,         \* the tranceiver's thread in send_to_other_axudp_targets()
    origin,     \* frame -> the router that first put it in the tunnel
    taken,      \* observer: <<r, f>> such that r accepted f
    lost        \* observer: a datagram was lost

vars == <<inbox, bucket, forgets, put, rx, origin, taken, lost>>

-----------------------------------------------------------------------------
Datagram(from, port, f) == [from |-> from, port |-> port, frame |-> f, age |-> 0]

\* A sending loop: the frame and the peers still to visit; idle when none.
Idle == [frame |-> NoFrame, from |-> Nobody, todo |-> <<>>]

\* sin_port is in network byte order and printed as it is.
SwapBytes(port) == (port % 256) * 256 + (port \div 256)

\* came_from, and what it is compared with: <<host, port>> stands for the
\* text "host:port".
CameFrom(d) == <<d.from, SwapBytes(d.port)>>
PeerName(p) == <<p, ListenPort>>

Empty(r) == BagCardinality(inbox[r]) = 0

Init ==
    /\ inbox = [r \in Routers |-> EmptyBag]
    /\ bucket = [r \in Routers |-> [f \in Frames |-> Capacity]]
    /\ forgets = 0
    /\ put = [r \in Routers |-> Idle]
    /\ rx = [r \in Routers |-> Idle]
    /\ origin = [f \in Frames |-> Nobody]
    /\ taken = {}
    /\ lost = FALSE

\* transmit_udp() of frame f from r to p, over a socket of its own.  The
\* datagram arrives, or is lost on the way or for want of room.
Transmit(r, p, f) ==
    IF <<r, p>> \in Broken
    THEN UNCHANGED <<inbox, lost>>
    ELSE \/ /\ BagCardinality(inbox[p]) < MaxInbox
            /\ \E port \in SourcePorts :
                  inbox' = [inbox EXCEPT
                               ![p] = @ (+) SetToBag({Datagram(r, port, f)})]
            /\ UNCHANGED lost
         \/ lost' = TRUE /\ UNCHANGED inbox

(* Deliberately wrong variants, used to show that the properties bite. *)
AfterSend_GivesUp(r, loop) ==
    IF <<r, Head(loop.todo)>> \in Broken THEN Idle
    ELSE [loop EXCEPT !.todo = Tail(@)]

\* The loop after its next peer: a failure ends it unless continue_on_error.
AfterSend(r, loop) ==
    IF <<r, Head(loop.todo)>> \in Broken /\ ~ContinueOnError
    THEN Idle
    ELSE [loop EXCEPT !.todo = Tail(@)]

\* main's switchboard puts a frame in the tunnel; each frame once.
PutMessage(r, f) ==
    /\ put[r].todo = <<>>
    /\ origin[f] = Nobody
    /\ origin' = [origin EXCEPT ![f] = r]
    /\ put' = [put EXCEPT ![r] = [frame |-> f, from |-> Nobody,
                                  todo |-> Peers[r]]]
    /\ UNCHANGED <<inbox, bucket, forgets, rx, taken, lost>>

\* The next peer of put_message_low(); it looks at no filter.
PutPeer(r) ==
    /\ put[r].todo # <<>>
    /\ Transmit(r, Head(put[r].todo), put[r].frame)
    /\ put' = [put EXCEPT ![r] = AfterSend(r, @)]
    /\ UNCHANGED <<bucket, forgets, rx, origin, taken>>

\* execute_filter() on a message whose meta data was set or not: a field that
\* is missing counts as a match (ignore_if_field_is_missing).
FilterStops(r, p, f, has_meta) == has_meta /\ <<r, p, f>> \in Rejects

\* The peers send_to_other_axudp_targets() sends datagram d to.  It is given
\* m_full, a message made for the purpose, which was never dissected.
Others(r, d) ==
    SelectSeq(Peers[r], LAMBDA p : /\ PeerName(p) # CameFrom(d)
                                   /\ ~FilterStops(r, p, d.frame, FALSE))

(* Deliberately wrong variants. *)
Distribution_Always(r, d) ==
    [frame |-> d.frame, from |-> d.from, todo |-> Others(r, d)]

\* queue_incoming_message() does not answer TE_ratelimiting; without a filter
\* it never does.
Accepts(r, f) == r \in Filtered => bucket[r][f] >= Per

\* What the receiving thread does with d after having offered it to main.
Distribution(r, d) ==
    IF Accepts(r, d.frame)
    THEN [frame |-> d.frame, from |-> d.from, todo |-> Others(r, d)]
    ELSE Idle

\* recvfrom() returns d.
Receive(r) ==
    /\ rx[r].todo = <<>>
    /\ \E d \in BagToSet(inbox[r]) :
          /\ inbox' = [inbox EXCEPT ![r] = @ (-) SetToBag({d})]
          /\ rx' = [rx EXCEPT ![r] = Distribution(r, d)]
          /\ IF Accepts(r, d.frame)
             THEN /\ bucket' = [bucket EXCEPT ![r][d.frame] =
                                   IF r \in Filtered THEN @ - Per ELSE @]
                  /\ taken' = taken \cup {<<r, d.frame>>}
             ELSE UNCHANGED <<bucket, taken>>
    /\ UNCHANGED <<forgets, put, origin, lost>>

\* The next peer of send_to_other_axudp_targets().
DistributePeer(r) ==
    /\ rx[r].todo # <<>>
    /\ Transmit(r, Head(rx[r].todo), rx[r].frame)
    /\ rx' = [rx EXCEPT ![r] = AfterSend(r, @)]
    /\ UNCHANGED <<bucket, forgets, put, origin, taken>>

\* Time passes: the limiters refill and the datagrams get nearer.
Tick ==
    /\ \A r \in Routers : /\ put[r].todo = <<>> /\ rx[r].todo = <<>>
                          /\ \A d \in BagToSet(inbox[r]) : d.age < MaxDelay
    /\ bucket' = [r \in Routers |-> [f \in Frames |-> Throttle(bucket[r][f] + Rate)]]
    /\ inbox' = [r \in Routers |-> BagOfAll(LAMBDA d : [d EXCEPT !.age = @ + 1],
                                           inbox[r])]
    /\ UNCHANGED <<forgets, put, rx, origin, taken, lost>>

\* The cleaner of the filter drops a frame; seen again it gets a new limiter.
Forget(r, f) ==
    /\ r \in Filtered /\ forgets < MaxForgets
    /\ forgets' = forgets + 1
    /\ bucket' = [bucket EXCEPT ![r][f] = Capacity]
    /\ UNCHANGED <<inbox, put, rx, origin, taken, lost>>

Next == \/ \E r \in Routers :
              \/ \E f \in Frames : PutMessage(r, f) \/ Forget(r, f)
              \/ PutPeer(r) \/ Receive(r) \/ DistributePeer(r)
        \/ Tick

\* Both threads run on: a UDP send does not block and poll() times out.
Fairness == \A r \in Routers :
               WF_vars(PutPeer(r)) /\ WF_vars(Receive(r) \/ DistributePeer(r))

Spec == Init /\ [][Next]_vars /\ Fairness

-----------------------------------------------------------------------------
Loops(r) == [frame : Frames \cup {NoFrame}, from : Routers \cup {Nobody},
             todo : {SubSeq(Peers[r], i, Len(Peers[r])) :
                         i \in 1..(Len(Peers[r]) + 1)}]

TypeOK ==
    /\ \A r \in Routers :
          /\ IsABag(inbox[r]) /\ BagCardinality(inbox[r]) <= MaxInbox
          /\ BagToSet(inbox[r]) \subseteq
                [from : Routers, port : SourcePorts, frame : Frames,
                 age : 0..MaxDelay]
          /\ put[r] \in Loops(r)
          /\ rx[r].todo \in Seq(ToSet(Peers[r]))
    /\ bucket \in [Routers -> [Frames -> 0..Capacity]]
    /\ forgets \in 0..MaxForgets
    /\ origin \in [Frames -> Routers \cup {Nobody}]
    /\ taken \subseteq Routers \X Frames
    /\ lost \in BOOLEAN

Quiet == \A r \in Routers : Empty(r) /\ put[r].todo = <<>> /\ rx[r].todo = <<>>

(***************************************************************************)
(* The tunnels carry no storm: although every router passes on to its      *)
(* peers what it receives, in a circle and (see NoEcho) back again, and    *)
(* one of them has no filter at all, it ends.  That takes a round to be    *)
(* faster than a refill: by the time a filter lets the frame pass again    *)
(* all copies of it are gone.  A slower round, or two routers that reach   *)
(* each other and have no filter, keep a frame going for ever.             *)
(* (tranceiver-axudp.cpp:160-171, rate-limiter.cpp:26-36,                  *)
(* tranceiver.cpp:63)                                                      *)
(***************************************************************************)
Quiesces == <>[]Quiet

(***************************************************************************)
(* Everyone gets it: a frame put in the tunnel is accepted by every other  *)
(* router, over a detour where a transmission fails, as long as the        *)
(* routers continue on errors, no datagram is lost and the filters leave a *)
(* way. (tranceiver-axudp.cpp:41-51, 88-109)                               *)
(***************************************************************************)
EveryoneGetsIt ==
    \A f \in Frames, r \in Routers :
        origin[f] # Nobody ~> (r = origin[f] \/ <<r, f>> \in taken \/ lost)

(***************************************************************************)
(* A frame is not passed on to the router it came from.  ham-router.cfg:   *)
(* 169 says of distribute "send to other destinations for this tunnel as   *)
(* well" and tranceiver-axudp.cpp:90 logs "not (re-)sending to".  But the  *)
(* sender's socket is not bound to its listening port, and the port is     *)
(* printed with its bytes swapped, so the comparison never finds the peer. *)
(* (tranceiver-axudp.cpp:86-93, 146; net.cpp:115-126)                      *)
(***************************************************************************)
NoEcho == \A r \in Routers : rx[r].from \notin ToSet(rx[r].todo)

(***************************************************************************)
(* A frame is not passed on to a peer whose filter rejects it: peers have  *)
(* a `filter' (ham-router.cfg:165) and tranceiver-axudp.cpp:107 logs "not  *)
(* sending to %s due to filter".  But m_full has no meta data, and a field *)
(* that is missing counts as a match.                                      *)
(* (tranceiver-axudp.cpp:95-108, 164-170; filter.cpp:100-105)              *)
(***************************************************************************)
FiltersCount ==
    \A r \in Routers : \A p \in ToSet(rx[r].todo) :
        <<r, p, rx[r].frame>> \notin Rejects
=============================================================================

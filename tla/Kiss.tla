-------------------------------- MODULE Kiss --------------------------------
(***************************************************************************)
(* tranceiver-kiss.cpp: frames over a serial line.  One end calls          *)
(* send_mkiss(), the other runs the thread that polls the line and calls   *)
(* recv_mkiss(), which takes the frame apart byte by byte.                 *)
(*                                                                         *)
(* Of the bytes only those that mean something to the framing are told     *)
(* apart; NUL stands for all others, for the command byte of a data frame  *)
(* and for what read() leaves in the buffer when the line is at its end.   *)
(***************************************************************************)
EXTENDS Integers, Sequences, SequencesExt

CONSTANTS
    Payloads,       \* the frames to choose from
    MaxPacketSize,  \* MAX_PACKET_SIZE; counts the command byte too
    MaxSends,       \* bound on the frames sent
    MaxFailures     \* bound on the writes that fail half-way

Bytes == {"FEND", "FESC", "TFEND", "TFESC", "NUL"}

ASSUME KissAssumption ==
    /\ Payloads \subseteq Seq(Bytes)
    /\ MaxPacketSize \in Nat \ {0}
    /\ MaxSends \in Nat /\ MaxFailures \in Nat

VARIABLES
    trouble,    \* what may befall the line: it is closed, or frames are damaged
    line,       \* bytes written and not yet read
    hung_up,
    failures,
    cut,        \* observer: the latest write failed right behind a FESC
    sent,       \* observer: [payload, cut], cut as it was at the time
    reader,     \* the thread: "polling", in recv_mkiss() "looking" (whether it
                \* is to stop) and "reading" (in read()), "done"
    packet,     \* p[0..len-1]
    escape,
    received,   \* what was handed to queue_incoming_message()
    terminate

vars == <<trouble, line, hung_up, failures, cut, sent, reader, packet, escape,
          received, terminate>>

-----------------------------------------------------------------------------
(* Deliberately wrong variants, used to show that the properties bite. *)
Escaped_OnlyFend(c) == IF c = "FEND" THEN <<"FESC", "TFEND">> ELSE <<c>>

\* escape_put()
Escaped(c) == CASE c = "FEND" -> <<"FESC", "TFEND">>
                [] c = "FESC" -> <<"FESC", "TFESC">>
                [] OTHER      -> <<c>>

Encoded_NoLead(p) ==
    FlattenSeq([i \in 1..(Len(p) + 1) |->
                   Escaped(IF i = 1 THEN "NUL" ELSE p[i - 1])]) \o <<"FEND">>

\* What send_mkiss(0, 0, p) writes.
Encoded(p) ==
    <<"FEND">>
        \o FlattenSeq([i \in 1..(Len(p) + 1) |->
                          Escaped(IF i = 1 THEN "NUL" ELSE p[i - 1])])
        \o <<"FEND">>

\* A byte that follows a FESC; an unexpected one is left out.
Unescaped(c) == CASE c = "TFEND" -> <<"FEND">>
                  [] c = "TFESC" -> <<"FESC">>
                  [] OTHER       -> <<>>

Full == Len(packet) = MaxPacketSize

-----------------------------------------------------------------------------
Init ==
    /\ trouble \in {"closing", "damage"}
    /\ line = <<>> /\ hung_up = FALSE
    /\ failures = 0 /\ cut = FALSE /\ sent = <<>>
    /\ reader = "polling" /\ packet = <<>> /\ escape = FALSE
    /\ received = <<>>
    /\ terminate = FALSE

\* put_message_low(): its lock keeps the bytes of a frame together.
Send ==
    /\ Len(sent) < MaxSends /\ ~hung_up
    /\ \E p \in Payloads :
          /\ trouble = "damage" \/ Len(p) < MaxPacketSize
          /\ line' = line \o Encoded(p)
          /\ sent' = Append(sent, [payload |-> p, cut |-> cut])
    /\ cut' = FALSE
    /\ UNCHANGED <<trouble, hung_up, failures, reader, packet, escape,
                   received, terminate>>

\* put_message_low(): write() fails half-way, TE_hardware.
SendFails ==
    /\ trouble = "damage"
    /\ failures < MaxFailures
    /\ \E p \in Payloads : \E n \in 1..(Len(Encoded(p)) - 1) :
          /\ line' = line \o SubSeq(Encoded(p), 1, n)
          /\ cut' = (Encoded(p)[n] = "FESC")
    /\ failures' = failures + 1
    /\ UNCHANGED <<trouble, hung_up, sent, reader, packet, escape, received,
                   terminate>>

\* The line is closed; what was in it is lost.
HangUp ==
    /\ trouble = "closing"
    /\ ~hung_up
    /\ hung_up' = TRUE
    /\ line' = <<>>
    /\ UNCHANGED <<trouble, failures, cut, sent, reader, packet, escape,
                   received, terminate>>

-----------------------------------------------------------------------------
Stays == UNCHANGED <<trouble, hung_up, failures, cut, sent, terminate>>

\* Back to the loop of operator(), which frees the packet.
Leave == reader' = "polling" /\ packet' = <<>> /\ escape' = FALSE

Poll_IgnoresStop ==
    /\ reader = "polling"
    /\ line # <<>> \/ hung_up
    /\ reader' = "looking"
    /\ UNCHANGED <<line, packet, escape, received>>
    /\ Stays

\* while(!terminate), poll(), and into recv_mkiss().
Poll ==
    /\ reader = "polling"
    /\ IF terminate
       THEN reader' = "done"
       ELSE (line # <<>> \/ hung_up) /\ reader' = "looking"
    /\ UNCHANGED <<line, packet, escape, received>>
    /\ Stays

\* poll() answers -1, be it for a signal only: the thread ends.
PollFails ==
    /\ reader = "polling"
    /\ reader' = "done"
    /\ UNCHANGED <<line, packet, escape, received>>
    /\ Stays

\* for(;!terminate;): on to read(), or out without a frame.
Look ==
    /\ reader = "looking"
    /\ IF terminate THEN Leave
       ELSE reader' = "reading" /\ UNCHANGED <<packet, escape>>
    /\ UNCHANGED <<line, received>>
    /\ Stays

\* read() answers -1: the device failed.
ReadFails ==
    /\ reader = "reading"
    /\ hung_up
    /\ Leave
    /\ UNCHANGED <<line, received>>
    /\ Stays

\* read() gives a byte, or, at the end of the line, 0 and leaves NUL.  Until
\* then it blocks, whatever becomes of terminate.
Byte(c) ==
    /\ reader = "reading"
    /\ \/ line # <<>> /\ c = Head(line) /\ line' = Tail(line)
       \/ line = <<>> /\ hung_up /\ c = "NUL" /\ UNCHANGED line
    /\ Stays

\* There is no room for c: no frame; the bytes after it are read as a new one.
Overflow ==
    /\ \E c \in Bytes : Byte(c) /\ Full /\ (escape \/ c \notin {"FEND", "FESC"})
    /\ Leave
    /\ UNCHANGED received

TakeEscaped ==
    /\ escape /\ ~Full
    /\ \E c \in Bytes : Byte(c) /\ packet' = packet \o Unescaped(c)
    /\ escape' = FALSE /\ reader' = "looking"
    /\ UNCHANGED received

TakeFesc ==
    /\ ~escape /\ Byte("FESC")
    /\ escape' = TRUE /\ reader' = "looking"
    /\ UNCHANGED <<packet, received>>

TakeByte ==
    /\ ~escape /\ ~Full
    /\ \E c \in Bytes \ {"FEND", "FESC"} : Byte(c) /\ packet' = Append(packet, c)
    /\ reader' = "looking"
    /\ UNCHANGED <<escape, received>>

\* "first FEND, ignore"
FirstFend ==
    /\ ~escape /\ packet = <<>>
    /\ Byte("FEND")
    /\ reader' = "looking"
    /\ UNCHANGED <<packet, escape, received>>

\* The frame is complete: without its command byte it is queued, though the
\* thread may have been told to stop by then.
LastFend ==
    /\ ~escape /\ packet # <<>>
    /\ Byte("FEND")
    /\ received' = Append(received, Tail(packet))
    /\ Leave

\* tranceiver::stop()
Stop ==
    /\ ~terminate
    /\ terminate' = TRUE
    /\ UNCHANGED <<trouble, line, hung_up, failures, cut, sent, reader, packet,
                   escape, received>>

Reader == \/ Poll \/ Look \/ ReadFails \/ Overflow
          \/ TakeEscaped \/ TakeFesc \/ TakeByte \/ FirstFend \/ LastFend

Next == Send \/ SendFails \/ HangUp \/ Reader \/ PollFails \/ Stop

\* The thread runs on: poll() times out and there are bytes to read.
Spec == Init /\ [][Next]_vars /\ WF_vars(Reader)

-----------------------------------------------------------------------------
TypeOK ==
    /\ trouble \in {"closing", "damage"}
    /\ line \in Seq(Bytes) /\ packet \in Seq(Bytes)
    /\ Len(packet) <= MaxPacketSize
    /\ hung_up \in BOOLEAN /\ escape \in BOOLEAN /\ terminate \in BOOLEAN
    /\ cut \in BOOLEAN
    /\ sent \in Seq([payload : Payloads, cut : BOOLEAN])
    /\ failures \in 0..MaxFailures
    /\ reader \in {"polling", "looking", "reading", "done"}
    /\ reader \notin {"looking", "reading"} => packet = <<>> /\ ~escape
    /\ received \in Seq(Seq(Bytes))

\* What a channel is asked to carry: nothing, where frames are damaged.
Carried(s) == IF trouble = "damage" THEN <<>> ELSE s
SentPayloads == [i \in DOMAIN sent |-> sent[i].payload]

(***************************************************************************)
(* Frames of the right size come out as they went in, in order and once,   *)
(* whatever bytes are in them; a line that is closed in mid-frame does not *)
(* make up another. (tranceiver-kiss.cpp:27-164, 189-223)                  *)
(***************************************************************************)
TheChannel == INSTANCE KissChannel WITH
    sent <- Carried(SentPayloads), received <- Carried(received),
    up <- ~hung_up /\ reader # "done"

ImplementsChannel == TheChannel!Spec

(***************************************************************************)
(* Once told to stop the thread ends, and with it stop(), which waits for  *)
(* it.  The one exception is a thread that read a part of a frame, or a    *)
(* single FEND, of which the rest never comes: it sits in read(), where    *)
(* nothing wakes it.  That takes a write that failed half-way or a frame   *)
(* that was too long. (tranceiver-kiss.cpp:35-48, 197-204)                 *)
(***************************************************************************)
Stuck == trouble = "damage" /\ reader = "reading" /\ line = <<>>

StopWaitsOnlyForAFrame == <>terminate => <>(reader = "done") \/ <>[]Stuck

(***************************************************************************)
(* A frame that is too long or was cut short harms no other: all others    *)
(* come out, in order, if need be between the pieces of it.  The one       *)
(* exception is the frame after a write that failed between a FESC and its *)
(* second byte, whose first FEND is taken for that byte.                   *)
(* (tranceiver-kiss.cpp:50-62, 76-78, 153-159)                             *)
(***************************************************************************)
Fits(s) == Len(s.payload) < MaxPacketSize /\ ~s.cut

\* Every frame of s that fits has a place of its own in r, in order.
AllFitting(s, r) ==
    \E at \in [{i \in DOMAIN s : Fits(s[i])} -> DOMAIN r] :
        /\ \A i \in DOMAIN at : r[at[i]] = s[i].payload
        /\ \A i, j \in DOMAIN at : i < j => at[i] < at[j]

DamageIsLocal ==
    line = <<>> /\ ~hung_up /\ ~terminate => AllFitting(sent, received)
=============================================================================

------------------------------- MODULE Packets -------------------------------
(***************************************************************************)
(* What decides where a message goes: its frame is dissected when it comes *)
(* in (tranceiver.cpp:88-107) and the filters of the bridge mappings look  *)
(* at the meta data that gives (switchboard.cpp:65).  The messages of the  *)
(* switchboard are frames here, its filters are patterns.                  *)
(***************************************************************************)
EXTENDS SwitchboardCalls, Filter, Dissect

CONSTANTS
    FrameOf,        \* Messages -> bytes
    Pattern,        \* Filters -> chain
    NoBeacons,      \* the filter of ham-router.cfg:29-35
    Terms,          \* conditions to make patterns of
    Callsigns, Texts,   \* of up to six characters; of any length
    Degrees         \* a position with its symbol

\* copy.set_meta(): all but the distance, which is floating point.  The frames
\* in FrameOf are complete.
Meta(m) == CHOOSE meta \in Dissections(FrameOf[m]) : TRUE

FieldOf(m, field) == IF field \in DOMAIN Meta(m) THEN Meta(m)[field] ELSE NoField

\* ignore-if-field-is-missing is set, as it is when nothing is configured.
Passing(f) == {m \in Messages : Execute(Words(Pattern[f]), TRUE, Meta(m)) = "yes"}

ASSUME PacketsAssumption ==
    /\ \A m \in Messages :
          /\ Cardinality(Dissections(FrameOf[m])) = 1
          /\ FromCall[m] = FieldOf(m, "from") /\ ToCall[m] = FieldOf(m, "to")
    /\ \A f \in Filters : Passes[f] = Passing(f)

-----------------------------------------------------------------------------
IDENT == <<73, 68, 69, 78, 84>>
DashL == <<45, 76>>
Path == <<65, 80, 76, 71, 48, 49, 44, 84, 67, 80, 73, 80, 42>>  \* APLG01,TCPIP*

\* The two modes of the beacon; its position is the router's own.
BeaconFrame(callsign, text) ==
    GeneratePacket(MadeAddress(IDENT, FALSE, FALSE),
                   MadeAddress(callsign, TRUE, FALSE), 3, 240, text)

AprsBeaconFrame(callsign, position, text) ==
    <<60, 255, 1>> \o callsign \o DashL \o <<62>> \o Path \o <<58, 61>>
    \o position \o text

IsBeacon(m) == \E callsign \in Callsigns, text \in Texts :
                  FrameOf[m] = BeaconFrame(callsign, text)

(***************************************************************************)
(* The filter that comes with ham-router.cfg, "ignore-ax25-beacons", does  *)
(* that and no more: over a mapping that has it every message goes but the *)
(* beacons of a router, whichever protocol they are in and whether or not  *)
(* they have a destination.                                                *)
(* (tranceiver-beacon.cpp:85-110, ax25.cpp:85-103, filter.cpp, ham-router.cfg:29-35) *)
(***************************************************************************)
BeaconsAreIgnored ==
    phase = "returned" /\ continue_on_error =>
        \A c \in called :
            /\ c[1] = Source[message] /\ c[1] # c[2] /\ c[3] = NoBeacons
            /\ OneFilter(c[1]) /\ c[2] \notin AskedByRoute(message)
            => (c[2] \in Offered <=> ~IsBeacon(message))

-----------------------------------------------------------------------------
\* Patterns of up to three operands, of up to two where there are parentheses.
Chains(operands, n) ==
    {Chain(s, o) : s \in [1..n -> operands], o \in [1..(n - 1) -> {"&&", "||"}]}

Expressions == LET flat == Chains(Terms, 1) \cup Chains(Terms, 2)
               IN  flat \cup Chains(Terms, 3) \cup Chains(Terms \cup flat, 2)

\* Properties of the operators alone are looked at once for each message.
Fresh == phase = "configuring" /\ called = {} /\ routed = {}

(***************************************************************************)
(* A pattern is read from left to right, without precedence, and every     *)
(* condition of it is looked at: where a missing field is not to be        *)
(* ignored it ends the program even if the outcome was settled before.     *)
(* Where every "&&" stands before the "||" of its level, that is what the  *)
(* usual precedence would give.  Parentheses that are not closed and an    *)
(* operation that is not known, if something follows it, end the program.  *)
(* (filter.cpp:33-128)                                                     *)
(***************************************************************************)
FilterReadsLeftToRight ==
    Fresh =>
        \A meta \in {Meta(message)}, e \in Expressions, ignore \in BOOLEAN :
            LET Result(words) == Execute(words, ignore, meta)
                unknown == <<Operation("&")>>
            IN  /\ Result(Words(e)) =
                      IF ~ignore /\ ~(FieldsOf(e) \subseteq DOMAIN meta)
                      THEN "exit" ELSE AsResult(Holds(e, meta))
                /\ Grouped(e) => (Holds(e, meta) <=> Usual(e, meta))
                /\ Result(<<Open>> \o Words(e)) = "exit"
                /\ Result(Words(e) \o unknown \o Words(e)) = "exit"
                /\ Result(Words(e) \o unknown) = Result(Words(e))

-----------------------------------------------------------------------------
\* An AX.25 address: shifted, filled up, the last one marked.
Encoded(callsign, last) ==
    [i \in 1..6 |-> 2 * (IF i <= Len(callsign) THEN callsign[i] ELSE 32)]
    \o <<96 + Bit(last)>>

UFrame(to, from, via, pid, text) ==
    Encoded(to, FALSE) \o Encoded(from, via = <<>>)
    \o FlattenSeq([i \in DOMAIN via |-> Encoded(via[i], i = Len(via))])
    \o <<3, pid>> \o text

Paths == {<<>>} \cup Callsigns \X Callsigns \cup {<<c>> : c \in Callsigns}

(***************************************************************************)
(* Whoever sent it and by way of at most two repeaters: from a complete    *)
(* unnumbered frame come its callsigns, what its pid says and its text,    *)
(* and nothing of what happens to lie behind it.  A text of a single byte  *)
(* is lost.  From the router's own APRS beacon come its addresses and what *)
(* it is, but not where: a position that begins with "=" is not understood.*)
(* An AX.25 frame whose first repeater begins with an odd character is not *)
(* taken for one at all: the "non existing control-byte field"             *)
(* (dissect-packet.cpp:20) is looked for where the repeater is.            *)
(* (ax25.cpp:11-39, 118-173, dissect-packet.cpp:8-121, gps.cpp:66-91)      *)
(***************************************************************************)
DissectionFinds ==
    Fresh =>
        /\ \A callsign \in Callsigns, text \in Texts :
              Dissections(AprsBeaconFrame(callsign, Degrees, text)) =
                {("protocol" :> APRS_OE) @@ ("from" :> callsign \o DashL)
                 @@ ("to" :> SubSeq(Path, 1, 6))
                 @@ ("station-type" :> <<Degrees[9], Degrees[19]>>)
                 @@ (IF Contains(text, 91)
                     THEN "payload" :> SubSeq(text, Min(Places(text, 91, 1)) + 1, Len(text))
                     ELSE NoMeta)}
        /\ \A to, from \in Callsigns, via \in Paths, pid \in {5, 240}, text \in Texts :
               Dissections(UFrame(to, from, via, pid, text)) =
                   IF via # <<>> /\ via[1][1] % 2 = 1 THEN {NoMeta}
                   ELSE {("protocol" :> AX_25) @@ ("from" :> from) @@ ("to" :> to)
                         @@ ("payload" :> IF Len(text) = 1 THEN <<>> ELSE Printed(text))
                         @@ (IF pid = 240 THEN "payload-protocol" :> <<240>> ELSE NoMeta)}
=============================================================================

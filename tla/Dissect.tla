------------------------------- MODULE Dissect -------------------------------
(***************************************************************************)
(* dissect-packet.cpp: the meta data of a frame, as a function from field  *)
(* names to text.  Where a text is looked up in a table, its key stands    *)
(* for it; a number has no text.                                           *)
(***************************************************************************)
EXTENDS Ax25, TLC

CONSTANT Behind     \* what may lie behind the end of a frame that is cut short

NoMeta == <<>>
NoText == <<>>      \* s_value of a number
APRS_OE == <<65, 80, 82, 83, 45, 79, 69>>
AX_25 == <<65, 88, 46, 50, 53>>

\* The payload protocols that have a name.
NamedPids == {1, 6, 7, 8, 195, 196, 202, 203, 204, 205, 206, 207, 240}

\* (symbol table, symbol) of the station types that have a name.
Symbols == ({47} \X {35, 37, 38, 40, 73, 77, 79, 83, 90, 96, 110, 120})
           \cup {<<92, 75>>, <<65, 97>>, <<68, 97>>, <<87, 97>>, <<89, 97>>}

\* The places where find(c, from) could stop; it takes the first.
Places(s, c, from) == {i \in from..Len(s) : s[i] = c}

-----------------------------------------------------------------------------
(* parse_aprs() *)

\* dump_replace()
Printed(data) == [i \in DOMAIN data |-> IF data[i] \in 33..126 THEN data[i] ELSE 46]

HasAprsHeader(data) ==
    Len(data) >= 6 /\ SubSeq(data, 1, 3) = <<60, 255, 1>>

\* FROM>TO,path:  needs a colon behind the first '>'.
Addresses(data) ==
    LET gt    == Places(data, 62, 1)
        colon == IF gt = {} THEN {} ELSE Places(data, 58, Min(gt))
        full  == SubSeq(data, Min(gt) + 1, Min(colon) - 1)
        comma == Places(full, 44, 1)
    IN  IF colon = {} THEN NoMeta
        ELSE ("from" :> SubSeq(data, 4, Min(gt) - 1)) @@
             ("to" :> IF comma = {} THEN full ELSE SubSeq(full, 1, Min(comma) - 1))

\* nmea_to_degrees(): the first point comes two to five characters on.
HasDegrees(nmea, start) ==
    LET dot == Places(nmea, 46, start)
    IN  dot # {} /\ Min(dot) - start \in 2..5

\* parse_nmea_pos() and the station type, of what follows the first colon.
\* Only a '!' is followed by a position that is understood.
Position(nmea) ==
    (IF Len(nmea) >= 19 /\ nmea[1] = 33 /\ HasDegrees(nmea, 2) /\ HasDegrees(nmea, 11)
     THEN [field \in {"latitude", "longitude"} |-> NoText] ELSE NoMeta)
    @@ (IF \/ Len(nmea) >= 20 /\ <<nmea[10], nmea[20]>> \in Symbols
           \/ Len(nmea) >= 21 /\ <<nmea[10], nmea[20], nmea[21]>> = <<76, 38, 76>>
        THEN "station-type" :> <<nmea[10], nmea[20]>> ELSE NoMeta)

\* The fields that follow from the text behind the first colon, if any.
Report(data) ==
    LET nmea == SubSeq(data, Min(Places(data, 58, 1)) + 1, Len(data))
        command == IF nmea = <<>> THEN 0 ELSE nmea[1]
    IN  CASE command \in {33, 61} /\ Len(nmea) >= 18 -> Position(nmea)
          [] command = 36 -> ("payload" :> Tail(nmea)) @@ ("payload-protocol" :> <<240>>)
          [] OTHER -> NoMeta

\* What follows the first '[', unless there is a payload already.
Bracket(data) ==
    LET bracket == Places(data, 91, 1)
    IN  IF bracket = {} THEN NoMeta
        ELSE "payload" :> SubSeq(data, Min(bracket) + 1, Len(data))

IsAprs(data) == HasAprsHeader(data) /\ Places(data, 58, 1) # {}

Aprs(data) == Addresses(data) @@ Report(data) @@ Bracket(data)
              @@ ("protocol" :> APRS_OE)

-----------------------------------------------------------------------------
(* parse_ax25() *)

\* No bit 0 in the first callsign, which is that of the destination.
MaybeAx25(data) ==
    /\ Len(data) >= 16
    /\ \A i \in 1..6 : data[i] % 2 = 0
    /\ data[15] % 4 # 2

Ax25Meta(packet) ==
    ("protocol" :> AX_25) @@ ("from" :> packet.from) @@ ("to" :> packet.to)
    @@ ("payload" :> Printed(packet.data))
    @@ (IF packet.pid \in NamedPids THEN "payload-protocol" :> <<packet.pid>>
                                    ELSE NoMeta)

\* dissect_packet(), with every outcome it can have.
Dissections(data) ==
    CASE IsAprs(data) -> {Aprs(data)}
      [] ~IsAprs(data) /\ MaybeAx25(data) ->
            {Ax25Meta(packet) : packet \in {Packet(data, b) : b \in Behind}}
      [] OTHER -> {NoMeta}
=============================================================================

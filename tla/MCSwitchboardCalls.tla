------------------------- MODULE MCSwitchboardCalls -------------------------
(* A small installation: three tranceivers, two filters, two routes, and a  *)
(* message of each kind: both beacons, AX.25 by way of a repeater, APRS     *)
(* with an address and a position, APRS without, and no known protocol.     *)
EXTENDS Packets

CONSTANTS ax0, lora, udp, beacon, aprsbeacon, traffic, report, bare, junk, valid, nobeacons

MCTranceivers == {ax0, lora, udp}
MCMessages == {beacon, aprsbeacon, traffic, report, bare, junk}
MCSource == [m \in MCMessages |-> IF m \in {report, bare} THEN lora ELSE ax0]

NL == <<80, 65, 51>>
BE == <<79, 78, 52, 65, 66, 67>>
MCCallsigns == {NL, BE, <<70>>}
MCTexts == {<<>>, <<72>>, <<72, 32>>, <<58, 91, 61>>}
MCBehind == {[i \in 1..15 |-> b] : b \in {0, 131, 255}}

\* 1111.11N/22222.22E# and the like
MCDegrees == <<49, 49, 49, 49, 46, 49, 49, 78, 47, 50, 50, 50, 50, 50, 46, 50, 50, 69, 35>>

MCFrameOf ==
    (beacon :> BeaconFrame(NL, <<72, 32>>)) @@
    (aprsbeacon :> AprsBeaconFrame(NL, MCDegrees, <<72>>)) @@
    (traffic :> UFrame(BE, NL, <<NL>>, 240, <<72, 32>>)) @@
    (report :> <<60, 255, 1>> \o BE \o <<62>> \o NL \o <<44, 65, 58, 33>> \o MCDegrees \o <<91, 72>>) @@
    (bare :> <<60, 255, 1, 65, 58, 36, 72>>) @@
    (junk :> <<1, 2, 3>>)

MCFilters == {valid, nobeacons}
MCPattern ==
    (valid :> Chain(<<Term("from", TRUE, NL)>>, <<>>)) @@
    (nobeacons :> Chain(<<Term("to", FALSE, IDENT), Term("protocol", FALSE, AX_25)>>, <<"||">>))
MCTerms == {Term("from", TRUE, NL), Term("to", FALSE, IDENT), Term("protocol", TRUE, AX_25)}

MCFromCall == [m \in MCMessages |-> FieldOf(m, "from")]
MCToCall == [m \in MCMessages |-> FieldOf(m, "to")]
MCPasses == [f \in MCFilters |-> Passing(f)]

MCBridgeCalls ==
    {<<ax0, lora, valid>>, <<ax0, udp, NoFilter>>, <<ax0, udp, nobeacons>>,
     <<ax0, ax0, NoFilter>>, <<lora, ax0, nobeacons>>}

MCRoutingCalls ==
    {RoutingMapping({NL}, {BE, IDENT}, NoTranceiver, <<udp, lora>>),
     RoutingMapping({NL, BE}, {NL}, lora, <<lora>>)}
=============================================================================

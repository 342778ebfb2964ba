------------------------------ MODULE MCRouter ------------------------------
(* lora receives on two threads (one per packet), udp on one. *)
EXTENDS Router

CONSTANTS lora, udp, db, rx1, rx2, udp1, m1, m2, m3, m4, valid, NL, BE

MCTranceivers == {lora, udp, db}
MCThreads == {rx1, rx2, udp1}
MCOwner == (rx1 :> lora) @@ (rx2 :> lora) @@ (udp1 :> udp)
MCMessages == {m1, m2, m3, m4}
MCSource == (m1 :> lora) @@ (m2 :> lora) @@ (m3 :> udp) @@ (m4 :> udp)
MCFromCall == (m1 :> NL) @@ (m2 :> BE) @@ (m3 :> NoField) @@ (m4 :> BE)
MCToCall == (m1 :> BE) @@ (m2 :> BE) @@ (m3 :> NL) @@ (m4 :> NL)
MCFilters == {valid}
MCPasses == (valid :> {m1, m3})

\* lora to udp and db when valid, udp to lora; NL's messages also via lora
\* itself (a digipeater).  m2 goes nowhere.
MCBridges ==
    AddBridge(AddBridge(AddBridge(NoBridges, lora, udp, valid),
                        lora, db, valid),
              udp, lora, NoFilter)
MCRoutes == AddRouting(<<>>, RoutingMapping({NL}, {BE}, lora, <<lora>>))
=============================================================================

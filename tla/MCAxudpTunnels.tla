--------------------------- MODULE MCAxudpTunnels ---------------------------
(* Three routers, each with the two others as its peers. *)
EXTENDS AxudpTunnels, TLC

CONSTANTS a, b, c, f1

MCRouters == {a, b, c}
MCPeers == (a :> <<b, c>>) @@ (b :> <<c, a>>) @@ (c :> <<a, b>>)
MCFrames == {f1}

\* c has a filter for a that rejects f1; a cannot reach b.
MCRejects == {<<c, a, f1>>}
MCBroken == {<<a, b>>}
MCNone == {}

\* a has no repetition filter.
MCFiltered == {b, c}

\* The configured port, and a port of the kernel's ephemeral range.
MCListenPort == 10093
MCSourcePorts == {40000}
=============================================================================

----------------------------- MODULE MCLifecycle -----------------------------
EXTENDS Lifecycle

CONSTANTS beacon, udp, mqtt, kiss, lora, db, ws,
          unknown       \* an id that no tranceiver has

MCKind == [t \in {beacon, udp, mqtt, kiss, lora, db, ws} |->
              CASE t = beacon -> "beacon" [] t = udp -> "udp" [] t = mqtt -> "mqtt"
                [] t = kiss -> "kiss" [] t = lora -> "lora"
                [] t = db -> "db" [] t = ws -> "ws"]

MCReaders == {beacon, udp, mqtt, kiss, lora}

\* The filter "aprs" is defined; the mappings use it and name all tranceivers.
File(sections, tranceivers) ==
    [sections |-> sections, tranceivers |-> tranceivers, follows |-> TRUE,
     defined |-> {"aprs"}, filters |-> {"aprs"}, peers |-> {"aprs"},
     mapped |-> ToSet(tranceivers)]

Usual == <<"general", "filters", "tranceivers", "mappings">>

\* The usual order with every kind of tranceiver; names that are not defined;
\* the other orders; no gpsd; no general section at all.
MCFiles ==
    {File(Usual, t) : t \in {<<mqtt, beacon>>, <<db, udp, ws>>, <<kiss, lora>>,
                             <<ws, db>>}}
    \cup
    {[File(Usual, <<udp>>) EXCEPT !.filters = {"valid-nl-callsign"}],
     [File(Usual, <<udp>>) EXCEPT !.peers = {"valid-nl-callsign"}],
     [File(Usual, <<beacon>>) EXCEPT !.mapped = {beacon, unknown}],
     [File(Usual, <<beacon>>) EXCEPT !.follows = FALSE]}
    \cup
    {File(s, t) : s \in {<<"filters", "tranceivers", "general", "mappings">>,
                         <<"general", "filters", "mappings", "tranceivers">>,
                         <<"general", "filters", "tranceivers">>},
                  t \in {<<beacon>>, <<mqtt, ws>>}}
    \cup
    {File(<<"general", "tranceivers", "filters", "mappings">>, <<udp>>),
     File(<<"filters", "tranceivers", "mappings">>, <<db, mqtt, ws>>)}
=============================================================================

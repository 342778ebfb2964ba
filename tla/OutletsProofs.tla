---------------------------- MODULE OutletsProofs ----------------------------
(***************************************************************************)
(* For every number of messages, sessions, visitors and faults: what main  *)
(* was told is borne out at the other end, APRS-IS gets the messages in    *)
(* their order, and the pages do not contradict the database.              *)
(***************************************************************************)
EXTENDS Outlets, FiniteSetTheorems, SequenceTheorems, TLAPS

-----------------------------------------------------------------------------
(* The uplink.                                                             *)

Text == Messages \cup {"login"}

\* What a session's server has got or will get.
Lines == [s \in 1..MaxSessions |->
              IF s = fd THEN server[s] \o flight ELSE server[s]]

AprsTypeOK ==
    /\ aprs \in {"idle", "connect", "login", "reply", "write"}
    /\ aprs # "idle" => uplinked \in Messages
    /\ sessions \in 0..MaxSessions
    /\ fd = -1 \/ (fd = sessions /\ sessions > 0)
    /\ cut \subseteq 1..sessions
    /\ flight \in Seq(Text)
    /\ server \in [1..MaxSessions -> Seq(Text)]
    /\ accepted \in Seq(Messages)
    /\ written \in [Messages -> 0..MaxSessions]
    /\ aprs_rc \in [Messages -> {"none", "TE_hardware", "TE_ok", "TE_ratelimiting"}]

\* Only the present session is not cut, and it has a socket while it is used.
SessionInv ==
    /\ \A s \in 1..sessions : s \in cut \/ s = fd
    /\ fd = -1 \/ fd \in cut => flight = <<>>
    /\ \A s \in 1..MaxSessions : s > sessions => server[s] = <<>>
    /\ aprs = "connect" => fd = -1
    /\ aprs \in {"login", "reply", "write"} => fd # -1
    /\ aprs = "login" => Lines[fd] = <<>>
    /\ fd # -1 /\ fd \notin cut /\ aprs # "login" => Lines[fd] # <<>>

\* Each line of each session is the login, when it is the first, or a message
\* that was taken, and the messages have their order.
LinesInv(lines) ==
    /\ \A s \in 1..MaxSessions : lines[s] # <<>> => lines[s][1] = "login"
    /\ \A s \in 1..MaxSessions : \A i \in 2..Len(lines[s]) :
           \E k \in DOMAIN accepted : accepted[k] = lines[s][i]
    /\ \A s, t \in 1..MaxSessions :
           \A i \in 2..Len(lines[s]), j \in 2..Len(lines[t]) :
               s < t \/ (s = t /\ i < j) => InThatOrder(lines[s][i], lines[t][j])

\* What put_message_low() said of a message, and what it will be said of.
VerdictInv(lines) ==
    /\ \A k, l \in DOMAIN accepted : accepted[k] = accepted[l] => k = l
    /\ \A s \in 1..MaxSessions : \A i \in 2..Len(lines[s]) :
           aprs_rc[lines[s][i]] = "TE_ok"
    /\ \A k \in DOMAIN accepted : aprs_rc[accepted[k]] = "TE_ok" =>
           LET s == written[accepted[k]]
           IN  /\ s \in 1..sessions
               /\ s \notin cut => \E i \in 2..Len(lines[s]) : lines[s][i] = accepted[k]
    /\ aprs # "idle" => /\ accepted # <<>>
                        /\ accepted[Len(accepted)] = uplinked
                        /\ aprs_rc[uplinked] = "none"

AprsInv == AprsTypeOK /\ SessionInv /\ LinesInv(Lines) /\ VerdictInv(Lines)

\* main has not brought the message to APRS-IS yet.
AprsFresh(m) ==
    /\ aprs_rc[m] = "none"
    /\ \A k \in DOMAIN accepted : accepted[k] # m

-----------------------------------------------------------------------------
(* MQTT.                                                                   *)

Publication == {"raw", "json"} \X Messages

MqttTypeOK ==
    /\ mqtt \in {"idle", "raw", "json"}
    /\ outbox \in Seq(Publication)
    /\ raw \in Seq(Messages) /\ json \in Seq(Messages)
    /\ severed \subseteq Messages
    /\ mqtt_rc \in [Messages -> {"none", "TE_hardware", "TE_ok"}]

\* MQTT has not seen the message, or is publishing it.
MqttFresh(m) == m \notin On(json) \cup Queued("json") /\ mqtt_rc[m] = "none"

\* The raw form of what is queued as JSON is out, queued before it, or lost.
RawFirst ==
    \A j \in DOMAIN outbox, m \in Messages :
        TopicOut /\ outbox[j] = <<"json", m>> =>
            m \in On(raw) \cup severed \/ \E i \in 1..(j - 1) : outbox[i] = <<"raw", m>>

MqttInv ==
    /\ MqttTypeOK /\ RawFirst /\ BothTopicsOrError
    /\ mqtt # "idle" => published \in Messages /\ MqttFresh(published)
    /\ mqtt = "json" /\ TopicOut => published \in On(raw) \cup Queued("raw") \cup severed

-----------------------------------------------------------------------------
(* The database.                                                           *)

Doing(u) ==
    IF u = "main" THEN {"idle", "insert", "delete", "new"}
    ELSE ToSet(Page) \cup {"idle", "linked", "history", "delete", "new"}

DbTypeOK ==
    /\ stored \in Seq(Messages \X (0..MaxTime))
    /\ clients \in Nat \ {0} /\ client = clients
    /\ deleted \subseteq 1..clients
    /\ DOMAIN at = Users /\ \A u \in Users : at[u] \in Doing(u)
    /\ using \in [Users -> 0..clients]
    /\ at["main"] # "idle" => inserting \in Messages \X (0..MaxTime)
    /\ back \in [Visitors -> Tables \cup {"idle", "linked"}]
    /\ table \in [Visitors -> [Tables -> Int]]
    /\ rows \in [Visitors -> [Calls \X Dates -> Nat]]
    /\ DOMAIN link = Visitors
    /\ \A v \in Visitors : link[v] # <<>> => link[v] \in (Calls \X Dates) \X Int
    /\ faults \in Nat
    /\ overlap \in BOOLEAN /\ crashed \in BOOLEAN
    /\ db_rc \in [Messages -> {"none", "TE_ok"}]

\* While nobody overtook anybody every client in use is alive, and m_c is too
\* unless the one who deleted it is making another.
ClientInv ==
    ~overlap =>
        /\ ~crashed
        /\ client \in deleted => \E u \in Users : at[u] = "new"
        /\ \A u \in Users : InQuery(u) => using[u] \notin deleted

\* Where a visitor is on its page, or will be after reconnecting.
Pos(v) == IF at[v] \in {"delete", "new"} THEN back[v] ELSE at[v]

\* The tables that are still to come are empty, and those that are there grew
\* from one to the next and did not outgrow the collection.
PageGood(v) ==
    /\ \A i \in 2..Len(Page) : table[v][Page[i]] <= Len(stored)
    /\ \A i \in 1..Len(Page), j \in 2..Len(Page) :
           Pos(v) = Page[i] /\ i <= j => table[v][Page[j]] = -1
    /\ \A i, j \in 2..Len(Page) :
           i < j /\ table[v][Page[i]] >= 0 /\ table[v][Page[j]] >= 0
               => table[v][Page[i]] <= table[v][Page[j]]

PageInv == \A v \in Visitors : PageGood(v)

\* What a row of the air time table counts.
InRow(row) == {r \in Records : From[r[1]] = row[1] /\ r[2] \div DayLength = row[2]}

\* A row counts no more than is there; a link is clicked when the page is.
RowGood(v) ==
    /\ \A row \in Calls \X Dates : rows[v][row] <= Cardinality(InRow(row))
    /\ link[v] # <<>> =>
          /\ Pos(v) \in {"idle", "history"}
          /\ Zone = 0 /\ link[v][2] >= 0 =>
                link[v][2] >= Limit \/ link[v][2] >= rows[v][link[v][1]]
    /\ at[v] = "history" => link[v] # <<>>

RowInv == \A v \in Visitors : RowGood(v)

\* A message that was not stored made the insertion fail, before main gave up.
StoredInv ==
    /\ \A i, j \in DOMAIN stored : stored[i][1] = stored[j][1] => i = j
    /\ at["main"] # "idle" => /\ db_rc[inserting[1]] = "none"
                              /\ \A i \in DOMAIN stored : stored[i][1] # inserting[1]
    /\ Len(stored) + faults >= Cardinality({m \in Messages : db_rc[m] = "TE_ok"})
                             + IF at["main"] \in {"delete", "new"} THEN 1 ELSE 0

DbInv == DbTypeOK /\ ClientInv /\ PageInv /\ RowInv /\ StoredInv

DbFresh(m) == db_rc[m] = "none" /\ \A i \in DOMAIN stored : stored[i][1] # m

-----------------------------------------------------------------------------
(* main.                                                                   *)

\* main is at one outlet at a time, with the first message it has still to take.
TurnInv ==
    /\ todo \in Seq(Messages)
    /\ \A i, j \in DOMAIN todo : todo[i] = todo[j] => i = j
    /\ turn \in {"take", "aprs", "mqtt", "db"}
    /\ turn # "take" => todo # <<>>
    /\ turn # "aprs" => aprs = "idle"
    /\ turn # "mqtt" => mqtt = "idle"
    /\ turn # "db" => at["main"] = "idle"
    /\ aprs # "idle" => uplinked = todo[1]
    /\ mqtt # "idle" => published = todo[1]
    /\ at["main"] # "idle" => inserting[1] = todo[1]

\* No message was at an outlet that main will bring it to.
FreshInv ==
    \A i \in DOMAIN todo :
        /\ i > 1 \/ turn = "take" => AprsFresh(todo[i])
        /\ i > 1 \/ turn \in {"take", "aprs"} => MqttFresh(todo[i])
        /\ i > 1 \/ turn \in {"take", "aprs", "mqtt"} => DbFresh(todo[i])

IInv == AprsInv /\ MqttInv /\ DbInv /\ TurnInv /\ FreshInv

-----------------------------------------------------------------------------
(* About sequences.                                                        *)

LEMMA AppendFacts ==
    ASSUME NEW S, NEW s \in Seq(S), NEW x \in S
    PROVE  /\ Append(s, x) \in Seq(S)
           /\ Len(s) \in Nat /\ Len(Append(s, x)) = Len(s) + 1
           /\ \A i \in 1..Len(s) : Append(s, x)[i] = s[i]
           /\ Append(s, x)[Len(s) + 1] = x
  OBVIOUS

LEMMA ConcatFacts ==
    ASSUME NEW S, NEW s \in Seq(S), NEW f \in Seq(S)
    PROVE  /\ s \o f \in Seq(S)
           /\ Len(s) \in Nat /\ Len(f) \in Nat /\ Len(s \o f) = Len(s) + Len(f)
           /\ \A i \in 1..Len(s) : (s \o f)[i] = s[i]
           /\ \A i \in 1..Len(f) : (s \o f)[Len(s) + i] = f[i]
           /\ s \o <<>> = s
  OBVIOUS

LEMMA ConcatAppend ==
    ASSUME NEW S, NEW s \in Seq(S), NEW f \in Seq(S), NEW x \in S
    PROVE  s \o Append(f, x) = Append(s \o f, x)
  OBVIOUS

LEMMA ConcatShift ==
    ASSUME NEW S, NEW s \in Seq(S), NEW f \in Seq(S), f # <<>>
    PROVE  /\ Append(s, Head(f)) \o Tail(f) = s \o f
           /\ Head(f) \in S /\ Tail(f) \in Seq(S)
  OBVIOUS

-----------------------------------------------------------------------------
(* The uplink: what becomes of the lines of a session.                     *)

LEMMA LinesType ==
    ASSUME AprsTypeOK
    PROVE  /\ Lines \in [1..MaxSessions -> Seq(Text)]
           /\ \A s \in 1..MaxSessions :
                  Lines[s] = IF s = fd THEN server[s] \o flight ELSE server[s]
  <1>1. ASSUME NEW s \in 1..MaxSessions
        PROVE  (IF s = fd THEN server[s] \o flight ELSE server[s]) \in Seq(Text)
    BY <1>1, ConcatFacts DEF AprsTypeOK
  <1>2. QED
    BY <1>1 DEF Lines

\* Nothing is on its way: the servers have all there is.
LEMMA LinesAtRest ==
    ASSUME AprsTypeOK, flight = <<>>
    PROVE  Lines = server
  <1>1. \A s \in 1..MaxSessions : Lines[s] = server[s]
    BY LinesType, ConcatFacts DEF AprsTypeOK
  <1>2. Lines = [s \in 1..MaxSessions |-> Lines[s]]
    BY LinesType
  <1>3. server = [s \in 1..MaxSessions |-> server[s]]
    BY DEF AprsTypeOK
  <1>4. QED
    BY <1>1, <1>2, <1>3

LEMMA LinesWritten ==
    ASSUME AprsTypeOK, AprsTypeOK', UNCHANGED <<fd, server>>, NEW x \in Text,
           fd \in 1..MaxSessions, flight' = Append(flight, x)
    PROVE  Lines' = [Lines EXCEPT ![fd] = Append(Lines[fd], x)]
  <1>1. \A s \in 1..MaxSessions :
            Lines'[s] = IF s = fd THEN server[s] \o flight' ELSE server[s]
    BY DEF Lines
  <1>2. server[fd] \o Append(flight, x) = Append(server[fd] \o flight, x)
    BY ConcatAppend DEF AprsTypeOK
  <1>3. \A s \in 1..MaxSessions :
            Lines'[s] = [Lines EXCEPT ![fd] = Append(Lines[fd], x)][s]
    BY <1>1, <1>2, LinesType
  <1>4. DOMAIN Lines' = 1..MaxSessions /\ Lines' = [s \in 1..MaxSessions |-> Lines'[s]]
    BY DEF Lines
  <1>5. QED
    BY <1>3, <1>4, LinesType

LEMMA LinesArrived ==
    ASSUME AprsTypeOK, SessionInv, Arrive
    PROVE  AprsTypeOK' /\ Lines' = Lines
  <1>1. fd \in 1..MaxSessions /\ flight # <<>>
    BY DEF AprsTypeOK, SessionInv, Arrive
  <1>2. /\ Append(server[fd], Head(flight)) \o Tail(flight) = server[fd] \o flight
        /\ Head(flight) \in Text /\ Tail(flight) \in Seq(Text)
        /\ Append(server[fd], Head(flight)) \in Seq(Text)
    <2>1. server[fd] \in Seq(Text) /\ flight \in Seq(Text)
      BY <1>1 DEF AprsTypeOK
    <2>2. QED
      BY <1>1, <2>1, ConcatShift, AppendFacts
  <1>3. server' \in [1..MaxSessions -> Seq(Text)]
    BY <1>1, <1>2 DEF AprsTypeOK, Arrive
  <1>4. AprsTypeOK'
    BY <1>2, <1>3 DEF AprsTypeOK, Arrive
  <1>5. \A s \in 1..MaxSessions :
            Lines'[s] = IF s = fd THEN server'[s] \o flight' ELSE server'[s]
    BY DEF Lines, Arrive
  <1>6. \A s \in 1..MaxSessions : Lines'[s] = Lines[s]
    BY <1>1, <1>2, <1>5, LinesType DEF AprsTypeOK, Arrive
  <1>7. Lines' = [s \in 1..MaxSessions |-> Lines'[s]]
    BY DEF Lines
  <1>8. QED
    BY <1>4, <1>6, <1>7, LinesType

\* A cut takes what is on its way.
LEMMA LinesCut ==
    ASSUME AprsTypeOK, SessionInv, Cut
    PROVE  /\ AprsTypeOK' /\ fd \in 1..MaxSessions
           /\ Lines' = [Lines EXCEPT ![fd] = server[fd]]
           /\ Lines[fd] = server[fd] \o flight
  <1>1. fd \in 1..MaxSessions
    BY DEF AprsTypeOK, Cut
  <1>2. AprsTypeOK'
    <2>1. <<>> \in Seq(Text)
      OBVIOUS
    <2>2. cut' \subseteq 1..sessions
      <3>1. fd \in 1..sessions
        BY DEF AprsTypeOK, Cut
      <3>2. cut \subseteq 1..sessions /\ cut' = cut \cup {fd}
        BY DEF AprsTypeOK, Cut
      <3>3. QED
        BY <3>1, <3>2
    <2>3. QED
      BY <2>1, <2>2 DEF AprsTypeOK, Cut
  <1>3. \A s \in 1..MaxSessions : Lines'[s] = server[s]
    <2>1. \A s \in 1..MaxSessions :
              Lines'[s] = IF s = fd THEN server[s] \o <<>> ELSE server[s]
      BY DEF Lines, Cut
    <2>2. QED
      BY <2>1, ConcatFacts DEF AprsTypeOK
  <1>4. Lines' = [s \in 1..MaxSessions |-> Lines'[s]]
    BY DEF Lines
  <1>5. QED
    BY <1>1, <1>2, <1>3, <1>4, LinesType

Shorter(a, b) ==
    \A s \in 1..MaxSessions :
        /\ Len(a[s]) <= Len(b[s])
        /\ \A i \in 1..Len(a[s]) : a[s][i] = b[s][i]

\* What is lost at the end of a session disturbs nothing.
LEMMA ShorterLines ==
    ASSUME NEW a \in [1..MaxSessions -> Seq(Text)],
           NEW b \in [1..MaxSessions -> Seq(Text)],
           Shorter(a, b), LinesInv(b)
    PROVE  LinesInv(a)
  <1>1. ASSUME NEW s \in 1..MaxSessions
        PROVE  /\ a[s] \in Seq(Text) /\ b[s] \in Seq(Text)
               /\ a[s] # <<>> => b[s] # <<>> /\ a[s][1] = b[s][1]
               /\ \A i \in 2..Len(a[s]) : i \in 2..Len(b[s]) /\ a[s][i] = b[s][i]
    <2>1. /\ a[s] \in Seq(Text) /\ b[s] \in Seq(Text)
          /\ Len(a[s]) \in Nat /\ Len(b[s]) \in Nat
          /\ a[s] # <<>> => Len(a[s]) > 0
          /\ Len(b[s]) > 0 => b[s] # <<>>
      OBVIOUS
    <2>2. Len(a[s]) <= Len(b[s]) /\ \A i \in 1..Len(a[s]) : a[s][i] = b[s][i]
      BY DEF Shorter
    <2>3. QED
      BY <2>1, <2>2
  <1>2. \A s \in 1..MaxSessions : a[s] # <<>> => a[s][1] = "login"
    BY <1>1 DEF LinesInv
  <1>3. \A s \in 1..MaxSessions : \A i \in 2..Len(a[s]) :
            \E k \in DOMAIN accepted : accepted[k] = a[s][i]
    BY <1>1 DEF LinesInv
  <1>4. ASSUME NEW s \in 1..MaxSessions, NEW t \in 1..MaxSessions,
               NEW i \in 2..Len(a[s]), NEW j \in 2..Len(a[t]),
               s < t \/ (s = t /\ i < j)
        PROVE  InThatOrder(a[s][i], a[t][j])
    <2>1. i \in 2..Len(b[s]) /\ j \in 2..Len(b[t])
          /\ a[s][i] = b[s][i] /\ a[t][j] = b[t][j]
      BY <1>1
    <2>2. InThatOrder(b[s][i], b[t][j])
      BY <1>4, <2>1 DEF LinesInv
    <2>3. QED
      BY <2>1, <2>2
  <1>5. QED
    BY <1>2, <1>3, <1>4 DEF LinesInv

\* The last message that was taken is written behind all others.
LEMMA LongerLines ==
    ASSUME NEW a \in [1..MaxSessions -> Seq(Text)], LinesInv(a),
           NEW f \in 1..MaxSessions, NEW x \in Text,
           \A s \in 1..MaxSessions : s > f => a[s] = <<>>,
           accepted \in Seq(Messages),
           IF a[f] = <<>> THEN x = "login"
           ELSE /\ accepted # <<>> /\ accepted[Len(accepted)] = x
                /\ \A s \in 1..MaxSessions : \A i \in 2..Len(a[s]) : a[s][i] # x
    PROVE  LinesInv([a EXCEPT ![f] = Append(a[f], x)])
  <1> DEFINE b == [a EXCEPT ![f] = Append(a[f], x)]
             n == Len(a[f]) + 1
  <1>1. /\ \A s \in 1..MaxSessions : s # f => b[s] = a[s]
        /\ b[f] = Append(a[f], x)
    OBVIOUS
  <1>2. /\ Len(a[f]) \in Nat /\ Len(b[f]) = n /\ b[f][n] = x
        /\ \A i \in 1..Len(a[f]) : b[f][i] = a[f][i]
        /\ a[f] = <<>> <=> Len(a[f]) = 0
    BY <1>1, AppendFacts
  <1>3. \A s \in 1..MaxSessions : Len(a[s]) \in Nat
    OBVIOUS
  <1> HIDE DEF b
  <1>4. ASSUME NEW s \in 1..MaxSessions, b[s] # <<>>
        PROVE  b[s][1] = "login"
    <2>1. CASE s # f
      BY <1>1, <1>4, <2>1 DEF LinesInv
    <2>2. CASE s = f /\ a[f] = <<>>
      BY <1>2, <2>2
    <2>3. CASE s = f /\ a[f] # <<>>
      <3>1. b[f][1] = a[f][1]
        BY <1>2, <2>3
      <3>2. QED
        BY <2>3, <3>1 DEF LinesInv
    <2>4. QED
      BY <2>1, <2>2, <2>3
  <1>5. ASSUME NEW s \in 1..MaxSessions, NEW i \in 2..Len(b[s])
        PROVE  \/ i \in 2..Len(a[s]) /\ b[s][i] = a[s][i]
               \/ s = f /\ i = n /\ b[s][i] = x /\ a[f] # <<>>
    <2>1. CASE s # f
      BY <1>1, <2>1
    <2>2. CASE s = f
      <3>1. i \in 2..n
        BY <1>2, <2>2
      <3>2. CASE i = n
        BY <1>2, <2>2, <3>1, <3>2
      <3>3. CASE i # n
        <4>1. i \in 2..Len(a[f]) /\ i \in 1..Len(a[f])
          BY <1>2, <3>1, <3>3
        <4>2. QED
          BY <1>2, <2>2, <4>1
      <3>4. QED
        BY <3>2, <3>3
    <2>3. QED
      BY <2>1, <2>2
  <1>6. ASSUME NEW s \in 1..MaxSessions, NEW i \in 2..Len(a[s])
        PROVE  \E k \in DOMAIN accepted : accepted[k] = a[s][i]
    BY DEF LinesInv
  <1>7. a[f] # <<>> => Len(accepted) \in DOMAIN accepted /\ accepted[Len(accepted)] = x
    OBVIOUS
  <1>8. ASSUME NEW s \in 1..MaxSessions, NEW i \in 2..Len(b[s])
        PROVE  \E k \in DOMAIN accepted : accepted[k] = b[s][i]
    <2>1. CASE i \in 2..Len(a[s]) /\ b[s][i] = a[s][i]
      BY <1>6, <2>1
    <2>2. CASE b[s][i] = x /\ a[f] # <<>>
      BY <1>7, <2>2
    <2>3. QED
      BY <1>5, <2>1, <2>2
  <1>9. ASSUME NEW s \in 1..MaxSessions, NEW t \in 1..MaxSessions,
               NEW i \in 2..Len(b[s]), NEW j \in 2..Len(b[t]),
               s < t \/ (s = t /\ i < j)
        PROVE  InThatOrder(b[s][i], b[t][j])
    <2>1. CASE j \in 2..Len(a[t]) /\ b[t][j] = a[t][j]
      <3>1. i \in 2..Len(a[s]) /\ b[s][i] = a[s][i]
        <4>1. CASE i \in 2..Len(a[s]) /\ b[s][i] = a[s][i]
          BY <4>1
        <4>2. CASE s = f /\ i = n
          <5>1. t > f => Len(a[t]) = 0
            OBVIOUS
          <5>2. QED
            BY <1>2, <1>3, <1>9, <2>1, <4>2, <5>1
        <4>3. QED
          BY <1>5, <4>1, <4>2
      <3>2. InThatOrder(a[s][i], a[t][j])
        BY <1>9, <2>1, <3>1 DEF LinesInv
      <3>3. QED
        BY <2>1, <3>1, <3>2
    <2>2. CASE t = f /\ j = n /\ b[t][j] = x /\ a[f] # <<>>
      <3>1. i \in 2..Len(a[s]) /\ b[s][i] = a[s][i]
        <4>1. ~(s = f /\ i = n)
          BY <1>2, <1>9, <2>2
        <4>2. QED
          BY <1>5, <4>1
      <3>2. PICK k \in DOMAIN accepted : accepted[k] = a[s][i]
        BY <1>6, <3>1
      <3>3. k # Len(accepted)
        BY <2>2, <3>1, <3>2
      <3>4. k < Len(accepted) /\ Len(accepted) \in DOMAIN accepted
        BY <3>3
      <3>5. QED
        BY <1>7, <2>2, <3>1, <3>2, <3>4 DEF InThatOrder
    <2>3. QED
      BY <1>5, <2>1, <2>2
  <1>10. LinesInv(b)
    BY <1>4, <1>8, <1>9 DEF LinesInv
  <1>11. QED
    BY <1>10 DEF b

-----------------------------------------------------------------------------
(* The uplink: one lemma per step.                                         *)

\* A message that is no APRS packet, or is refused, leaves no trace; another
\* becomes the last that was taken.
LEMMA AprsPutKeeps ==
    ASSUME AprsInv, NEW m \in Messages, AprsFresh(m), AprsPut(m)
    PROVE  AprsInv'
  <1>1. Lines' = Lines /\ UNCHANGED <<fd, sessions, cut, flight, server, written>>
    BY DEF AprsPut, Lines
  <1>2. accepted \in Seq(Messages) /\ Len(accepted) \in Nat
        /\ DOMAIN accepted = 1..Len(accepted)
    BY DEF AprsInv, AprsTypeOK
  <1>3. \/ accepted' = accepted
        \/ accepted' = Append(accepted, m)
    BY DEF AprsPut
  <1>4. /\ accepted' \in Seq(Messages) /\ DOMAIN accepted' = 1..Len(accepted')
        /\ Len(accepted') \in Nat /\ Len(accepted) <= Len(accepted')
        /\ \A k \in 1..Len(accepted) : accepted'[k] = accepted[k]
        /\ \A k \in 1..Len(accepted') : k \in 1..Len(accepted) \/ accepted'[k] = m
        /\ \A k \in 1..Len(accepted') : k \in 1..Len(accepted) \/ k = Len(accepted) + 1
    BY <1>2, <1>3, AppendFacts
  <1>5. AprsTypeOK'
    BY <1>1, <1>4 DEF AprsInv, AprsTypeOK, AprsPut, AprsReturn
  <1>6. SessionInv'
    BY <1>1 DEF AprsInv, AprsTypeOK, SessionInv, AprsPut, AprsReturn
  <1>7. LinesInv(Lines)'
    <2>1. \A k \in DOMAIN accepted : k \in DOMAIN accepted' /\ accepted'[k] = accepted[k]
      BY <1>2, <1>4
    <2>2. \A x, y : InThatOrder(x, y) => InThatOrder(x, y)'
      BY <2>1 DEF InThatOrder
    <2>3. LinesInv(Lines)
      BY DEF AprsInv
    <2>4. \A s \in 1..MaxSessions : \A i \in 2..Len(Lines[s]) :
              \E k \in DOMAIN accepted' : accepted'[k] = Lines[s][i]
      BY <2>1, <2>3 DEF LinesInv
    <2>5. QED
      BY <1>1, <2>2, <2>3, <2>4 DEF LinesInv
  <1>8. VerdictInv(Lines)'
    <2>1. VerdictInv(Lines) /\ LinesInv(Lines)
      BY DEF AprsInv
    <2>2. \A k \in 1..Len(accepted) : accepted[k] # m
      BY <1>2 DEF AprsFresh
    <2>3. \A k, l \in 1..Len(accepted') : accepted'[k] = accepted'[l] => k = l
      <3>1. ASSUME NEW k \in 1..Len(accepted'), NEW l \in 1..Len(accepted'),
                   accepted'[k] = accepted'[l]
            PROVE  k = l
        <4>1. CASE k \in 1..Len(accepted) /\ l \in 1..Len(accepted)
          <5>1. accepted[k] = accepted[l]
            BY <1>4, <3>1, <4>1
          <5>2. QED
            BY <1>2, <2>1, <4>1, <5>1 DEF VerdictInv
        <4>2. CASE k \in 1..Len(accepted) /\ l \notin 1..Len(accepted)
          <5>1. accepted[k] = m
            BY <1>4, <3>1, <4>2
          <5>2. QED
            BY <2>2, <4>2, <5>1
        <4>3. CASE k \notin 1..Len(accepted) /\ l \in 1..Len(accepted)
          <5>1. accepted[l] = m
            BY <1>4, <3>1, <4>3
          <5>2. QED
            BY <2>2, <4>3, <5>1
        <4>4. CASE k \notin 1..Len(accepted) /\ l \notin 1..Len(accepted)
          BY <1>4, <4>4
        <4>5. QED
          BY <4>1, <4>2, <4>3, <4>4
      <3>2. QED
        BY <3>1
    <2>4. \A y \in Messages : y # m => aprs_rc'[y] = aprs_rc[y]
      BY DEF AprsPut, AprsReturn, AprsInv, AprsTypeOK
    <2>5. \A s \in 1..MaxSessions : \A i \in 2..Len(Lines[s]) :
              Lines[s][i] \in Messages /\ Lines[s][i] # m
      BY <1>2, <2>1, <2>2 DEF LinesInv
    <2>6. \A s \in 1..MaxSessions : \A i \in 2..Len(Lines[s]) :
              aprs_rc'[Lines[s][i]] = "TE_ok"
      BY <2>1, <2>4, <2>5 DEF VerdictInv
    <2>7. accepted' # accepted => aprs_rc' = aprs_rc
      BY DEF AprsPut
    <2>8. ASSUME NEW k \in 1..Len(accepted'), aprs_rc'[accepted'[k]] = "TE_ok"
          PROVE  LET s == written[accepted'[k]]
                 IN  /\ s \in 1..sessions
                     /\ s \notin cut =>
                            \E i \in 2..Len(Lines[s]) : Lines[s][i] = accepted'[k]
      <3>1. k \in 1..Len(accepted)
        <4>1. CASE accepted' = accepted
          BY <4>1
        <4>2. CASE accepted' # accepted
          <5>1. aprs_rc[accepted'[k]] = "TE_ok"
            BY <2>7, <2>8, <4>2
          <5>2. accepted'[k] # m
            BY <5>1 DEF AprsFresh
          <5>3. QED
            BY <1>4, <2>8, <5>2
        <4>3. QED
          BY <4>1, <4>2
      <3>2. accepted'[k] = accepted[k] /\ accepted[k] \in Messages
        BY <1>2, <1>4, <3>1
      <3>3. aprs_rc[accepted[k]] = "TE_ok"
        BY <2>2, <2>4, <2>8, <3>1, <3>2
      <3>4. QED
        BY <1>2, <2>1, <3>1, <3>2, <3>3 DEF VerdictInv
    <2>9. aprs' # "idle" => /\ accepted' # <<>>
                            /\ accepted'[Len(accepted')] = uplinked'
                            /\ aprs_rc'[uplinked'] = "none"
      <3>1. SUFFICES ASSUME aprs' # "idle"
                     PROVE  accepted' # <<>> /\ accepted'[Len(accepted')] = uplinked'
                            /\ aprs_rc'[uplinked'] = "none"
        OBVIOUS
      <3>2. accepted' = Append(accepted, m) /\ aprs_rc' = aprs_rc /\ uplinked' = m
        BY <3>1 DEF AprsPut, AprsReturn
      <3>3. QED
        BY <1>2, <3>2, AppendFacts DEF AprsFresh
    <2>10. QED
      BY <1>1, <1>4, <2>3, <2>6, <2>8, <2>9 DEF VerdictInv
  <1>9. QED
    BY <1>5, <1>6, <1>7, <1>8 DEF AprsInv

\* What put_message_low() says of the message it is at changes nothing about
\* the others; it says TE_ok only when the message was written.
LEMMA AprsReturnKeeps ==
    ASSUME AprsInv, aprs # "idle", NEW rc, rc # "TE_ok", AprsReturn(uplinked, rc),
           UNCHANGED <<accepted, sessions, cut>>, Lines' = Lines,
           \A y \in Messages : y # uplinked => written'[y] = written[y]
    PROVE  LinesInv(Lines)' /\ VerdictInv(Lines)'
  <1>1. LinesInv(Lines)'
    <2>1. LinesInv(Lines)
      BY DEF AprsInv
    <2>2. \A x, y : InThatOrder(x, y)' <=> InThatOrder(x, y)
      BY DEF InThatOrder
    <2>3. QED
      BY <2>1, <2>2 DEF LinesInv
  <1>2. /\ VerdictInv(Lines) /\ LinesInv(Lines) /\ uplinked \in Messages
        /\ accepted \in Seq(Messages)
        /\ aprs_rc \in [Messages -> {"none", "TE_hardware", "TE_ok", "TE_ratelimiting"}]
    BY DEF AprsInv, AprsTypeOK
  <1>3. /\ \A y \in Messages : y # uplinked => aprs_rc'[y] = aprs_rc[y]
        /\ aprs_rc[uplinked] = "none" /\ aprs_rc'[uplinked] = rc
    BY <1>2 DEF AprsReturn, VerdictInv
  <1>4. \A k \in DOMAIN accepted : accepted[k] \in Messages
    BY <1>2
  <1>5. \A s \in 1..MaxSessions : \A i \in 2..Len(Lines[s]) :
            aprs_rc'[Lines[s][i]] = "TE_ok"
    <2>1. ASSUME NEW s \in 1..MaxSessions, NEW i \in 2..Len(Lines[s])
          PROVE  aprs_rc'[Lines[s][i]] = "TE_ok"
      <3>1. aprs_rc[Lines[s][i]] = "TE_ok" /\ Lines[s][i] \in Messages
        BY <1>2, <1>4 DEF VerdictInv, LinesInv
      <3>2. QED
        BY <1>3, <3>1
    <2>2. QED
      BY <2>1
  <1>6. ASSUME NEW k \in DOMAIN accepted, aprs_rc'[accepted[k]] = "TE_ok"
        PROVE  LET s == written'[accepted[k]]
               IN  /\ s \in 1..sessions
                   /\ s \notin cut =>
                          \E i \in 2..Len(Lines[s]) : Lines[s][i] = accepted[k]
    <2>1. accepted[k] # uplinked /\ aprs_rc[accepted[k]] = "TE_ok"
      BY <1>3, <1>4, <1>6
    <2>2. written'[accepted[k]] = written[accepted[k]]
      BY <1>4, <2>1
    <2>3. QED
      BY <1>2, <2>1, <2>2 DEF VerdictInv
  <1>7. aprs' = "idle"
    BY DEF AprsReturn
  <1>8. VerdictInv(Lines)'
    BY <1>2, <1>5, <1>6, <1>7 DEF VerdictInv
  <1>9. QED
    BY <1>1, <1>8

LEMMA LinesStay ==
    ASSUME AprsTypeOK, flight = <<>>, flight' = <<>>, server' = server
    PROVE  Lines' = Lines
  <1>1. \A s \in 1..MaxSessions : server[s] \o <<>> = server[s]
    BY ConcatFacts DEF AprsTypeOK
  <1>2. QED
    BY <1>1 DEF Lines

\* What a step does that takes no message and says nothing of one.
LEMMA NothingSaidKeeps ==
    ASSUME AprsInv, Lines' = Lines, sessions' >= sessions, sessions \in Nat,
           sessions' \in Nat, cut \subseteq cut',
           UNCHANGED <<accepted, aprs_rc, written, uplinked>>,
           aprs # "idle" \/ aprs' = "idle"
    PROVE  LinesInv(Lines)' /\ VerdictInv(Lines)'
  <1>1. LinesInv(Lines) /\ VerdictInv(Lines)
    BY DEF AprsInv
  <1>2. LinesInv(Lines)'
    BY <1>1 DEF LinesInv, InThatOrder
  <1>3. \A s \in 1..sessions : s \in 1..sessions'
    OBVIOUS
  <1>4. ASSUME NEW k \in DOMAIN accepted, aprs_rc[accepted[k]] = "TE_ok"
        PROVE  LET s == written[accepted[k]]
               IN  /\ s \in 1..sessions'
                   /\ s \notin cut' =>
                          \E i \in 2..Len(Lines[s]) : Lines[s][i] = accepted[k]
    BY <1>1, <1>3, <1>4 DEF VerdictInv
  <1>5. VerdictInv(Lines)'
    BY <1>1, <1>4 DEF VerdictInv
  <1>6. QED
    BY <1>2, <1>5

LEMMA ConnectKeeps ==
    ASSUME AprsInv, Connect
    PROVE  AprsInv'
  <1>1. /\ AprsTypeOK /\ SessionInv
        /\ fd = -1 /\ flight = <<>> /\ flight' = <<>> /\ aprs = "connect"
        /\ uplinked \in Messages
        /\ UNCHANGED <<uplinked, cut, flight, server, accepted, written>>
    BY DEF AprsInv, AprsTypeOK, SessionInv, Connect
  <1>2. Lines' = Lines /\ Lines = server
    BY <1>1, LinesStay, LinesAtRest
  <1>3. CASE AprsReturn(uplinked, "TE_hardware") /\ UNCHANGED <<fd, sessions, silent>>
    <2>1. AprsTypeOK'
      BY <1>1, <1>3 DEF AprsTypeOK, AprsReturn
    <2>2. SessionInv'
      BY <1>1, <1>2, <1>3 DEF SessionInv, AprsReturn
    <2>3. LinesInv(Lines)' /\ VerdictInv(Lines)'
      BY <1>1, <1>2, <1>3, AprsReturnKeeps
    <2>4. QED
      BY <2>1, <2>2, <2>3 DEF AprsInv
  <1>4. CASE /\ sessions < MaxSessions
             /\ sessions' = sessions + 1
             /\ fd' = sessions'
             /\ aprs' = "login"
             /\ UNCHANGED aprs_rc
    <2>1. /\ sessions \in Nat /\ sessions' \in Nat /\ sessions' >= sessions
          /\ sessions' \in 1..MaxSessions /\ sessions' \in 0..MaxSessions
          /\ 1..sessions \subseteq 1..sessions'
          /\ \A s \in 1..sessions' : s \in 1..sessions \/ s = sessions'
      BY <1>1, <1>4, AprsIsAssumption DEF AprsTypeOK
    <2>2. AprsTypeOK'
      BY <1>1, <1>4, <2>1 DEF AprsTypeOK
    <2>3. SessionInv'
      <3>1. \A s \in 1..sessions' : s \in cut \/ s = fd'
        BY <1>1, <1>4, <2>1 DEF SessionInv, AprsTypeOK
      <3>2. \A s \in 1..MaxSessions : s > sessions' => server[s] = <<>>
        BY <1>1, <1>4, <2>1 DEF SessionInv
      <3>3. server[fd'] = <<>>
        BY <1>1, <1>4, <2>1 DEF SessionInv
      <3>4. fd' # -1
        BY <1>4, <2>1
      <3>5. QED
        BY <1>1, <1>2, <1>4, <3>1, <3>2, <3>3, <3>4 DEF SessionInv
    <2>4. LinesInv(Lines)' /\ VerdictInv(Lines)'
      BY <1>1, <1>2, <1>4, <2>1, NothingSaidKeeps
    <2>5. QED
      BY <2>2, <2>3, <2>4 DEF AprsInv
  <1>5. QED
    BY <1>3, <1>4 DEF Connect

\* A write or a read that fails: what was on its way has been lost before.
LEMMA FailsKeeps ==
    ASSUME AprsInv, Fails, aprs \in {"login", "reply", "write"},
           UNCHANGED <<uplinked, sessions, cut, silent, server, accepted>>,
           written' = written \/ written' = [written EXCEPT ![uplinked] = fd]
    PROVE  AprsInv'
  <1>1. /\ AprsTypeOK /\ SessionInv
        /\ uplinked \in Messages /\ fd \in cut /\ fd' = -1
        /\ flight = <<>> /\ flight' = <<>>
        /\ AprsReturn(uplinked, "TE_hardware")
    BY DEF AprsInv, AprsTypeOK, SessionInv, Fails, Close
  <1>2. Lines' = Lines /\ Lines = server
    BY <1>1, LinesStay, LinesAtRest
  <1>3. written' \in [Messages -> 0..MaxSessions]
    <2>1. fd \in 0..MaxSessions
      BY <1>1, AprsIsAssumption DEF AprsTypeOK
    <2>2. QED
      BY <1>1, <2>1 DEF AprsTypeOK
  <1>4. AprsTypeOK'
    BY <1>1, <1>3 DEF AprsTypeOK, AprsReturn
  <1>5. SessionInv'
    <2>1. \A s \in 1..sessions : s \in cut
      BY <1>1 DEF SessionInv
    <2>2. QED
      BY <1>1, <2>1 DEF SessionInv, AprsReturn
  <1>6. \A y \in Messages : y # uplinked => written'[y] = written[y]
    BY <1>1 DEF AprsTypeOK
  <1>7. LinesInv(Lines)' /\ VerdictInv(Lines)'
    BY <1>1, <1>2, <1>6, AprsReturnKeeps
  <1>8. QED
    BY <1>4, <1>5, <1>7 DEF AprsInv

\* The login is the first line of its session.
LEMMA LoginKeeps ==
    ASSUME AprsInv, Login
    PROVE  AprsInv'
  <1>1. /\ AprsTypeOK /\ SessionInv /\ LinesInv(Lines) /\ VerdictInv(Lines)
        /\ aprs = "login" /\ fd \in 1..MaxSessions /\ uplinked \in Messages
        /\ sessions \in Nat /\ fd = sessions
        /\ UNCHANGED <<uplinked, sessions, cut, silent, server, accepted, written>>
    BY AprsIsAssumption DEF AprsInv, AprsTypeOK, SessionInv, Login
  <1>2. CASE Fails
    BY <1>1, <1>2, FailsKeeps
  <1>3. CASE Write("login") /\ aprs' = "reply" /\ UNCHANGED <<fd, aprs_rc>>
    <2>1. CASE fd \in cut
      <3>1. flight = <<>> /\ flight' = <<>>
        BY <1>1, <1>3, <2>1 DEF SessionInv, Write
      <3>2. Lines' = Lines
        BY <1>1, <3>1, LinesStay
      <3>3. AprsTypeOK'
        BY <1>1, <1>3, <3>1 DEF AprsTypeOK
      <3>4. SessionInv'
        BY <1>1, <1>3, <2>1, <3>1, <3>2 DEF SessionInv
      <3>5. LinesInv(Lines)' /\ VerdictInv(Lines)'
        BY <1>1, <1>3, <3>2, NothingSaidKeeps
      <3>6. QED
        BY <3>3, <3>4, <3>5 DEF AprsInv
    <2>2. CASE fd \notin cut
      <3>1. "login" \in Text /\ flight' = Append(flight, "login")
        BY <1>3, <2>2 DEF Text, Write
      <3>2. AprsTypeOK'
        <4>1. flight' \in Seq(Text)
          BY <1>1, <3>1, AppendFacts DEF AprsTypeOK
        <4>2. QED
          BY <1>1, <1>3, <4>1 DEF AprsTypeOK
      <3>3. /\ Lines' = [Lines EXCEPT ![fd] = Append(Lines[fd], "login")]
            /\ Lines \in [1..MaxSessions -> Seq(Text)] /\ Lines[fd] = <<>>
        <4>1. Lines[fd] = <<>>
          BY <1>1 DEF SessionInv
        <4>2. QED
          BY <1>1, <1>3, <3>1, <3>2, <4>1, LinesWritten, LinesType
      <3>4. \A s \in 1..MaxSessions : s # fd => Lines'[s] = Lines[s]
        BY <3>3
      <3>5. Lines'[fd] = <<"login">> /\ Len(Lines'[fd]) = 1
        BY <1>1, <3>3
      <3>6. SessionInv'
        <4>1. Lines'[fd] # <<>>
          BY <3>5
        <4>2. QED
          BY <1>1, <1>3, <2>2, <4>1 DEF SessionInv
      <3>7. \A s \in 1..MaxSessions : 2..Len(Lines'[s]) = 2..Len(Lines[s])
        <4>1. Len(Lines[fd]) = 0
          BY <3>3
        <4>2. 2..Len(Lines'[fd]) = 2..Len(Lines[fd])
          BY <3>5, <4>1
        <4>3. QED
          BY <3>4, <4>2
      <3>8. \A s \in 1..MaxSessions : \A i \in 2..Len(Lines[s]) : Lines'[s][i] = Lines[s][i]
        <4>1. 2..Len(Lines[fd]) = {}
          BY <3>3
        <4>2. QED
          BY <3>4, <4>1
      <3>9. LinesInv(Lines)'
        <4>1. \A s \in 1..MaxSessions : Lines'[s] # <<>> => Lines'[s][1] = "login"
          BY <1>1, <3>4, <3>5 DEF LinesInv
        <4>2. \A x, y : InThatOrder(x, y)' <=> InThatOrder(x, y)
          BY <1>1 DEF InThatOrder
        <4>3. \A s \in 1..MaxSessions : \A i \in 2..Len(Lines'[s]) :
                  \E k \in DOMAIN accepted : accepted[k] = Lines'[s][i]
          BY <1>1, <3>7, <3>8 DEF LinesInv
        <4>4. ASSUME NEW s \in 1..MaxSessions, NEW t \in 1..MaxSessions,
                     NEW i \in 2..Len(Lines'[s]), NEW j \in 2..Len(Lines'[t]),
                     s < t \/ (s = t /\ i < j)
              PROVE  InThatOrder(Lines[s][i], Lines[t][j])'
          <5>1. i \in 2..Len(Lines[s]) /\ j \in 2..Len(Lines[t])
            BY <3>7
          <5>2. InThatOrder(Lines[s][i], Lines[t][j])
            BY <1>1, <4>4, <5>1 DEF LinesInv
          <5>3. Lines'[s][i] = Lines[s][i] /\ Lines'[t][j] = Lines[t][j]
            BY <3>8, <5>1
          <5>4. QED
            BY <1>1, <5>2, <5>3 DEF InThatOrder
        <4>5. QED
          BY <1>1, <4>1, <4>3, <4>4 DEF LinesInv
      <3>10. VerdictInv(Lines)'
        <4>1. \A s \in 1..sessions : s \in 1..MaxSessions
          <5>1. sessions \in 1..MaxSessions
            BY <1>1
          <5>2. QED
            BY <5>1, AprsIsAssumption
        <4>2. \A s \in 1..MaxSessions : \A i \in 2..Len(Lines'[s]) :
                  aprs_rc[Lines'[s][i]] = "TE_ok"
          BY <1>1, <3>7, <3>8 DEF VerdictInv
        <4>3. ASSUME NEW k \in DOMAIN accepted, aprs_rc[accepted[k]] = "TE_ok"
              PROVE  LET s == written[accepted[k]]
                     IN  /\ s \in 1..sessions
                         /\ s \notin cut =>
                                \E i \in 2..Len(Lines'[s]) : Lines'[s][i] = accepted[k]
          <5>1. LET s == written[accepted[k]]
                IN  /\ s \in 1..sessions
                    /\ s \notin cut =>
                           \E i \in 2..Len(Lines[s]) : Lines[s][i] = accepted[k]
            BY <1>1, <4>3 DEF VerdictInv
          <5>2. QED
            BY <3>7, <3>8, <4>1, <5>1
        <4>4. QED
          BY <1>1, <1>3, <4>2, <4>3 DEF VerdictInv
      <3>11. QED
        BY <3>2, <3>6, <3>9, <3>10 DEF AprsInv
    <2>3. QED
      BY <2>1, <2>2
  <1>4. QED
    BY <1>2, <1>3 DEF Login

LEMMA ReplyKeeps ==
    ASSUME AprsInv, Reply
    PROVE  AprsInv'
  <1>1. /\ AprsTypeOK /\ SessionInv
        /\ aprs = "reply" /\ sessions \in Nat
        /\ UNCHANGED <<uplinked, sessions, cut, silent, server, accepted, written>>
    BY AprsIsAssumption DEF AprsInv, AprsTypeOK, Reply
  <1>2. CASE Fails
    BY <1>1, <1>2, FailsKeeps
  <1>3. CASE aprs' = "write" /\ UNCHANGED <<fd, flight, aprs_rc>>
    <2>1. Lines' = Lines
      BY <1>1, <1>3 DEF Lines
    <2>2. AprsTypeOK'
      BY <1>1, <1>3 DEF AprsTypeOK
    <2>3. SessionInv'
      BY <1>1, <1>3, <2>1 DEF SessionInv
    <2>4. LinesInv(Lines)' /\ VerdictInv(Lines)'
      BY <1>1, <1>3, <2>1, NothingSaidKeeps
    <2>5. QED
      BY <2>2, <2>3, <2>4 DEF AprsInv
  <1>4. QED
    BY <1>2, <1>3 DEF Reply

\* TE_ok: the message is the last line of its session, or the session was cut.
LEMMA WritePayloadKeeps ==
    ASSUME AprsInv, WritePayload
    PROVE  AprsInv'
  <1>1. /\ AprsTypeOK /\ SessionInv /\ LinesInv(Lines) /\ VerdictInv(Lines)
        /\ aprs = "write" /\ fd \in 1..MaxSessions /\ uplinked \in Messages
        /\ sessions \in Nat /\ fd = sessions /\ fd \in 1..sessions
        /\ written' = [written EXCEPT ![uplinked] = fd]
        /\ UNCHANGED <<uplinked, sessions, cut, silent, server, accepted>>
    BY AprsIsAssumption DEF AprsInv, AprsTypeOK, SessionInv, WritePayload
  <1>2. CASE Fails
    BY <1>1, <1>2, FailsKeeps
  <1>3. CASE Write(uplinked) /\ AprsReturn(uplinked, "TE_ok") /\ UNCHANGED fd
    <2>1. /\ accepted \in Seq(Messages) /\ accepted # <<>>
          /\ accepted[Len(accepted)] = uplinked /\ aprs_rc[uplinked] = "none"
          /\ \A k \in DOMAIN accepted : accepted[k] \in Messages
          /\ aprs_rc'[uplinked] = "TE_ok" /\ written'[uplinked] = fd
          /\ \A y \in Messages : y # uplinked =>
                aprs_rc'[y] = aprs_rc[y] /\ written'[y] = written[y]
      BY <1>1, <1>3 DEF AprsTypeOK, VerdictInv, AprsReturn
    <2>2. \A s \in 1..MaxSessions : \A i \in 2..Len(Lines[s]) :
              /\ Lines[s][i] # uplinked /\ Lines[s][i] \in Messages
              /\ aprs_rc'[Lines[s][i]] = "TE_ok"
      <3>1. ASSUME NEW s \in 1..MaxSessions, NEW i \in 2..Len(Lines[s])
            PROVE  /\ Lines[s][i] # uplinked /\ Lines[s][i] \in Messages
                   /\ aprs_rc'[Lines[s][i]] = "TE_ok"
        <4>1. aprs_rc[Lines[s][i]] = "TE_ok"
          BY <1>1 DEF VerdictInv
        <4>2. Lines[s][i] \in Messages
          BY <1>1, <2>1 DEF LinesInv
        <4>3. Lines[s][i] # uplinked
          BY <2>1, <4>1
        <4>4. QED
          BY <2>1, <4>1, <4>2, <4>3
      <3>2. QED
        BY <3>1
    <2>3. ASSUME NEW k \in DOMAIN accepted, accepted[k] # uplinked,
                 aprs_rc'[accepted[k]] = "TE_ok"
          PROVE  LET s == written'[accepted[k]]
                 IN  /\ s \in 1..sessions
                     /\ s \notin cut =>
                            \E i \in 2..Len(Lines[s]) : Lines[s][i] = accepted[k]
      <3>1. /\ aprs_rc[accepted[k]] = "TE_ok"
            /\ written'[accepted[k]] = written[accepted[k]]
        BY <2>1, <2>3
      <3>2. QED
        BY <1>1, <3>1 DEF VerdictInv
    <2>4. aprs' = "idle" /\ \A k, l \in DOMAIN accepted : accepted[k] = accepted[l] => k = l
      BY <1>1, <1>3 DEF AprsReturn, VerdictInv
    <2>5. written' \in [Messages -> 0..MaxSessions]
      <3>1. fd \in 0..MaxSessions
        BY <1>1, AprsIsAssumption
      <3>2. QED
        BY <1>1, <3>1 DEF AprsTypeOK
    <2>6. CASE fd \in cut
      <3>1. flight = <<>> /\ flight' = <<>>
        BY <1>1, <1>3, <2>6 DEF SessionInv, Write
      <3>2. Lines' = Lines
        BY <1>1, <3>1, LinesStay
      <3>3. AprsTypeOK'
        BY <1>1, <1>3, <2>5, <3>1 DEF AprsTypeOK, AprsReturn
      <3>4. SessionInv'
        BY <1>1, <1>3, <2>6, <3>1, <3>2 DEF SessionInv, AprsReturn
      <3>5. LinesInv(Lines)'
        BY <1>1, <3>2 DEF LinesInv, InThatOrder
      <3>6. ASSUME NEW k \in DOMAIN accepted, aprs_rc'[accepted[k]] = "TE_ok"
            PROVE  LET s == written'[accepted[k]]
                   IN  /\ s \in 1..sessions
                       /\ s \notin cut =>
                              \E i \in 2..Len(Lines[s]) : Lines[s][i] = accepted[k]
        <4>1. CASE accepted[k] = uplinked
          BY <1>1, <2>1, <2>6, <4>1
        <4>2. CASE accepted[k] # uplinked
          BY <2>3, <3>6, <4>2
        <4>3. QED
          BY <4>1, <4>2
      <3>7. VerdictInv(Lines)'
        BY <1>1, <2>2, <2>4, <3>2, <3>6 DEF VerdictInv
      <3>8. QED
        BY <3>3, <3>4, <3>5, <3>7 DEF AprsInv
    <2>7. CASE fd \notin cut
      <3>1. uplinked \in Text /\ flight' = Append(flight, uplinked)
        BY <1>1, <1>3, <2>7 DEF Text, Write
      <3>2. AprsTypeOK'
        <4>1. flight' \in Seq(Text)
          BY <1>1, <3>1, AppendFacts DEF AprsTypeOK
        <4>2. QED
          BY <1>1, <1>3, <2>5, <4>1 DEF AprsTypeOK, AprsReturn
      <3> DEFINE L == Lines[fd]
      <3>3. /\ Lines' = [Lines EXCEPT ![fd] = Append(L, uplinked)]
            /\ Lines \in [1..MaxSessions -> Seq(Text)] /\ L \in Seq(Text) /\ L # <<>>
        <4>1. L # <<>>
          BY <1>1, <2>7 DEF SessionInv
        <4>2. QED
          BY <1>1, <1>3, <3>1, <3>2, <4>1, LinesWritten, LinesType
      <3>4. \A s \in 1..MaxSessions : s # fd => Lines'[s] = Lines[s]
        BY <3>3
      <3>5. /\ Lines'[fd] = Append(L, uplinked) /\ Len(L) \in Nat /\ Len(L) >= 1
            /\ Len(Lines'[fd]) = Len(L) + 1 /\ Lines'[fd][Len(L) + 1] = uplinked
            /\ \A i \in 1..Len(L) : Lines'[fd][i] = L[i]
        <4>1. Lines'[fd] = Append(L, uplinked)
          BY <1>1, <3>3
        <4>2. Len(L) \in Nat /\ Len(L) >= 1
          BY <3>3
        <4>3. QED
          BY <3>1, <3>3, <4>1, <4>2, AppendFacts
      <3>6. SessionInv'
        <4>1. Lines'[fd] # <<>>
          BY <3>5
        <4>2. QED
          BY <1>1, <1>3, <2>7, <4>1 DEF SessionInv, AprsReturn
      <3>7. LinesInv(Lines)'
        <4>1. \A s \in 1..MaxSessions : s > fd => Lines[s] = <<>>
          <5>1. ASSUME NEW s \in 1..MaxSessions, s > fd
                PROVE  Lines[s] = <<>>
            <6>1. s # fd /\ server[s] = <<>>
              BY <1>1, <5>1 DEF SessionInv
            <6>2. QED
              BY <1>1, <6>1, LinesType
          <5>2. QED
            BY <5>1
        <4>2. LinesInv([Lines EXCEPT ![fd] = Append(Lines[fd], uplinked)])
          <5>1. IF Lines[fd] = <<>> THEN uplinked = "login"
                ELSE /\ accepted # <<>> /\ accepted[Len(accepted)] = uplinked
                     /\ \A s \in 1..MaxSessions : \A i \in 2..Len(Lines[s]) :
                           Lines[s][i] # uplinked
            BY <2>1, <2>2, <3>3
          <5>2. /\ LinesInv(Lines) /\ fd \in 1..MaxSessions /\ uplinked \in Text
                /\ Lines \in [1..MaxSessions -> Seq(Text)]
                /\ accepted \in Seq(Messages)
            BY <1>1, <2>1, <3>1, <3>3
          <5>3. QED
            BY <4>1, <5>1, <5>2, LongerLines
        <4>3. QED
          BY <1>1, <3>3, <4>2 DEF LinesInv, InThatOrder
      <3>8. VerdictInv(Lines)'
        <4>1. \A s \in 1..MaxSessions : \A i \in 2..Len(Lines'[s]) :
                  aprs_rc'[Lines'[s][i]] = "TE_ok"
          <5>1. ASSUME NEW s \in 1..MaxSessions, NEW i \in 2..Len(Lines'[s])
                PROVE  aprs_rc'[Lines'[s][i]] = "TE_ok"
            <6>1. CASE s = fd /\ i = Len(L) + 1
              BY <2>1, <3>5, <6>1
            <6>2. CASE s = fd /\ i # Len(L) + 1
              <7>1. i \in 2..Len(L) /\ i \in 1..Len(L)
                BY <3>5, <5>1, <6>2
              <7>2. QED
                BY <2>2, <3>5, <6>2, <7>1
            <6>3. CASE s # fd
              BY <2>2, <3>4, <6>3
            <6>4. QED
              BY <6>1, <6>2, <6>3
          <5>2. QED
            BY <5>1
        <4>2. ASSUME NEW k \in DOMAIN accepted, aprs_rc'[accepted[k]] = "TE_ok"
              PROVE  LET s == written'[accepted[k]]
                     IN  /\ s \in 1..sessions
                         /\ s \notin cut =>
                                \E i \in 2..Len(Lines'[s]) : Lines'[s][i] = accepted[k]
          <5>1. CASE accepted[k] = uplinked
            <6>1. Len(L) + 1 \in 2..Len(Lines'[fd])
              BY <3>5
            <6>2. QED
              BY <1>1, <2>1, <3>5, <5>1, <6>1
          <5>2. CASE accepted[k] # uplinked
            <6> DEFINE s == written'[accepted[k]]
            <6>1. s \in 1..sessions
              BY <2>3, <4>2, <5>2
            <6>2. ASSUME s \notin cut
                  PROVE  \E i \in 2..Len(Lines'[s]) : Lines'[s][i] = accepted[k]
              <7>1. PICK i \in 2..Len(Lines[s]) : Lines[s][i] = accepted[k]
                BY <2>3, <4>2, <5>2, <6>2
              <7>2. CASE s = fd
                <8>1. i \in 2..Len(Lines'[fd]) /\ i \in 1..Len(L)
                  BY <3>5, <7>1, <7>2
                <8>2. QED
                  BY <3>5, <7>1, <7>2, <8>1
              <7>3. CASE s # fd
                <8>1. s \in 1..MaxSessions
                  <9>1. sessions \in 1..MaxSessions
                    BY <1>1
                  <9>2. QED
                    BY <6>1, <9>1, AprsIsAssumption
                <8>2. QED
                  BY <3>4, <7>1, <7>3, <8>1
              <7>4. QED
                BY <7>2, <7>3
            <6>3. QED
              BY <6>1, <6>2
          <5>3. QED
            BY <5>1, <5>2
        <4>3. QED
          BY <1>1, <2>4, <4>1, <4>2 DEF VerdictInv
      <3>9. QED
        BY <3>2, <3>6, <3>7, <3>8 DEF AprsInv
    <2>8. QED
      BY <2>6, <2>7
  <1>4. QED
    BY <1>2, <1>3 DEF WritePayload

LEMMA ArriveKeeps ==
    ASSUME AprsInv, Arrive
    PROVE  AprsInv'
  <1>1. /\ AprsTypeOK /\ SessionInv /\ AprsTypeOK' /\ Lines' = Lines
        /\ fd # -1 /\ fd \notin cut /\ sessions \in Nat /\ fd \in 1..MaxSessions
        /\ fd = sessions
        /\ UNCHANGED <<aprs, uplinked, fd, sessions, cut, accepted, written, aprs_rc>>
    BY AprsIsAssumption, LinesArrived
       DEF AprsInv, AprsTypeOK, SessionInv, Arrive
  <1>2. \A s \in 1..MaxSessions : s > sessions => server'[s] = <<>>
    <2>1. ASSUME NEW s \in 1..MaxSessions, s > sessions
          PROVE  server'[s] = <<>>
      <3>1. s # fd /\ server[s] = <<>>
        BY <1>1, <2>1 DEF SessionInv
      <3>2. server'[s] = server[s]
        BY <3>1 DEF Arrive
      <3>3. QED
        BY <3>1, <3>2
    <2>2. QED
      BY <2>1
  <1>3. SessionInv'
    BY <1>1, <1>2 DEF SessionInv
  <1>4. LinesInv(Lines)' /\ VerdictInv(Lines)'
    <2>1. LinesInv(Lines) /\ VerdictInv(Lines)
      BY DEF AprsInv
    <2>2. QED
      BY <1>1, <2>1 DEF LinesInv, InThatOrder, VerdictInv
  <1>5. QED
    BY <1>1, <1>3, <1>4 DEF AprsInv

LEMMA CutKeeps ==
    ASSUME AprsInv, Cut
    PROVE  AprsInv'
  <1>1. /\ AprsTypeOK /\ SessionInv /\ AprsTypeOK' /\ fd \in 1..MaxSessions
        /\ Lines' = [Lines EXCEPT ![fd] = server[fd]]
        /\ Lines[fd] = server[fd] \o flight
        /\ Lines \in [1..MaxSessions -> Seq(Text)]
        /\ flight' = <<>> /\ cut' = cut \cup {fd}
        /\ UNCHANGED <<aprs, uplinked, fd, sessions, server, accepted, written,
                       aprs_rc>>
    BY LinesCut, LinesType DEF AprsInv, Cut
  <1>2. /\ server[fd] \in Seq(Text) /\ Len(server[fd]) <= Len(Lines[fd])
        /\ \A i \in 1..Len(server[fd]) : Lines[fd][i] = server[fd][i]
    <2>1. server[fd] \in Seq(Text) /\ flight \in Seq(Text)
      BY <1>1 DEF AprsTypeOK
    <2>2. QED
      BY <1>1, <2>1, ConcatFacts
  <1>3. \A s \in 1..MaxSessions : Lines'[s] = IF s = fd THEN server[fd] ELSE Lines[s]
    BY <1>1
  <1>4. Lines' \in [1..MaxSessions -> Seq(Text)] /\ Shorter(Lines', Lines)
    <2>1. Lines' \in [1..MaxSessions -> Seq(Text)]
      BY <1>1, <1>2
    <2>2. ASSUME NEW s \in 1..MaxSessions
          PROVE  /\ Len(Lines'[s]) <= Len(Lines[s])
                 /\ \A i \in 1..Len(Lines'[s]) : Lines'[s][i] = Lines[s][i]
      <3>1. CASE s = fd
        BY <1>2, <1>3, <3>1
      <3>2. CASE s # fd
        <4>1. Lines[s] \in Seq(Text) /\ Len(Lines[s]) \in Nat
          BY <1>1
        <4>2. QED
          BY <1>3, <3>2, <4>1
      <3>3. QED
        BY <3>1, <3>2
    <2>3. QED
      BY <2>1, <2>2 DEF Shorter
  <1>5. SessionInv'
    <2>1. Lines[fd] = <<>> => server[fd] = <<>>
      BY <1>2
    <2>2. Lines'[fd] = server[fd]
      BY <1>1, <1>3
    <2>3. QED
      BY <1>1, <2>1, <2>2 DEF SessionInv
  <1>6. LinesInv(Lines)'
    <2>1. LinesInv(Lines')
      BY <1>1, <1>4, ShorterLines DEF AprsInv
    <2>2. QED
      BY <1>1, <2>1 DEF LinesInv, InThatOrder
  <1>7. VerdictInv(Lines)'
    <2>1. VerdictInv(Lines)
      BY DEF AprsInv
    <2>2. ASSUME NEW s \in 1..MaxSessions, NEW i \in 2..Len(Lines'[s])
          PROVE  aprs_rc[Lines'[s][i]] = "TE_ok"
      <3>1. i \in 2..Len(Lines[s]) /\ Lines'[s][i] = Lines[s][i]
        <4>1. Len(Lines'[s]) \in Nat /\ Len(Lines[s]) \in Nat
          BY <1>1, <1>4
        <4>2. QED
          BY <1>4, <4>1 DEF Shorter
      <3>2. QED
        BY <2>1, <3>1 DEF VerdictInv
    <2>3. ASSUME NEW k \in DOMAIN accepted, aprs_rc[accepted[k]] = "TE_ok"
          PROVE  LET s == written[accepted[k]]
                 IN  /\ s \in 1..sessions
                     /\ s \notin cut' =>
                            \E i \in 2..Len(Lines'[s]) : Lines'[s][i] = accepted[k]
      <3>1. \A s \in 1..sessions : s \in 1..MaxSessions
        <4>1. sessions \in Nat /\ MaxSessions \in Nat /\ sessions <= MaxSessions
          BY <1>1, AprsIsAssumption DEF AprsTypeOK
        <4>2. QED
          BY <4>1
      <3>2. LET s == written[accepted[k]]
            IN  /\ s \in 1..sessions
                /\ s \notin cut => \E i \in 2..Len(Lines[s]) : Lines[s][i] = accepted[k]
        BY <2>1, <2>3 DEF VerdictInv
      <3>3. QED
        BY <1>1, <1>3, <3>1, <3>2
    <2>4. QED
      BY <1>1, <2>1, <2>2, <2>3 DEF VerdictInv
  <1>8. QED
    BY <1>1, <1>5, <1>6, <1>7 DEF AprsInv

\* Nothing happens at the uplink.
LEMMA AprsRests ==
    ASSUME AprsInv, UNCHANGED aprs_vars
    PROVE  AprsInv'
  <1>1. Lines' = Lines
    BY DEF aprs_vars, Lines
  <1>2. AprsTypeOK' /\ SessionInv'
    BY <1>1 DEF AprsInv, AprsTypeOK, SessionInv, aprs_vars
  <1>3. LinesInv(Lines) /\ VerdictInv(Lines)
    BY DEF AprsInv
  <1>4. LinesInv(Lines)' /\ VerdictInv(Lines)'
    BY <1>1, <1>3 DEF LinesInv, InThatOrder, VerdictInv, aprs_vars
  <1>5. QED
    BY <1>2, <1>4 DEF AprsInv

-----------------------------------------------------------------------------
(* MQTT.                                                                   *)

LEMMA OnAppend ==
    ASSUME NEW S, NEW s \in Seq(S), NEW x \in S
    PROVE  On(Append(s, x)) = On(s) \cup {x}
  <1>1. /\ DOMAIN s = 1..Len(s) /\ DOMAIN Append(s, x) = 1..(Len(s) + 1)
        /\ Len(s) \in Nat
        /\ \A i \in 1..Len(s) : Append(s, x)[i] = s[i]
        /\ Append(s, x)[Len(s) + 1] = x
    BY AppendFacts
  <1>2. \A i \in 1..(Len(s) + 1) : i \in 1..Len(s) \/ i = Len(s) + 1
    BY <1>1
  <1>3. ASSUME NEW y \in On(Append(s, x))
        PROVE  y \in On(s) \cup {x}
    BY <1>1, <1>2 DEF On
  <1>4. ASSUME NEW y \in On(s)
        PROVE  y \in On(Append(s, x))
    <2>1. PICK i \in 1..Len(s) : y = s[i]
      BY <1>1 DEF On
    <2>2. i \in 1..(Len(s) + 1) /\ Append(s, x)[i] = y
      BY <1>1, <2>1
    <2>3. QED
      BY <1>1, <2>2 DEF On
  <1>5. x \in On(Append(s, x))
    <2>1. Len(s) + 1 \in 1..(Len(s) + 1)
      BY <1>1
    <2>2. QED
      BY <1>1, <2>1 DEF On
  <1>6. QED
    BY <1>3, <1>4, <1>5

LEMMA MqttRests ==
    ASSUME MqttInv, UNCHANGED <<mqtt, published, outbox, raw, json, severed, mqtt_rc>>
    PROVE  MqttInv'
  <1>1. /\ UNCHANGED <<On(raw), On(json), Queued("raw"), Queued("json")>>
        /\ UNCHANGED <<mqtt, published, outbox, raw, json, severed, mqtt_rc>>
    BY DEF On, Queued
  <1>2. MqttTypeOK'
    BY DEF MqttInv, MqttTypeOK
  <1>3. RawFirst'
    BY <1>1 DEF MqttInv, RawFirst
  <1>4. BothTopicsOrError'
    BY <1>1 DEF MqttInv, BothTopicsOrError
  <1>5. QED
    BY <1>1, <1>2, <1>3, <1>4 DEF MqttInv, MqttFresh

LEMMA MqttPutKeeps ==
    ASSUME MqttInv, NEW m \in Messages, MqttFresh(m), MqttPut(m)
    PROVE  MqttInv'
  <1>1. /\ UNCHANGED <<On(raw), On(json), Queued("raw"), Queued("json")>>
        /\ UNCHANGED <<outbox, raw, json, severed, mqtt_rc>>
        /\ published' = m /\ mqtt' = "raw"
    BY DEF MqttPut, On, Queued
  <1>2. MqttTypeOK'
    BY <1>1 DEF MqttInv, MqttTypeOK
  <1>3. RawFirst'
    BY <1>1 DEF MqttInv, RawFirst
  <1>4. BothTopicsOrError'
    BY <1>1 DEF MqttInv, BothTopicsOrError
  <1>5. QED
    BY <1>1, <1>2, <1>3, <1>4 DEF MqttInv, MqttFresh

LEMMA QueuedAppend ==
    ASSUME outbox \in Seq(Publication), NEW t \in {"raw", "json"}, NEW p \in Messages,
           outbox' = Append(outbox, <<t, p>>)
    PROVE  /\ outbox' \in Seq(Publication) /\ Len(outbox) \in Nat
           /\ DOMAIN outbox = 1..Len(outbox) /\ DOMAIN outbox' = 1..(Len(outbox) + 1)
           /\ \A i \in 1..Len(outbox) : outbox'[i] = outbox[i]
           /\ outbox'[Len(outbox) + 1] = <<t, p>>
           /\ Queued(t)' = Queued(t) \cup {p}
           /\ \A u : u # t => Queued(u)' = Queued(u)
  <1>1. <<t, p>> \in Publication
    BY DEF Publication
  <1>2. /\ outbox' \in Seq(Publication) /\ Len(outbox) \in Nat
        /\ DOMAIN outbox = 1..Len(outbox) /\ DOMAIN outbox' = 1..(Len(outbox) + 1)
        /\ \A i \in 1..Len(outbox) : outbox'[i] = outbox[i]
        /\ outbox'[Len(outbox) + 1] = <<t, p>>
    BY <1>1
  <1>3. ASSUME NEW u, NEW m \in Messages
        PROVE  m \in Queued(u)' <=> m \in Queued(u) \/ <<u, m>> = <<t, p>>
    <2>1. ASSUME m \in Queued(u) PROVE m \in Queued(u)'
      <3>1. PICK i \in 1..Len(outbox) : outbox[i] = <<u, m>>
        BY <1>2, <2>1 DEF Queued
      <3>2. i \in DOMAIN outbox' /\ outbox'[i] = <<u, m>>
        BY <1>2, <3>1
      <3>3. QED
        BY <3>2 DEF Queued
    <2>2. ASSUME <<u, m>> = <<t, p>> PROVE m \in Queued(u)'
      <3>1. Len(outbox) + 1 \in DOMAIN outbox' /\ outbox'[Len(outbox) + 1] = <<u, m>>
        BY <1>2, <2>2
      <3>2. QED
        BY <3>1 DEF Queued
    <2>3. ASSUME m \in Queued(u)' PROVE m \in Queued(u) \/ <<u, m>> = <<t, p>>
      <3>1. PICK i \in 1..(Len(outbox) + 1) : outbox'[i] = <<u, m>>
        BY <1>2, <2>3 DEF Queued
      <3>2. i \in 1..Len(outbox) \/ i = Len(outbox) + 1
        BY <1>2
      <3>3. QED
        BY <1>2, <3>1, <3>2 DEF Queued
    <2>4. QED
      BY <2>1, <2>2, <2>3
  <1>4. \A u : Queued(u) \subseteq Messages /\ Queued(u)' \subseteq Messages
    BY DEF Queued
  <1>5. Queued(t)' = Queued(t) \cup {p}
    BY <1>3, <1>4
  <1>6. \A u : u # t => Queued(u)' = Queued(u)
    BY <1>3, <1>4
  <1>7. QED
    BY <1>2, <1>5, <1>6

\* What mosquitto_publish() does to what is published: a message is queued for
\* its topic, or it counts as lost.
LEMMA PublishDoes ==
    ASSUME MqttInv, NEW t \in {"raw", "json"}, Publish(t), published \in Messages,
           UNCHANGED <<raw, json, published>>,
           t = "json" /\ TopicOut => published \in On(raw) \cup Queued("raw") \cup severed
    PROVE  /\ outbox' \in Seq(Publication) /\ severed' \subseteq Messages /\ RawFirst'
           /\ UNCHANGED <<On(raw), On(json)>>
           /\ published \in Queued(t)' \cup severed'
           /\ severed \subseteq severed'
           /\ \A m : m # published => (m \in severed' <=> m \in severed)
           /\ \A u : Queued(u) \subseteq Queued(u)'
           /\ \A u : u # t => Queued(u)' = Queued(u)
           /\ Queued(t)' \subseteq Queued(t) \cup {published}
  <1>1. /\ outbox \in Seq(Publication) /\ severed \subseteq Messages /\ RawFirst
        /\ UNCHANGED <<On(raw), On(json)>>
    BY DEF MqttInv, MqttTypeOK, On
  <1>2. CASE broker # "up"
    <2>1. outbox' = outbox /\ severed' = severed \cup {published}
      BY <1>2 DEF Publish
    <2>2. \A u : Queued(u)' = Queued(u)
      BY <2>1 DEF Queued
    <2>3. RawFirst'
      BY <1>1, <2>1 DEF RawFirst
    <2>4. QED
      BY <1>1, <2>1, <2>2, <2>3
  <1>3. CASE broker = "up"
    <2>1. outbox' = Append(outbox, <<t, published>>) /\ severed' = severed
      BY <1>3 DEF Publish
    <2>2. /\ outbox' \in Seq(Publication) /\ Len(outbox) \in Nat
          /\ DOMAIN outbox = 1..Len(outbox) /\ DOMAIN outbox' = 1..(Len(outbox) + 1)
          /\ \A i \in 1..Len(outbox) : outbox'[i] = outbox[i]
          /\ outbox'[Len(outbox) + 1] = <<t, published>>
          /\ Queued(t)' = Queued(t) \cup {published}
          /\ \A u : u # t => Queued(u)' = Queued(u)
      BY <1>1, <2>1, QueuedAppend
    <2>3. ASSUME NEW j \in DOMAIN outbox', NEW m \in Messages, TopicOut,
                 outbox'[j] = <<"json", m>>
          PROVE  m \in On(raw) \cup severed \/ \E i \in 1..(j - 1) : outbox'[i] = <<"raw", m>>
      <3>1. CASE j \in 1..Len(outbox)
        <4>1. m \in On(raw) \cup severed \/ \E i \in 1..(j - 1) : outbox[i] = <<"raw", m>>
          BY <1>1, <2>2, <2>3, <3>1 DEF RawFirst
        <4>2. \A i \in 1..(j - 1) : i \in 1..Len(outbox)
          BY <2>2, <3>1
        <4>3. QED
          BY <2>2, <4>1, <4>2
      <3>2. CASE j = Len(outbox) + 1
        <4>1. t = "json" /\ m = published
          BY <2>2, <2>3, <3>2
        <4>2. CASE m \in Queued("raw")
          <5>1. PICK i \in 1..Len(outbox) : outbox[i] = <<"raw", m>>
            BY <2>2, <4>2 DEF Queued
          <5>2. i \in 1..(j - 1) /\ outbox'[i] = <<"raw", m>>
            BY <2>2, <3>2, <5>1
          <5>3. QED
            BY <5>2
        <4>3. QED
          BY <2>3, <4>1, <4>2
      <3>3. QED
        BY <2>2, <3>1, <3>2
    <2>4. RawFirst'
      BY <1>1, <2>1, <2>3 DEF RawFirst
    <2>5. QED
      BY <1>1, <2>1, <2>2, <2>4
  <1>4. QED
    BY <1>2, <1>3

LEMMA NotPublishedDoes ==
    ASSUME MqttInv, NotPublished, UNCHANGED <<raw, json, published>>
    PROVE  /\ outbox' \in Seq(Publication) /\ severed' \subseteq Messages /\ RawFirst'
           /\ UNCHANGED <<On(raw), On(json), severed>>
           /\ \A u : Queued(u)' = Queued(u)
  <1>1. UNCHANGED <<raw, json, outbox, severed>>
    BY DEF NotPublished
  <1>2. UNCHANGED <<On(raw), On(json), severed>> /\ \A u : Queued(u)' = Queued(u)
    BY <1>1 DEF On, Queued
  <1>3. RawFirst'
    BY <1>1, <1>2 DEF MqttInv, RawFirst
  <1>4. QED
    BY <1>1, <1>2, <1>3 DEF MqttInv, MqttTypeOK

\* The caller hears one thing of one message.
LEMMA MqttReturns ==
    ASSUME MqttInv, published \in Messages, NEW rc \in {"TE_hardware", "TE_ok"}, MqttReturn(rc)
    PROVE  /\ mqtt' = "idle"
           /\ mqtt_rc' \in [Messages -> {"none", "TE_hardware", "TE_ok"}]
           /\ mqtt_rc'[published] = rc
           /\ \A m \in Messages : m # published => mqtt_rc'[m] = mqtt_rc[m]
  BY DEF MqttInv, MqttTypeOK, MqttReturn

LEMMA PublishRawKeeps ==
    ASSUME MqttInv, PublishRaw
    PROVE  MqttInv'
  <1>1. /\ MqttTypeOK /\ BothTopicsOrError /\ published \in Messages
        /\ MqttFresh(published) /\ mqtt = "raw"
        /\ UNCHANGED <<raw, json, published>>
    BY DEF MqttInv, PublishRaw
  <1>2. CASE MqttReturn("TE_hardware") /\ NotPublished
    <2>1. /\ outbox' \in Seq(Publication) /\ severed' \subseteq Messages /\ RawFirst'
          /\ UNCHANGED <<On(raw), On(json), severed>>
          /\ \A u : Queued(u)' = Queued(u)
      BY <1>1, <1>2, NotPublishedDoes
    <2>2. /\ mqtt' = "idle"
          /\ mqtt_rc' \in [Messages -> {"none", "TE_hardware", "TE_ok"}]
          /\ mqtt_rc'[published] = "TE_hardware"
          /\ \A m \in Messages : m # published => mqtt_rc'[m] = mqtt_rc[m]
      BY <1>1, <1>2, MqttReturns
    <2>3. BothTopicsOrError'
      BY <1>1, <2>1, <2>2 DEF BothTopicsOrError, MqttFresh
    <2>4. MqttTypeOK'
      BY <1>1, <2>1, <2>2 DEF MqttTypeOK
    <2>5. QED
      BY <2>1, <2>2, <2>3, <2>4 DEF MqttInv
  <1>3. CASE mqtt' = "json" /\ UNCHANGED mqtt_rc /\ TopicOut /\ Publish("raw")
    <2>1. /\ outbox' \in Seq(Publication) /\ severed' \subseteq Messages /\ RawFirst'
          /\ UNCHANGED <<On(raw), On(json)>>
          /\ published \in Queued("raw")' \cup severed'
          /\ severed \subseteq severed'
          /\ \A u : Queued(u) \subseteq Queued(u)'
          /\ Queued("json")' = Queued("json")
      BY <1>1, <1>3, PublishDoes
    <2>2. BothTopicsOrError'
      BY <1>1, <1>3, <2>1 DEF BothTopicsOrError
    <2>3. MqttTypeOK'
      BY <1>1, <1>3, <2>1 DEF MqttTypeOK
    <2>4. MqttFresh(published)'
      BY <1>1, <1>3, <2>1 DEF MqttFresh
    <2>5. QED
      BY <1>1, <1>3, <2>1, <2>2, <2>3, <2>4 DEF MqttInv
  <1>4. CASE mqtt' = "json" /\ UNCHANGED mqtt_rc /\ ~TopicOut /\ NotPublished
    <2>1. /\ outbox' \in Seq(Publication) /\ severed' \subseteq Messages /\ RawFirst'
          /\ UNCHANGED <<On(raw), On(json), severed>>
          /\ \A u : Queued(u)' = Queued(u)
      BY <1>1, <1>4, NotPublishedDoes
    <2>2. BothTopicsOrError'
      BY <1>4 DEF BothTopicsOrError
    <2>3. MqttTypeOK'
      BY <1>1, <1>4, <2>1 DEF MqttTypeOK
    <2>4. MqttFresh(published)'
      BY <1>1, <1>4, <2>1 DEF MqttFresh
    <2>5. QED
      BY <1>1, <1>4, <2>1, <2>2, <2>3, <2>4 DEF MqttInv
  <1>5. QED
    BY <1>2, <1>3, <1>4 DEF PublishRaw

LEMMA PublishJsonKeeps ==
    ASSUME MqttInv, PublishJson
    PROVE  MqttInv'
  <1>1. /\ MqttTypeOK /\ BothTopicsOrError /\ published \in Messages
        /\ MqttFresh(published) /\ mqtt = "json"
        /\ TopicOut => published \in On(raw) \cup Queued("raw") \cup severed
        /\ UNCHANGED <<raw, json, published>>
    BY DEF MqttInv, PublishJson
  <1>2. CASE MqttReturn("TE_hardware") /\ NotPublished
    <2>1. /\ outbox' \in Seq(Publication) /\ severed' \subseteq Messages /\ RawFirst'
          /\ UNCHANGED <<On(raw), On(json), severed>>
          /\ \A u : Queued(u)' = Queued(u)
      BY <1>1, <1>2, NotPublishedDoes
    <2>2. /\ mqtt' = "idle"
          /\ mqtt_rc' \in [Messages -> {"none", "TE_hardware", "TE_ok"}]
          /\ mqtt_rc'[published] = "TE_hardware"
          /\ \A m \in Messages : m # published => mqtt_rc'[m] = mqtt_rc[m]
      BY <1>1, <1>2, MqttReturns
    <2>3. BothTopicsOrError'
      BY <1>1, <2>1, <2>2 DEF BothTopicsOrError, MqttFresh
    <2>4. MqttTypeOK'
      BY <1>1, <2>1, <2>2 DEF MqttTypeOK
    <2>5. QED
      BY <2>1, <2>2, <2>3, <2>4 DEF MqttInv
  <1>3. CASE MqttReturn("TE_ok") /\ TopicOutJson /\ Publish("json")
    <2>1. /\ outbox' \in Seq(Publication) /\ severed' \subseteq Messages /\ RawFirst'
          /\ UNCHANGED <<On(raw), On(json)>>
          /\ published \in Queued("json")' \cup severed'
          /\ severed \subseteq severed'
          /\ \A m : m # published => (m \in severed' <=> m \in severed)
          /\ \A u : Queued(u) \subseteq Queued(u)'
          /\ Queued("raw")' = Queued("raw")
          /\ Queued("json")' \subseteq Queued("json") \cup {published}
      BY <1>1, <1>3, PublishDoes
    <2>2. /\ mqtt' = "idle"
          /\ mqtt_rc' \in [Messages -> {"none", "TE_hardware", "TE_ok"}]
          /\ mqtt_rc'[published] = "TE_ok"
          /\ \A m \in Messages : m # published => mqtt_rc'[m] = mqtt_rc[m]
      BY <1>1, <1>3, MqttReturns
    <2>3. BothTopicsOrError'
      <3>1. ASSUME NEW m \in Messages, TopicOut, mqtt_rc'[m] = "TE_ok", m \notin severed'
            PROVE  /\ m \in On(raw) \cup Queued("raw")
                   /\ m \in On(json) \cup Queued("json")'
        <4>1. CASE m = published
          BY <1>1, <2>1, <3>1, <4>1
        <4>2. CASE m # published
          BY <1>1, <1>3, <2>1, <2>2, <3>1, <4>2 DEF BothTopicsOrError
        <4>3. QED
          BY <4>1, <4>2
      <3>2. ASSUME NEW m \in Messages, TopicOut, mqtt_rc'[m] = "TE_hardware"
            PROVE  m \notin On(json) \cup Queued("json")'
        BY <1>1, <1>3, <2>1, <2>2, <3>2 DEF BothTopicsOrError
      <3>3. ASSUME NEW m \in Messages, TopicOut, m \in On(json), m \notin severed'
            PROVE  m \in On(raw)
        BY <1>1, <1>3, <2>1, <3>3 DEF BothTopicsOrError
      <3>4. QED
        BY <2>1, <3>1, <3>2, <3>3 DEF BothTopicsOrError
    <2>4. MqttTypeOK'
      BY <1>1, <2>1, <2>2 DEF MqttTypeOK
    <2>5. QED
      BY <2>1, <2>2, <2>3, <2>4 DEF MqttInv
  <1>4. CASE MqttReturn("TE_ok") /\ ~TopicOutJson /\ NotPublished
    <2>1. /\ outbox' \in Seq(Publication) /\ severed' \subseteq Messages /\ RawFirst'
      BY <1>1, <1>4, NotPublishedDoes
    <2>2. /\ mqtt' = "idle"
          /\ mqtt_rc' \in [Messages -> {"none", "TE_hardware", "TE_ok"}]
      BY <1>1, <1>4, MqttReturns
    <2>3. BothTopicsOrError'
      BY <1>4 DEF BothTopicsOrError
    <2>4. MqttTypeOK'
      BY <1>1, <2>1, <2>2 DEF MqttTypeOK
    <2>5. QED
      BY <2>1, <2>2, <2>3, <2>4 DEF MqttInv
  <1>5. QED
    BY <1>2, <1>3, <1>4 DEF PublishJson

\* The head of the queue.
LEMMA OutboxHead ==
    ASSUME outbox \in Seq(Publication), outbox # <<>>, outbox' = Tail(outbox)
    PROVE  /\ outbox' \in Seq(Publication)
           /\ Head(outbox) = outbox[1] /\ 1 \in DOMAIN outbox /\ outbox[1] \in Publication
           /\ \A i \in DOMAIN outbox' : /\ i \in Nat \ {0} /\ i + 1 \in DOMAIN outbox
                                        /\ outbox'[i] = outbox[i + 1]
           /\ \A i \in DOMAIN outbox : i = 1 \/ (i - 1 \in DOMAIN outbox'
                                                /\ outbox'[i - 1] = outbox[i])
           /\ \A u : Queued(u)' \subseteq Queued(u)
           /\ \A u, m : m \in Queued(u) => m \in Queued(u)' \/ outbox[1] = <<u, m>>
  <1>1. /\ outbox' \in Seq(Publication)
        /\ Head(outbox) = outbox[1] /\ 1 \in DOMAIN outbox /\ outbox[1] \in Publication
        /\ \A i \in DOMAIN outbox' : /\ i \in Nat \ {0} /\ i + 1 \in DOMAIN outbox
                                     /\ outbox'[i] = outbox[i + 1]
    OBVIOUS
  <1>2. \A i \in DOMAIN outbox : i = 1 \/ (i - 1 \in DOMAIN outbox' /\ outbox'[i - 1] = outbox[i])
    OBVIOUS
  <1>3. \A u : Queued(u)' \subseteq Queued(u)
    BY <1>1 DEF Queued
  <1>4. ASSUME NEW u, NEW m \in Queued(u)
        PROVE  m \in Queued(u)' \/ outbox[1] = <<u, m>>
    <2>1. PICK i \in DOMAIN outbox : outbox[i] = <<u, m>>
      BY <1>4 DEF Queued
    <2>2. m \in Messages
      BY <1>4 DEF Queued
    <2>3. QED
      BY <1>2, <2>1, <2>2 DEF Queued
  <1>5. QED
    BY <1>1, <1>2, <1>3, <1>4

LEMMA DeliverKeeps ==
    ASSUME MqttInv, Deliver
    PROVE  /\ MqttInv'
           /\ \A m \in Messages : MqttFresh(m) => MqttFresh(m)'
  <1>1. /\ MqttTypeOK /\ BothTopicsOrError /\ RawFirst
        /\ UNCHANGED <<mqtt, published, broker, severed, mqtt_rc>>
        /\ outbox # <<>> /\ outbox' = Tail(outbox) /\ outbox \in Seq(Publication)
    BY DEF MqttInv, MqttTypeOK, Deliver
  <1>2. /\ outbox' \in Seq(Publication)
        /\ Head(outbox) = outbox[1] /\ 1 \in DOMAIN outbox /\ outbox[1] \in Publication
        /\ \A i \in DOMAIN outbox' : /\ i \in Nat \ {0} /\ i + 1 \in DOMAIN outbox
                                     /\ outbox'[i] = outbox[i + 1]
        /\ \A i \in DOMAIN outbox : i = 1 \/ (i - 1 \in DOMAIN outbox'
                                             /\ outbox'[i - 1] = outbox[i])
        /\ \A u : Queued(u)' \subseteq Queued(u)
        /\ \A u, m : m \in Queued(u) => m \in Queued(u)' \/ outbox[1] = <<u, m>>
    BY <1>1, OutboxHead
  <1>3. PICK t \in {"raw", "json"}, x \in Messages : outbox[1] = <<t, x>>
    BY <1>2 DEF Publication
  <1>4. /\ raw' = IF t = "raw" THEN Append(raw, x) ELSE raw
        /\ json' = IF t = "json" THEN Append(json, x) ELSE json
    BY <1>2, <1>3 DEF Deliver
  <1>5. /\ raw' \in Seq(Messages) /\ json' \in Seq(Messages)
        /\ On(raw)' = On(raw) \cup {m \in {x} : t = "raw"}
        /\ On(json)' = On(json) \cup {m \in {x} : t = "json"}
    <2>1. raw \in Seq(Messages) /\ json \in Seq(Messages)
      BY <1>1 DEF MqttTypeOK
    <2>2. On(raw)' = On(raw') /\ On(json)' = On(json')
      BY DEF On
    <2>3. /\ On(Append(raw, x)) = On(raw) \cup {x} /\ Append(raw, x) \in Seq(Messages)
          /\ On(Append(json, x)) = On(json) \cup {x} /\ Append(json, x) \in Seq(Messages)
      BY <1>3, <2>1, OnAppend, AppendFacts
    <2>4. QED
      BY <1>3, <1>4, <2>1, <2>2, <2>3
  <1>6. x \in Queued(t)
    BY <1>2, <1>3 DEF Queued
  <1>7. /\ \A m : m \in Queued("raw") => m \in Queued("raw")' \cup On(raw)'
        /\ \A m : m \in Queued("json") => m \in Queued("json")' \cup On(json)'
    BY <1>2, <1>3, <1>5
  <1>8. On(json)' \cup Queued("json")' \subseteq On(json) \cup Queued("json")
    BY <1>2, <1>5, <1>6
  <1>9. \A m \in Messages : MqttFresh(m) => MqttFresh(m)'
    BY <1>1, <1>8 DEF MqttFresh
  <1>10. BothTopicsOrError'
    <2>1. ASSUME t = "json", TopicOut, x \notin severed PROVE x \in On(raw)
      <3>1. x \in On(raw) \cup severed \/ \E i \in 1..(1 - 1) : outbox[i] = <<"raw", x>>
        BY <1>1, <1>2, <1>3, <2>1 DEF RawFirst
      <3>2. 1..(1 - 1) = {}
        OBVIOUS
      <3>3. QED
        BY <2>1, <3>1, <3>2
    <2>2. ASSUME NEW m \in Messages, TopicOut, TopicOutJson
          PROVE  /\ mqtt_rc[m] = "TE_ok" /\ m \notin severed =>
                       /\ m \in On(raw)' \cup Queued("raw")'
                       /\ m \in On(json)' \cup Queued("json")'
                 /\ mqtt_rc[m] = "TE_hardware" => m \notin On(json)' \cup Queued("json")'
                 /\ m \in On(json)' \ severed => m \in On(raw)'
      BY <1>1, <1>5, <1>7, <1>8, <2>1, <2>2 DEF BothTopicsOrError
    <2>3. QED
      BY <1>1, <2>2 DEF BothTopicsOrError
  <1>11. RawFirst'
    <2>1. ASSUME NEW j \in DOMAIN outbox', NEW m \in Messages, TopicOut,
                 outbox'[j] = <<"json", m>>
          PROVE  m \in On(raw)' \cup severed
                 \/ \E i \in 1..(j - 1) : outbox'[i] = <<"raw", m>>
      <3>1. /\ j \in Nat \ {0} /\ j + 1 \in DOMAIN outbox
            /\ outbox[j + 1] = <<"json", m>> /\ j + 1 - 1 = j
        BY <1>2, <2>1
      <3>2. m \in On(raw) \cup severed \/ \E i \in 1..j : outbox[i] = <<"raw", m>>
        <4>1. ASSUME NEW k \in DOMAIN outbox, outbox[k] = <<"json", m>>
              PROVE  m \in On(raw) \cup severed
                     \/ \E i \in 1..(k - 1) : outbox[i] = <<"raw", m>>
          BY <1>1, <2>1, <4>1 DEF RawFirst
        <4>2. m \in On(raw) \cup severed
              \/ \E i \in 1..(j + 1 - 1) : outbox[i] = <<"raw", m>>
          BY <3>1, <4>1
        <4>3. QED
          BY <3>1, <4>2
      <3>3. ASSUME NEW i \in 1..j, outbox[i] = <<"raw", m>>
            PROVE  m \in On(raw)' \/ \E k \in 1..(j - 1) : outbox'[k] = <<"raw", m>>
        <4>1. CASE i = 1
          BY <1>3, <1>5, <3>3, <4>1
        <4>2. CASE i # 1
          <5>1. i \in DOMAIN outbox
            <6>1. DOMAIN outbox = 1..Len(outbox) /\ Len(outbox) \in Nat
              BY <1>1
            <6>2. QED
              BY <3>1, <3>3, <6>1
          <5>2. i - 1 \in 1..(j - 1) /\ outbox'[i - 1] = <<"raw", m>>
            BY <1>2, <3>1, <3>3, <4>2, <5>1
          <5>3. QED
            BY <5>2
        <4>3. QED
          BY <4>1, <4>2
      <3>4. QED
        BY <1>5, <3>2, <3>3
    <2>2. QED
      BY <1>1, <2>1 DEF RawFirst
  <1>12. MqttTypeOK'
    BY <1>1, <1>2, <1>5 DEF MqttTypeOK
  <1>13. mqtt' = "json" /\ TopicOut =>
             published' \in On(raw)' \cup Queued("raw")' \cup severed'
    BY <1>1, <1>5, <1>7 DEF MqttInv
  <1>14. mqtt' # "idle" => published' \in Messages /\ MqttFresh(published)'
    BY <1>1, <1>9 DEF MqttInv, MqttFresh
  <1>15. QED
    BY <1>9, <1>10, <1>11, <1>12, <1>13, <1>14 DEF MqttInv

LEMMA BrokerGoneKeeps ==
    ASSUME MqttInv, BrokerGone
    PROVE  /\ MqttInv'
           /\ \A m \in Messages : MqttFresh(m) => MqttFresh(m)'
  <1>1. /\ MqttTypeOK /\ BothTopicsOrError
        /\ UNCHANGED <<mqtt, published, raw, json, mqtt_rc, On(raw), On(json)>>
        /\ outbox' = <<>> /\ severed' = severed \cup Queued("raw") \cup Queued("json")
    BY DEF MqttInv, BrokerGone, On
  <1>2. /\ DOMAIN outbox' = {} /\ outbox' \in Seq(Publication)
        /\ Queued("raw")' = {} /\ Queued("json")' = {}
        /\ Queued("raw") \subseteq Messages /\ Queued("json") \subseteq Messages
    BY <1>1 DEF Queued
  <1>3. MqttTypeOK'
    BY <1>1, <1>2 DEF MqttTypeOK
  <1>4. RawFirst'
    BY <1>2 DEF RawFirst
  <1>5. BothTopicsOrError'
    BY <1>1, <1>2 DEF BothTopicsOrError
  <1>6. \A m \in Messages : MqttFresh(m) => MqttFresh(m)'
    BY <1>1, <1>2 DEF MqttFresh
  <1>7. mqtt' # "idle" => published' \in Messages /\ MqttFresh(published)'
    BY <1>1, <1>6 DEF MqttInv, MqttFresh
  <1>8. QED
    BY <1>1, <1>3, <1>4, <1>5, <1>6, <1>7 DEF MqttInv

\* What MQTT does to one message does nothing to another.
LEMMA MqttOthers ==
    ASSUME MqttInv, NEW m \in Messages, MqttFresh(m), m # published,
           PublishRaw \/ PublishJson
    PROVE  MqttFresh(m)'
  <1>1. /\ published \in Messages /\ UNCHANGED <<raw, json, published, On(json)>>
        /\ mqtt_rc \in [Messages -> {"none", "TE_hardware", "TE_ok"}]
        /\ mqtt = "json" /\ TopicOut => published \in On(raw) \cup Queued("raw") \cup severed
        /\ mqtt = "json" \/ PublishRaw
    BY DEF MqttInv, MqttTypeOK, PublishRaw, PublishJson, On
  <1>2. mqtt_rc'[m] = "none"
    BY <1>1 DEF MqttFresh, PublishRaw, PublishJson, MqttReturn
  <1>3. m \notin Queued("json")'
    <2>1. NotPublished \/ (Publish("raw") /\ PublishRaw) \/ (Publish("json") /\ PublishJson)
      BY DEF PublishRaw, PublishJson
    <2>2. CASE NotPublished
      BY <1>1, <2>2, NotPublishedDoes DEF MqttFresh
    <2>3. CASE Publish("raw")
      <3>1. Queued("json")' = Queued("json")
        BY <1>1, <2>3, PublishDoes
      <3>2. QED
        BY <3>1 DEF MqttFresh
    <2>4. CASE Publish("json") /\ PublishJson
      <3>1. mqtt = "json"
        BY <2>4 DEF PublishJson
      <3>2. Queued("json")' \subseteq Queued("json") \cup {published}
        BY <1>1, <2>4, <3>1, PublishDoes
      <3>3. QED
        BY <3>2 DEF MqttFresh
    <2>5. QED
      BY <2>1, <2>2, <2>3, <2>4
  <1>4. QED
    BY <1>1, <1>2, <1>3 DEF MqttFresh

-----------------------------------------------------------------------------
(* The page and what it counts.                                            *)

LEMMA PageFacts ==
    /\ Len(Page) = 8 /\ DOMAIN Page = 1..8
    /\ Page[1] = "discarded" /\ Page[2] = "packets" /\ Page[3] = "total"
    /\ Page[4] = "heard" /\ Page[5] = "air" /\ Page[6] = "to"
    /\ Page[7] = "protocol" /\ Page[8] = "heat"
  BY DEF Page

LEMMA PageElements ==
    /\ \A i, j \in 1..8 : Page[i] = Page[j] => i = j
    /\ Tables = {"packets", "total", "heard", "air", "to", "protocol", "heat"}
    /\ ToSet(Page) = Tables \cup {"discarded"}
    /\ \A q : q \in Tables <=> \E i \in 2..8 : q = Page[i]
    /\ \A q : q \in ToSet(Page) <=> \E i \in 1..8 : q = Page[i]
  <1>1. \A i \in 1..8 : i = 1 \/ i = 2 \/ i = 3 \/ i = 4 \/ i = 5 \/ i = 6 \/ i = 7 \/ i = 8
    OBVIOUS
  <1>2. \A i, j \in 1..8 : Page[i] = Page[j] => i = j
    BY <1>1, PageFacts
  <1>3. \A q : q \in Tables <=> \E i \in 2..8 : q = Page[i]
    BY PageFacts DEF Tables
  <1>4. \A q : q \in ToSet(Page) <=> \E i \in 1..8 : q = Page[i]
    BY PageFacts DEF ToSet
  <1>5. Tables = {"packets", "total", "heard", "air", "to", "protocol", "heat"}
    <2>1. \A i \in 2..8 : i = 2 \/ i = 3 \/ i = 4 \/ i = 5 \/ i = 6 \/ i = 7 \/ i = 8
      OBVIOUS
    <2>2. /\ 2 \in 2..8 /\ 3 \in 2..8 /\ 4 \in 2..8 /\ 5 \in 2..8
          /\ 6 \in 2..8 /\ 7 \in 2..8 /\ 8 \in 2..8
      OBVIOUS
    <2>3. \A q : q \in Tables <=> q \in {"packets", "total", "heard", "air", "to",
                                         "protocol", "heat"}
      BY <1>3, <2>1, <2>2, PageFacts
    <2>4. QED
      BY <2>3
  <1>6. ToSet(Page) = Tables \cup {"discarded"}
    <2>1. \A i \in 1..8 : i = 1 \/ i \in 2..8
      OBVIOUS
    <2>2. 1 \in 1..8 /\ \A i \in 2..8 : i \in 1..8
      OBVIOUS
    <2>3. \A q : q \in ToSet(Page) <=> q \in Tables \/ q = "discarded"
      BY <1>3, <1>4, <2>1, <2>2, PageFacts
    <2>4. QED
      BY <2>3
  <1>7. QED
    BY <1>2, <1>3, <1>4, <1>5, <1>6

\* A page only goes forward.
LEMMA PageGoesOn ==
    ASSUME NEW i \in 1..8
    PROVE  /\ After(Page[i]) = IF i = 8 THEN "linked" ELSE Page[i + 1]
           /\ After(Page[i]) \in Tables \cup {"linked"}
           /\ \A k \in 1..8 : After(Page[i]) = Page[k] => i < k
           /\ Skip(Page[i]) \in Tables \cup {"linked"}
           /\ \A k \in 1..8 : Skip(Page[i]) = Page[k] => i < k
  <1>1. (CHOOSE j \in DOMAIN Page : Page[j] = Page[i]) = i
    BY PageFacts, PageElements
  <1>2. After(Page[i]) = IF i = 8 THEN "linked" ELSE Page[i + 1]
    BY <1>1, PageFacts DEF After
  <1>3. i # 8 => i + 1 \in 2..8 /\ i + 1 \in 1..8
    OBVIOUS
  <1>4. After(Page[i]) \in Tables \cup {"linked"}
    BY <1>2, <1>3, PageElements
  <1>5. \A k \in 1..8 : Page[k] # "linked"
    BY PageElements
  <1>6. \A k \in 1..8 : After(Page[i]) = Page[k] => i < k
    BY <1>2, <1>3, <1>5, PageElements
  <1>7. CASE Page[i] \in {"packets", "total"}
    <2>1. i = 2 \/ i = 3
      <3>1. 2 \in 1..8 /\ 3 \in 1..8
        OBVIOUS
      <3>2. QED
        BY <1>7, <3>1, PageFacts, PageElements
    <2>2. Skip(Page[i]) = Page[4] /\ 4 \in 1..8
      BY <1>7, PageFacts DEF Skip
    <2>3. \A k \in 1..8 : Skip(Page[i]) = Page[k] => k = 4
      BY <2>2, PageElements
    <2>4. Skip(Page[i]) \in Tables
      BY <2>2, PageFacts, PageElements
    <2>5. QED
      BY <1>2, <1>4, <1>6, <2>1, <2>3, <2>4
  <1>8. CASE Page[i] \notin {"packets", "total"}
    BY <1>2, <1>4, <1>6, <1>8 DEF Skip
  <1>9. QED
    BY <1>7, <1>8

\* A set that is enumerated by a sequence has no more elements than it.
LEMMA NoMoreThan ==
    ASSUME NEW T, NEW n \in Nat, NEW f, f \in [1..n -> T],
           \A t \in T : \E i \in 1..n : f[i] = t
    PROVE  IsFiniteSet(T) /\ Cardinality(T) \in Nat /\ Cardinality(T) <= n
  <1>1. f \in Surjection(1..n, T)
    BY DEF Surjection
  <1>2. ExistsSurjection(1..n, T)
    BY <1>1 DEF ExistsSurjection
  <1>3. QED
    BY <1>2, FS_NatSurjection, FS_SurjCardinalityBound, FS_CardinalityType

LEMMA ElementsFinite ==
    ASSUME NEW S, NEW s \in Seq(S)
    PROVE  IsFiniteSet({s[i] : i \in DOMAIN s})
  <1> DEFINE n == Len(s)
             T == {s[i] : i \in DOMAIN s}
             f == [i \in 1..n |-> s[i]]
  <1>1. n \in Nat /\ f \in [1..n -> T] /\ \A t \in T : \E i \in 1..n : f[i] = t
    OBVIOUS
  <1> HIDE DEF n, T, f
  <1>2. IsFiniteSet(T)
    BY <1>1, NoMoreThan
  <1>3. QED
    BY <1>2 DEF T

LEMMA RecordsFinite ==
    ASSUME DbTypeOK
    PROVE  /\ IsFiniteSet(Records) /\ Len(stored) \in Nat
           /\ \A row : /\ IsFiniteSet(InRow(row))
                       /\ Cardinality(InRow(row)) \in Nat
           /\ \A q : Counted(q) \in Nat /\ Counted(q) <= Len(stored)
           /\ \A q : q # "packets" => Counted(q) = Len(stored)
  <1>1. /\ stored \in Seq(Messages \X (0..MaxTime)) /\ Len(stored) \in Nat
        /\ DOMAIN stored = 1..Len(stored)
    BY DEF DbTypeOK
  <1> DEFINE n == Len(stored)
             T == {Raw[r[1]] : r \in Records}
             g == [i \in 1..n |-> Raw[stored[i][1]]]
  <1>2. IsFiniteSet(Records)
    BY <1>1, ElementsFinite DEF Records
  <1>3. /\ g \in [1..n -> T]
        /\ \A t \in T : \E i \in 1..n : g[i] = t
    BY <1>1 DEF Records
  <1>4. n \in Nat
    BY <1>1
  <1> HIDE DEF n, T, g
  <1>5. Cardinality(T) \in Nat /\ Cardinality(T) <= n
    BY <1>4, <1>3, NoMoreThan
  <1>6. ASSUME NEW row
        PROVE  IsFiniteSet(InRow(row)) /\ Cardinality(InRow(row)) \in Nat
    <2>1. InRow(row) \in SUBSET Records
      BY DEF InRow
    <2>2. QED
      BY <1>2, <2>1, FS_Subset, FS_CardinalityType
  <1>7. ASSUME NEW q
        PROVE  /\ Counted(q) \in Nat /\ Counted(q) <= n
               /\ q # "packets" => Counted(q) = n
    BY <1>4, <1>5 DEF Counted, n, T
  <1>8. QED
    BY <1>1, <1>2, <1>6, <1>7 DEF n

LEMMA AirTimeCounts ==
    ASSUME DbTypeOK
    PROVE  /\ AirTime \in [Calls \X Dates -> Nat]
           /\ \A row \in Calls \X Dates : AirTime[row] = Cardinality(InRow(row))
  BY RecordsFinite DEF AirTime, InRow

-----------------------------------------------------------------------------
(* What a step of the database leaves alone.                               *)

\* The client m_c is dead only while somebody makes another.
LEMMA FetchKeepsClient ==
    ASSUME DbTypeOK, ClientInv, NEW u \in Users, NEW q, Fetch(u, q),
           at[u] \notin {"delete", "new"},
           UNCHANGED <<client, deleted, crashed>>
    PROVE  ClientInv'
  <1>1. SUFFICES ASSUME ~overlap'
                 PROVE  /\ ~crashed
                        /\ client \in deleted => \E w \in Users : at'[w] = "new"
                        /\ \A w \in Users : InQuery(w)' => using'[w] \notin deleted
    BY DEF ClientInv
  <1>2. ~overlap /\ \A w \in Users : w # u => at[w] \notin {"delete", "new"}
    BY <1>1 DEF Fetch
  <1>3. ~crashed /\ client \notin deleted
    BY <1>2 DEF ClientInv
  <1>4. ASSUME NEW w \in Users, InQuery(w)'
        PROVE  using'[w] \notin deleted
    <2>1. CASE w = u
      BY <1>3, <2>1 DEF Fetch, DbTypeOK
    <2>2. CASE w # u
      <3>1. at'[w] = at[w] /\ using'[w] = using[w]
        BY <2>2 DEF Fetch, DbTypeOK
      <3>2. InQuery(w)
        BY <1>4, <3>1 DEF InQuery
      <3>3. QED
        BY <1>2, <3>1, <3>2 DEF ClientInv
    <2>3. QED
      BY <2>1, <2>2
  <1>5. QED
    BY <1>3, <1>4

\* A query ends, and nobody begins with one.
LEMMA LeavingKeepsClient ==
    ASSUME ClientInv, UNCHANGED <<client, deleted, using, overlap, crashed>>,
           \A w \in Users : InQuery(w)' => InQuery(w),
           \A w \in Users : at[w] = "new" => at'[w] = "new"
    PROVE  ClientInv'
  BY DEF ClientInv

\* What is on a page, when the page does not go back.
LEMMA PageRests ==
    ASSUME PageInv, DbTypeOK, UNCHANGED table,
           Len(stored') \in Nat, Len(stored') >= Len(stored),
           \A v \in Visitors : \A i \in 1..8 :
               Pos(v)' = Page[i] => \E k \in 1..8 : k <= i /\ Pos(v) = Page[k]
    PROVE  PageInv'
  <1>1. Len(stored) \in Nat /\ Len(Page) = 8
    BY PageFacts DEF DbTypeOK
  <1>2. ASSUME NEW v \in Visitors, NEW i \in 2..8
        PROVE  table'[v][Page[i]] <= Len(stored')
    <2>1. table[v][Page[i]] \in Int
      <3>1. Page[i] \in Tables
        BY PageElements
      <3>2. QED
        BY <3>1 DEF DbTypeOK
    <2>2. table[v][Page[i]] <= Len(stored)
      BY <1>1 DEF PageInv, PageGood
    <2>3. QED
      BY <1>1, <2>1, <2>2
  <1>3. ASSUME NEW v \in Visitors, NEW i \in 1..8, NEW j \in 2..8,
               Pos(v)' = Page[i], i <= j
        PROVE  table'[v][Page[j]] = -1
    <2>1. PICK k \in 1..8 : k <= i /\ Pos(v) = Page[k]
      BY <1>3
    <2>2. k <= j
      BY <1>3, <2>1
    <2>3. QED
      BY <1>1, <2>1, <2>2 DEF PageInv, PageGood
  <1>4. \A v \in Visitors : \A i, j \in 2..8 :
            i < j /\ table'[v][Page[i]] >= 0 /\ table'[v][Page[j]] >= 0
                => table'[v][Page[i]] <= table'[v][Page[j]]
    BY <1>1 DEF PageInv, PageGood
  <1>5. QED
    BY <1>1, <1>2, <1>3, <1>4 DEF PageInv, PageGood

\* The records only become more.
LEMMA RowsRest ==
    ASSUME RowInv, DbTypeOK, DbTypeOK', UNCHANGED <<rows, link>>, Records \subseteq Records',
           \A v \in Visitors :
               /\ Pos(v) \in {"idle", "history"} => Pos(v)' \in {"idle", "history"}
               /\ at'[v] = "history" => at[v] = "history"
    PROVE  RowInv'
  <1>1. ASSUME NEW v \in Visitors, NEW row \in Calls \X Dates
        PROVE  rows'[v][row] <= Cardinality(InRow(row)')
    <2>1. InRow(row) \in SUBSET InRow(row)'
      BY DEF InRow
    <2>2. IsFiniteSet(Records')
      <3>1. /\ stored' \in Seq(Messages \X (0..MaxTime)) /\ Len(stored') \in Nat
            /\ DOMAIN stored' = 1..Len(stored')
        BY DEF DbTypeOK
      <3>2. QED
        BY <3>1, ElementsFinite DEF Records
    <2>3. IsFiniteSet(InRow(row)')
      <3>1. InRow(row)' \in SUBSET Records'
        BY DEF InRow
      <3>2. QED
        BY <2>2, <3>1, FS_Subset
    <2>4. /\ Cardinality(InRow(row)) <= Cardinality(InRow(row)')
          /\ Cardinality(InRow(row)) \in Nat /\ Cardinality(InRow(row)') \in Nat
      BY <2>1, <2>3, FS_Subset, FS_CardinalityType
    <2>5. rows[v][row] \in Nat
      BY DEF DbTypeOK
    <2>6. rows[v][row] <= Cardinality(InRow(row))
      BY DEF RowInv, RowGood
    <2>7. QED
      BY <2>4, <2>5, <2>6
  <1>2. ASSUME NEW v \in Visitors
        PROVE  /\ link'[v] # <<>> =>
                    /\ Pos(v)' \in {"idle", "history"}
                    /\ Zone = 0 /\ link'[v][2] >= 0 =>
                          link'[v][2] >= Limit \/ link'[v][2] >= rows'[v][link'[v][1]]
               /\ at'[v] = "history" => link'[v] # <<>>
    BY DEF RowInv, RowGood
  <1>3. QED
    BY <1>1, <1>2 DEF RowInv, RowGood

\* main and its records are left alone.
LEMMA StoredRests ==
    ASSUME StoredInv, DbTypeOK, UNCHANGED <<stored, inserting, db_rc>>,
           faults' \in Nat, faults' >= faults,
           at'["main"] # "idle" => at["main"] # "idle",
           at'["main"] \in {"delete", "new"} => at["main"] \in {"delete", "new"}
    PROVE  StoredInv'
  <1> DEFINE C == Cardinality({m \in Messages : db_rc[m] = "TE_ok"})
  <1>1. C \in Nat
    <2>1. {m \in Messages : db_rc[m] = "TE_ok"} \in SUBSET Messages
      OBVIOUS
    <2>2. QED
      BY <2>1, AprsIsAssumption, FS_Subset, FS_CardinalityType
  <1>2. Len(stored) \in Nat /\ faults \in Nat
    BY DEF DbTypeOK
  <1>3. Len(stored) + faults >= C + IF at["main"] \in {"delete", "new"} THEN 1 ELSE 0
    BY DEF StoredInv
  <1>4. C' = C
    OBVIOUS
  <1> HIDE DEF C
  <1>5. Len(stored) + faults' >= C + IF at'["main"] \in {"delete", "new"} THEN 1 ELSE 0
    BY <1>1, <1>2, <1>3
  <1>6. QED
    BY <1>4, <1>5 DEF StoredInv, C

-----------------------------------------------------------------------------
(* The database: one lemma per step.                                       *)

LEMMA UserFacts ==
    /\ "main" \in Users /\ \A v \in Visitors : v \in Users /\ v # "main"
    /\ \A u \in Users : u = "main" \/ u \in Visitors
    /\ \A v \in Visitors : Doing(v) = ToSet(Page) \cup {"idle", "linked", "history",
                                                        "delete", "new"}
    /\ Doing("main") = {"idle", "insert", "delete", "new"}
  BY DatabaseAssumption DEF Users, Doing

\* One user goes on to something else.
LEMMA GoesOn ==
    ASSUME DbTypeOK, NEW u \in Users, NEW q \in Doing(u),
           at' = [at EXCEPT ![u] = q]
    PROVE  /\ DOMAIN at' = Users /\ \A w \in Users : at'[w] \in Doing(w)
           /\ at'[u] = q
           /\ \A w \in Users : w # u => at'[w] = at[w]
  BY DEF DbTypeOK

\* The user fetches m_c.
LEMMA Fetches ==
    ASSUME DbTypeOK, NEW u \in Users, NEW q \in Doing(u), Fetch(u, q)
    PROVE  /\ DOMAIN at' = Users /\ \A w \in Users : at'[w] \in Doing(w)
           /\ at'[u] = q
           /\ \A w \in Users : w # u => at'[w] = at[w]
           /\ using' \in [Users -> 0..clients] /\ overlap' \in BOOLEAN
  <1>1. at' = [at EXCEPT ![u] = q] /\ using' = [using EXCEPT ![u] = client]
    BY DEF Fetch
  <1>2. client \in 0..clients
    BY DEF DbTypeOK
  <1>3. using' \in [Users -> 0..clients]
    BY <1>1, <1>2 DEF DbTypeOK
  <1>4. overlap' \in BOOLEAN
    BY DEF Fetch, DbTypeOK
  <1>5. QED
    BY <1>1, <1>3, <1>4, GoesOn

\* The visitors stay where they are.
LEMMA OthersStay ==
    ASSUME UNCHANGED back,
           \A v \in Visitors : at'[v] = at[v]
    PROVE  /\ \A v \in Visitors : \A i \in 1..8 :
                 Pos(v)' = Page[i] => \E k \in 1..8 : k <= i /\ Pos(v) = Page[k]
           /\ \A v \in Visitors :
                 /\ Pos(v) \in {"idle", "history"} => Pos(v)' \in {"idle", "history"}
                 /\ at'[v] = "history" => at[v] = "history"
  BY DEF Pos

LEMMA DbPutKeeps ==
    ASSUME DbInv, NEW m \in Messages, DbFresh(m), DbPut(m)
    PROVE  DbInv'
  <1>1. /\ DbTypeOK /\ ClientInv /\ PageInv /\ RowInv /\ StoredInv
        /\ at["main"] = "idle" /\ Fetch("main", "insert")
        /\ \E t \in 0..MaxTime : inserting' = <<m, t>>
        /\ UNCHANGED <<stored, client, clients, deleted, back, table, rows, link,
                       faults, crashed, db_rc>>
    BY DEF DbInv, DbPut
  <1>2. inserting' \in Messages \X (0..MaxTime) /\ inserting'[1] = m
    BY <1>1
  <1>3. /\ DOMAIN at' = Users /\ \A w \in Users : at'[w] \in Doing(w)
        /\ at'["main"] = "insert"
        /\ \A w \in Users : w # "main" => at'[w] = at[w]
        /\ using' \in [Users -> 0..clients] /\ overlap' \in BOOLEAN
    BY <1>1, Fetches, UserFacts
  <1>4. DbTypeOK'
    BY <1>1, <1>2, <1>3 DEF DbTypeOK
  <1>5. ClientInv'
    BY <1>1, FetchKeepsClient, UserFacts
  <1>6. \A v \in Visitors : at'[v] = at[v]
    BY <1>3, UserFacts
  <1>7. Len(stored) \in Nat /\ Records' = Records
    BY <1>1 DEF DbTypeOK, Records
  <1>8. PageInv'
    BY <1>1, <1>6, <1>7, OthersStay, PageRests
  <1>9. RowInv'
    BY <1>1, <1>4, <1>6, <1>7, OthersStay, RowsRest
  <1>10. StoredInv'
    <2>1. \A i \in DOMAIN stored : stored[i][1] # m
      BY DEF DbFresh
    <2>2. db_rc[m] = "none"
      BY DEF DbFresh
    <2>3. QED
      BY <1>1, <1>2, <1>3, <2>1, <2>2 DEF StoredInv
  <1>11. QED
    BY <1>4, <1>5, <1>8, <1>9, <1>10 DEF DbInv

\* One more message was said to be stored.
LEMMA OneMoreSaid ==
    ASSUME DbTypeOK, DbReturn, at["main"] # "idle"
    PROVE  LET C == {m \in Messages : db_rc[m] = "TE_ok"}
           IN  /\ Cardinality(C) \in Nat /\ Cardinality(C') \in Nat
               /\ Cardinality(C') <= Cardinality(C) + 1
               /\ db_rc' \in [Messages -> {"none", "TE_ok"}]
  <1> DEFINE C == {m \in Messages : db_rc[m] = "TE_ok"}
  <1>1. C \in SUBSET Messages
    OBVIOUS
  <1>2. IsFiniteSet(C) /\ Cardinality(C) \in Nat
    BY <1>1, AprsIsAssumption, FS_Subset, FS_CardinalityType
  <1>3. inserting[1] \in Messages /\ db_rc \in [Messages -> {"none", "TE_ok"}]
    BY DEF DbTypeOK
  <1>4. C' = C \cup {inserting[1]} /\ db_rc' \in [Messages -> {"none", "TE_ok"}]
    BY <1>3 DEF DbReturn
  <1> HIDE DEF C
  <1>5. Cardinality(C') \in Nat /\ Cardinality(C') <= Cardinality(C) + 1
    <2> DEFINE D == C \cup {inserting[1]}
    <2>1. /\ IsFiniteSet(D)
          /\ Cardinality(D) = IF inserting[1] \in C THEN Cardinality(C)
                              ELSE Cardinality(C) + 1
      BY <1>2, FS_AddElement
    <2>2. Cardinality(D) \in Nat /\ Cardinality(D) <= Cardinality(C) + 1
      BY <1>2, <2>1
    <2>3. QED
      BY <1>4, <2>2
  <1>6. QED
    BY <1>2, <1>4, <1>5 DEF C

LEMMA InsertKeeps ==
    ASSUME DbInv, Insert
    PROVE  DbInv'
  <1>1. /\ DbTypeOK /\ ClientInv /\ PageInv /\ RowInv /\ StoredInv
        /\ at["main"] = "insert" /\ stored' = Append(stored, inserting)
        /\ DbReturn
        /\ inserting \in Messages \X (0..MaxTime)
        /\ stored \in Seq(Messages \X (0..MaxTime))
        /\ UNCHANGED <<client, clients, deleted, using, inserting, back, table,
                       rows, link, faults, overlap, crashed>>
    BY DEF DbInv, DbTypeOK, Insert
  <1>2. /\ stored' \in Seq(Messages \X (0..MaxTime))
        /\ Len(stored) \in Nat /\ Len(stored') = Len(stored) + 1
        /\ \A i \in 1..Len(stored) : stored'[i] = stored[i]
        /\ stored'[Len(stored) + 1] = inserting
        /\ DOMAIN stored = 1..Len(stored) /\ DOMAIN stored' = 1..Len(stored')
    BY <1>1, AppendFacts
  <1>3. /\ DOMAIN at' = Users /\ \A w \in Users : at'[w] \in Doing(w)
        /\ at'["main"] = "idle"
        /\ \A w \in Users : w # "main" => at'[w] = at[w]
    BY <1>1, GoesOn, UserFacts DEF DbReturn
  <1>4. db_rc' \in [Messages -> {"none", "TE_ok"}]
    BY <1>1, OneMoreSaid
  <1>5. DbTypeOK'
    BY <1>1, <1>2, <1>3, <1>4 DEF DbTypeOK
  <1>6. ClientInv'
    <2>1. \A w \in Users : InQuery(w)' => InQuery(w)
      BY <1>3 DEF InQuery
    <2>2. \A w \in Users : at[w] = "new" => at'[w] = "new"
      BY <1>1, <1>3
    <2>3. QED
      BY <1>1, <2>1, <2>2, LeavingKeepsClient
  <1>7. \A v \in Visitors : at'[v] = at[v]
    BY <1>3, UserFacts
  <1>8. Len(stored') \in Nat /\ Len(stored') >= Len(stored) /\ Records \subseteq Records'
    BY <1>2 DEF Records
  <1>9. PageInv'
    BY <1>1, <1>7, <1>8, OthersStay, PageRests
  <1>10. RowInv'
    BY <1>1, <1>5, <1>7, <1>8, OthersStay, RowsRest
  <1>11. StoredInv'
    <2>1. \A i \in 1..Len(stored) : stored[i][1] # inserting[1]
      BY <1>1, <1>2 DEF StoredInv
    <2>2. \A i \in 1..Len(stored') : i \in 1..Len(stored) \/ i = Len(stored) + 1
      BY <1>2
    <2>3. ASSUME NEW i \in 1..Len(stored'), NEW j \in 1..Len(stored'),
                 stored'[i][1] = stored'[j][1]
          PROVE  i = j
      <3>1. CASE i \in 1..Len(stored) /\ j \in 1..Len(stored)
        BY <1>1, <1>2, <2>3, <3>1 DEF StoredInv
      <3>2. CASE i = Len(stored) + 1 /\ j \in 1..Len(stored)
        BY <1>2, <2>1, <2>3, <3>2
      <3>3. CASE j = Len(stored) + 1 /\ i \in 1..Len(stored)
        BY <1>2, <2>1, <2>3, <3>3
      <3>4. QED
        BY <2>2, <3>1, <3>2, <3>3
    <2> DEFINE C == {m \in Messages : db_rc[m] = "TE_ok"}
    <2>4. /\ Cardinality(C) \in Nat /\ Cardinality(C') \in Nat
          /\ Cardinality(C') <= Cardinality(C) + 1
      BY <1>1, OneMoreSaid
    <2>5. Len(stored) + faults >= Cardinality(C) + 0 /\ faults \in Nat
      BY <1>1 DEF StoredInv, DbTypeOK
    <2> HIDE DEF C
    <2>6. Len(stored') + faults' >= Cardinality(C') + 0
      BY <1>1, <1>2, <2>4, <2>5
    <2>7. QED
      BY <1>2, <1>3, <2>3, <2>6 DEF StoredInv, C
  <1>12. QED
    BY <1>5, <1>6, <1>9, <1>10, <1>11 DEF DbInv

LEMMA InsertFailsKeeps ==
    ASSUME DbInv, InsertFails
    PROVE  DbInv'
  <1>1. /\ DbTypeOK /\ ClientInv /\ PageInv /\ RowInv /\ StoredInv
        /\ at["main"] = "insert" /\ DbReturn
        /\ faults' = faults + 1
        /\ UNCHANGED <<stored, client, clients, deleted, using, inserting, back,
                       table, rows, link, overlap, crashed>>
    BY DEF DbInv, InsertFails
  <1>2. Len(stored) \in Nat /\ faults \in Nat /\ faults' \in Nat
    BY <1>1 DEF DbTypeOK
  <1>3. /\ DOMAIN at' = Users /\ \A w \in Users : at'[w] \in Doing(w)
        /\ at'["main"] = "idle"
        /\ \A w \in Users : w # "main" => at'[w] = at[w]
    BY <1>1, GoesOn, UserFacts DEF DbReturn
  <1>4. db_rc' \in [Messages -> {"none", "TE_ok"}]
    BY <1>1, OneMoreSaid
  <1>5. DbTypeOK'
    BY <1>1, <1>2, <1>3, <1>4 DEF DbTypeOK
  <1>6. ClientInv'
    <2>1. \A w \in Users : InQuery(w)' => InQuery(w)
      BY <1>3 DEF InQuery
    <2>2. \A w \in Users : at[w] = "new" => at'[w] = "new"
      BY <1>1, <1>3
    <2>3. QED
      BY <1>1, <2>1, <2>2, LeavingKeepsClient
  <1>7. (\A v \in Visitors : at'[v] = at[v]) /\ Records' = Records
    BY <1>1, <1>3, UserFacts DEF Records
  <1>8. PageInv'
    BY <1>1, <1>2, <1>7, OthersStay, PageRests
  <1>9. RowInv'
    BY <1>1, <1>5, <1>7, OthersStay, RowsRest
  <1>10. StoredInv'
    <2> DEFINE C == {m \in Messages : db_rc[m] = "TE_ok"}
    <2>1. /\ Cardinality(C) \in Nat /\ Cardinality(C') \in Nat
          /\ Cardinality(C') <= Cardinality(C) + 1
      BY <1>1, OneMoreSaid
    <2>2. Len(stored) + faults >= Cardinality(C) + 0
      BY <1>1 DEF StoredInv
    <2> HIDE DEF C
    <2>3. Len(stored) + faults' >= Cardinality(C') + 0
      BY <1>1, <1>2, <2>1, <2>2
    <2>4. QED
      BY <1>1, <1>2, <1>3, <2>3 DEF StoredInv, C
  <1>11. QED
    BY <1>5, <1>6, <1>8, <1>9, <1>10 DEF DbInv

\* The visitors see nothing of each other.
LEMMA PageOfAnother ==
    ASSUME NEW w \in Visitors, PageGood(w), table'[w] = table[w],
           Pos(w)' = Pos(w), UNCHANGED stored
    PROVE  PageGood(w)'
  BY DEF PageGood

LEMMA RowOfAnother ==
    ASSUME NEW w \in Visitors, RowGood(w), rows'[w] = rows[w], link'[w] = link[w],
           at'[w] = at[w], back'[w] = back[w], UNCHANGED stored
    PROVE  RowGood(w)'
  <1>1. \A row : InRow(row)' = InRow(row)
    BY DEF InRow, Records
  <1>2. QED
    BY <1>1 DEF RowGood, Pos

\* What a step of visitor v leaves alone.
LEMMA VisitorAlone ==
    ASSUME DbInv, NEW v \in Visitors, DbTypeOK',
           \A u \in Users : u # v => at'[u] = at[u],
           UNCHANGED <<stored, inserting, back, faults, db_rc>>
    PROVE  /\ StoredInv'
           /\ PageGood(v)' /\ (\A w \in Visitors : w # v => table'[w] = table[w])
                 => PageInv'
           /\ RowGood(v)' /\ (\A w \in Visitors : w # v =>
                                  rows'[w] = rows[w] /\ link'[w] = link[w])
                 => RowInv'
  <1>1. /\ DbTypeOK /\ PageInv /\ RowInv /\ StoredInv
        /\ at'["main"] = at["main"]
        /\ \A w \in Visitors : w # v => at'[w] = at[w]
    BY UserFacts DEF DbInv
  <1>2. faults' \in Nat /\ faults' >= faults
    BY DEF DbInv, DbTypeOK
  <1>3. StoredInv'
    BY <1>1, <1>2, StoredRests
  <1>4. ASSUME PageGood(v)', \A w \in Visitors : w # v => table'[w] = table[w]
        PROVE  PageInv'
    <2>1. ASSUME NEW w \in Visitors, w # v
          PROVE  PageGood(w)'
      <3>1. Pos(w)' = Pos(w)
        BY <1>1, <2>1 DEF Pos
      <3>2. QED
        BY <1>1, <1>4, <2>1, <3>1, PageOfAnother DEF PageInv
    <2>2. QED
      BY <1>4, <2>1 DEF PageInv
  <1>5. ASSUME RowGood(v)',
               \A w \in Visitors : w # v => rows'[w] = rows[w] /\ link'[w] = link[w]
        PROVE  RowInv'
    <2>1. ASSUME NEW w \in Visitors, w # v
          PROVE  RowGood(w)'
      BY <1>1, <1>5, <2>1, RowOfAnother DEF RowInv
    <2>2. QED
      BY <1>5, <2>1 DEF RowInv
  <1>6. PageGood(v)' /\ (\A w \in Visitors : w # v => table'[w] = table[w]) => PageInv'
    BY <1>4
  <1>7. RowGood(v)' /\ (\A w \in Visitors : w # v =>
                           rows'[w] = rows[w] /\ link'[w] = link[w]) => RowInv'
    BY <1>5
  <1>8. QED
    BY <1>3, <1>6, <1>7

\* A page begins empty.
LEMMA VisitKeeps ==
    ASSUME DbInv, NEW v \in Visitors, Visit(v)
    PROVE  DbInv'
  <1>1. /\ DbTypeOK /\ ClientInv /\ PageInv /\ RowInv
        /\ at[v] = "idle" /\ Fetch(v, "discarded")
        /\ table' = [table EXCEPT ![v] = [q \in Tables |-> -1]]
        /\ link' = [link EXCEPT ![v] = <<>>]
        /\ UNCHANGED <<stored, client, clients, deleted, inserting, back, rows,
                       faults, crashed, db_rc>>
    BY DEF DbInv, Visit
  <1>2. v \in Users /\ "discarded" \in Doing(v)
    BY UserFacts, PageElements
  <1>3. /\ DOMAIN at' = Users /\ \A w \in Users : at'[w] \in Doing(w)
        /\ at'[v] = "discarded"
        /\ \A w \in Users : w # v => at'[w] = at[w]
        /\ using' \in [Users -> 0..clients] /\ overlap' \in BOOLEAN
    BY <1>1, <1>2, Fetches
  <1>4. /\ table' \in [Visitors -> [Tables -> Int]]
        /\ \A q \in Tables : table'[v][q] = -1
        /\ \A w \in Visitors : w # v => table'[w] = table[w]
    BY <1>1 DEF DbTypeOK
  <1>5. /\ DOMAIN link' = Visitors /\ link'[v] = <<>>
        /\ \A w \in Visitors : w # v => link'[w] = link[w]
    BY <1>1 DEF DbTypeOK
  <1>6. at'["main"] = at["main"]
    BY <1>3, UserFacts
  <1>7. DbTypeOK'
    BY <1>1, <1>3, <1>4, <1>5, <1>6 DEF DbTypeOK
  <1>8. ClientInv'
    BY <1>1, <1>2, FetchKeepsClient
  <1>9. PageGood(v)'
    <2>1. \A i \in 2..8 : table'[v][Page[i]] = -1
      BY <1>4, PageElements
    <2>2. Len(stored') \in Nat
      BY <1>7 DEF DbTypeOK
    <2>3. QED
      BY <2>1, <2>2, PageFacts DEF PageGood
  <1>10. RowGood(v)'
    <2>1. \A row : InRow(row)' = InRow(row)
      BY <1>1 DEF InRow, Records
    <2>2. QED
      BY <1>1, <1>3, <1>5, <2>1 DEF RowInv, RowGood
  <1>11. StoredInv' /\ PageInv' /\ RowInv'
    BY <1>1, <1>3, <1>4, <1>5, <1>7, <1>9, <1>10, VisitorAlone
  <1>12. QED
    BY <1>7, <1>8, <1>11 DEF DbInv

\* A query of the page counts what is there when it comes to it, and everything
\* before it counted no more.
LEMMA QueryCounts ==
    ASSUME DbTypeOK, NEW v \in Visitors, PageGood(v), NEW i \in 1..8,
           at[v] = Page[i], at'[v] = After(Page[i]), UNCHANGED stored,
           \A j \in 2..8 : table'[v][Page[j]] = IF j = i THEN Counted(Page[i])
                                                ELSE table[v][Page[j]]
    PROVE  PageGood(v)'
  <1> DEFINE n == Len(stored)
             t == [j \in 2..8 |-> table[v][Page[j]]]
             u == [j \in 2..8 |-> table'[v][Page[j]]]
             c == Counted(Page[i])
  <1>1. n \in Nat /\ c \in Nat /\ c <= n /\ (i > 2 => c = n)
    <2>1. i > 2 => Page[i] # "packets"
      <3>1. 2 \in 1..8
        OBVIOUS
      <3>2. QED
        BY <3>1, PageFacts, PageElements
    <2>2. QED
      BY <2>1, RecordsFinite
  <1>2. t \in [2..8 -> Int]
    <2>1. \A j \in 2..8 : Page[j] \in Tables
      BY PageElements
    <2>2. table[v] \in [Tables -> Int]
      BY DEF DbTypeOK
    <2>3. \A j \in 2..8 : table[v][Page[j]] \in Int
      BY <2>1, <2>2
    <2>4. QED
      BY <2>3
  <1>3. \A j \in 2..8 : u[j] = IF j = i THEN c ELSE t[j]
    OBVIOUS
  <1>4. Pos(v) = Page[i] /\ Pos(v)' = After(Page[i])
    <2>1. Page[i] \notin {"delete", "new"} /\ After(Page[i]) \notin {"delete", "new"}
      BY PageElements, PageGoesOn
    <2>2. QED
      BY <2>1 DEF Pos
  <1>5. /\ \A j \in 2..8 : t[j] <= n
        /\ \A j \in 2..8 : i <= j => t[j] = -1
        /\ \A a, b \in 2..8 : a < b /\ t[a] >= 0 /\ t[b] >= 0 => t[a] <= t[b]
    BY <1>4, PageFacts DEF PageGood
  <1>6. \A k \in 1..8 : Pos(v)' = Page[k] => i < k
    BY <1>4, PageGoesOn
  <1> HIDE DEF n, c
  <1>7. \A j \in 2..8 : u[j] <= n
    BY <1>1, <1>2, <1>3, <1>5
  <1>8. ASSUME NEW k \in 1..8, NEW j \in 2..8, Pos(v)' = Page[k], k <= j
        PROVE  u[j] = -1
    <2>1. i < k
      BY <1>6, <1>8
    <2>2. i <= j /\ j # i
      BY <1>8, <2>1
    <2>3. QED
      BY <1>3, <1>5, <2>2
  <1>9. ASSUME NEW a \in 2..8, NEW b \in 2..8, a < b, u[a] >= 0, u[b] >= 0
        PROVE  u[a] <= u[b]
    <2>1. CASE b = i
      <3>1. u[a] = t[a] /\ t[a] <= n /\ u[b] = c
        BY <1>3, <1>5, <1>9, <2>1
      <3>2. c = n
        BY <1>1, <1>9, <2>1
      <3>3. QED
        BY <3>1, <3>2
    <2>2. CASE a = i
      <3>1. i <= b /\ b # i
        BY <1>9, <2>2
      <3>2. u[b] = -1
        BY <1>3, <1>5, <3>1
      <3>3. QED
        BY <1>9, <3>2
    <2>3. CASE a # i /\ b # i
      BY <1>3, <1>5, <1>9, <2>3
    <2>4. QED
      BY <2>1, <2>2, <2>3
  <1>10. \A j \in 2..8 : u[j] = table'[v][Page[j]]
    OBVIOUS
  <1>11. n = Len(stored')
    BY DEF n
  <1> HIDE DEF u, t
  <1>12. QED
    BY <1>7, <1>8, <1>9, <1>10, <1>11, PageFacts DEF PageGood

LEMMA QueryKeeps ==
    ASSUME DbInv, NEW v \in Visitors, Query(v)
    PROVE  DbInv'
  <1>1. /\ DbTypeOK /\ ClientInv /\ PageInv /\ RowInv
        /\ at[v] \in Tables \cup {"discarded"}
        /\ table' = IF at[v] \in Tables
                    THEN [table EXCEPT ![v][at[v]] = Counted(at[v])] ELSE table
        /\ rows' = IF at[v] = "air" THEN [rows EXCEPT ![v] = AirTime] ELSE rows
        /\ \/ at[v] = "packets" /\ at' = [at EXCEPT ![v] = "total"]
                                /\ UNCHANGED <<using, overlap>>
           \/ Fetch(v, After(at[v]))
        /\ UNCHANGED <<stored, client, clients, deleted, inserting, back, link,
                       faults, crashed, db_rc>>
    BY DEF DbInv, Query
  <1>2. PICK i \in 1..8 : at[v] = Page[i]
    BY <1>1, PageElements
  <1>3. at[v] = "packets" => After(at[v]) = "total"
    <2>1. 2 \in 1..8 /\ Page[2] = "packets" /\ Page[3] = "total"
      BY PageFacts
    <2>2. After(Page[2]) = Page[3]
      BY <2>1, PageGoesOn
    <2>3. QED
      BY <2>1, <2>2
  <1>4. After(at[v]) \in Doing(v) /\ After(at[v]) \in Tables \cup {"linked"}
    BY <1>2, PageGoesOn, PageElements, UserFacts
  <1>5. v \in Users
    BY UserFacts
  <1>6. /\ DOMAIN at' = Users /\ \A w \in Users : at'[w] \in Doing(w)
        /\ at'[v] = After(at[v])
        /\ \A w \in Users : w # v => at'[w] = at[w]
        /\ using' \in [Users -> 0..clients] /\ overlap' \in BOOLEAN
    <2>1. CASE Fetch(v, After(at[v]))
      BY <1>1, <1>4, <1>5, <2>1, Fetches
    <2>2. CASE at[v] = "packets" /\ at' = [at EXCEPT ![v] = "total"]
                                 /\ UNCHANGED <<using, overlap>>
      BY <1>1, <1>3, <1>4, <1>5, <2>2, GoesOn DEF DbTypeOK
    <2>3. QED
      BY <1>1, <2>1, <2>2
  <1>7. at[v] \in Tables => Counted(at[v]) \in Int
    BY <1>1, RecordsFinite
  <1>8. /\ table' \in [Visitors -> [Tables -> Int]]
        /\ \A q \in Tables : table'[v][q] = IF q = at[v] THEN Counted(at[v])
                                            ELSE table[v][q]
        /\ \A w \in Visitors : w # v => table'[w] = table[w]
    BY <1>1, <1>7 DEF DbTypeOK
  <1>9. /\ rows' \in [Visitors -> [Calls \X Dates -> Nat]]
        /\ \A row \in Calls \X Dates : \/ rows'[v][row] = rows[v][row]
                                       \/ rows'[v][row] = Cardinality(InRow(row))
        /\ \A w \in Visitors : w # v => rows'[w] = rows[w]
    BY <1>1, AirTimeCounts DEF DbTypeOK
  <1>10. at'["main"] = at["main"]
    BY <1>6, UserFacts
  <1>11. DbTypeOK'
    BY <1>1, <1>6, <1>8, <1>9, <1>10 DEF DbTypeOK
  <1>12. ClientInv'
    <2>1. CASE Fetch(v, After(at[v]))
      <3>1. at[v] \notin {"delete", "new"}
        BY <1>1, PageElements
      <3>2. QED
        BY <1>1, <1>5, <2>1, <3>1, FetchKeepsClient
    <2>2. CASE at[v] = "packets" /\ UNCHANGED <<using, overlap>>
      <3>1. \A w \in Users : InQuery(w)' => InQuery(w)
        BY <1>6, <2>2 DEF InQuery
      <3>2. \A w \in Users : at[w] = "new" => at'[w] = "new"
        BY <1>6, <2>2
      <3>3. QED
        BY <1>1, <2>2, <3>1, <3>2, LeavingKeepsClient
    <2>3. QED
      BY <1>1, <2>1, <2>2
  <1>13. PageGood(v)'
    <2>1. \A j \in 2..8 : table'[v][Page[j]] = IF j = i THEN Counted(Page[i])
                                               ELSE table[v][Page[j]]
      <3>1. \A j \in 2..8 : j \in 1..8 /\ Page[j] \in Tables
        BY PageElements
      <3>2. \A j \in 2..8 : Page[j] = at[v] <=> j = i
        BY <1>2, <3>1, PageElements
      <3>3. QED
        BY <1>2, <1>8, <3>1, <3>2
    <2>2. QED
      BY <1>1, <1>2, <1>6, <2>1, QueryCounts DEF PageInv
  <1>14. RowGood(v)'
    <2>1. Pos(v) = at[v] /\ at[v] \notin {"idle", "history"}
      BY <1>1, PageElements DEF Pos
    <2>2. link[v] = <<>>
      BY <1>1, <2>1 DEF RowInv, RowGood
    <2>3. \A row : InRow(row)' = InRow(row)
      BY <1>1 DEF InRow, Records
    <2>4. \A row \in Calls \X Dates : rows'[v][row] <= Cardinality(InRow(row))
      <3>1. ASSUME NEW row \in Calls \X Dates
            PROVE  rows'[v][row] <= Cardinality(InRow(row))
        <4>1. rows[v][row] <= Cardinality(InRow(row)) /\ Cardinality(InRow(row)) \in Nat
          BY <1>1, RecordsFinite DEF RowInv, RowGood
        <4>2. QED
          BY <1>9, <4>1
      <3>2. QED
        BY <3>1
    <2>5. at'[v] # "history"
      BY <1>4, <1>6, PageElements
    <2>6. QED
      BY <1>1, <2>2, <2>3, <2>4, <2>5 DEF RowGood
  <1>15. StoredInv' /\ PageInv' /\ RowInv'
    BY <1>1, <1>6, <1>8, <1>9, <1>11, <1>13, <1>14, VisitorAlone
  <1>16. QED
    BY <1>11, <1>12, <1>15 DEF DbInv

\* The page is there: its link is one of its own rows.
LEMMA ClickKeeps ==
    ASSUME DbInv, NEW v \in Visitors, Click(v)
    PROVE  DbInv'
  <1>1. /\ DbTypeOK /\ ClientInv /\ PageInv /\ RowInv
        /\ at[v] = "linked" /\ v \in Users
        /\ UNCHANGED <<stored, client, clients, deleted, inserting, back, table,
                       rows, faults, crashed, db_rc>>
    BY UserFacts DEF DbInv, Click
  <1>2. "idle" \in Doing(v) /\ "history" \in Doing(v)
    BY UserFacts
  <1>3. CASE at' = [at EXCEPT ![v] = "idle"] /\ UNCHANGED <<using, link, overlap>>
    <2>1. /\ DOMAIN at' = Users /\ \A w \in Users : at'[w] \in Doing(w)
          /\ at'[v] = "idle"
          /\ \A w \in Users : w # v => at'[w] = at[w]
      BY <1>1, <1>2, <1>3, GoesOn
    <2>2. at'["main"] = at["main"]
      BY <2>1, UserFacts
    <2>3. DbTypeOK'
      BY <1>1, <1>3, <2>1, <2>2 DEF DbTypeOK
    <2>4. ClientInv'
      <3>1. \A w \in Users : InQuery(w)' => InQuery(w)
        BY <2>1 DEF InQuery
      <3>2. \A w \in Users : at[w] = "new" => at'[w] = "new"
        BY <1>1, <2>1
      <3>3. QED
        BY <1>1, <1>3, <3>1, <3>2, LeavingKeepsClient
    <2>5. link[v] = <<>>
      BY <1>1 DEF RowInv, RowGood, Pos
    <2>6. PageGood(v)'
      <3>1. \A k \in 1..8 : Pos(v)' # Page[k]
        BY <2>1, PageElements DEF Pos
      <3>2. QED
        BY <1>1, <3>1, PageFacts DEF PageInv, PageGood
    <2>7. RowGood(v)'
      <3>1. \A row : InRow(row)' = InRow(row)
        BY <1>1 DEF InRow, Records
      <3>2. QED
        BY <1>1, <1>3, <2>1, <2>5, <3>1 DEF RowInv, RowGood
    <2>8. StoredInv' /\ PageInv' /\ RowInv'
      BY <1>1, <1>3, <2>1, <2>3, <2>6, <2>7, VisitorAlone
    <2>9. QED
      BY <2>3, <2>4, <2>8 DEF DbInv
  <1>4. ASSUME NEW row \in Calls \X Dates, link' = [link EXCEPT ![v] = <<row, -1>>],
               Fetch(v, "history")
        PROVE  DbInv'
    <2>1. /\ DOMAIN at' = Users /\ \A w \in Users : at'[w] \in Doing(w)
          /\ at'[v] = "history"
          /\ \A w \in Users : w # v => at'[w] = at[w]
          /\ using' \in [Users -> 0..clients] /\ overlap' \in BOOLEAN
      BY <1>1, <1>2, <1>4, Fetches
    <2>2. at'["main"] = at["main"]
      BY <2>1, UserFacts
    <2>3. /\ DOMAIN link' = Visitors /\ link'[v] = <<row, -1>>
          /\ \A w \in Visitors : w # v => link'[w] = link[w]
      BY <1>1, <1>4 DEF DbTypeOK
    <2>4. link'[v] \in (Calls \X Dates) \X Int /\ link'[v][2] = -1 /\ link'[v] # <<>>
      BY <2>3
    <2>5. \A w \in Visitors : link'[w] # <<>> => link'[w] \in (Calls \X Dates) \X Int
      BY <1>1, <2>3, <2>4 DEF DbTypeOK
    <2>6. DbTypeOK'
      BY <1>1, <2>1, <2>2, <2>3, <2>5 DEF DbTypeOK
    <2>7. ClientInv'
      BY <1>1, <1>4, FetchKeepsClient
    <2>8. PageGood(v)'
      <3>1. \A k \in 1..8 : Pos(v)' # Page[k]
        BY <2>1, PageElements DEF Pos
      <3>2. QED
        BY <1>1, <3>1, PageFacts DEF PageInv, PageGood
    <2>9. RowGood(v)'
      <3>1. \A r : InRow(r)' = InRow(r)
        BY <1>1 DEF InRow, Records
      <3>2. Pos(v)' = "history"
        BY <2>1 DEF Pos
      <3>3. QED
        BY <1>1, <2>4, <3>1, <3>2 DEF RowInv, RowGood
    <2>10. StoredInv' /\ PageInv' /\ RowInv'
      BY <1>1, <2>1, <2>3, <2>6, <2>8, <2>9, VisitorAlone
    <2>11. QED
      BY <2>6, <2>7, <2>10 DEF DbInv
  <1>5. QED
    BY <1>3, <1>4 DEF Click

\* A day of get_air_time() is within the day of get_history(), in UTC.
LEMMA DayContains ==
    ASSUME NEW d \in Nat \ {0}, NEW t \in Nat
    PROVE  t >= (t \div d) * d /\ t <= ((t \div d) + 1) * d
  OBVIOUS

LEMMA HistoryHasTheRow ==
    ASSUME DbTypeOK, Zone = 0, NEW row \in Calls \X Dates
    PROVE  Cardinality(InRow(row)) <= Cardinality(History(row[1], row[2]))
  <1>1. InRow(row) \subseteq History(row[1], row[2])
    <2>1. ASSUME NEW r \in InRow(row)
          PROVE  r \in History(row[1], row[2])
      <3>1. /\ r \in Records /\ From[r[1]] = row[1] /\ r[2] \div DayLength = row[2]
        BY DEF InRow
      <3>2. r[2] \in Nat
        <4>1. PICK i \in DOMAIN stored : r = stored[i]
          BY <3>1 DEF Records
        <4>2. r \in Messages \X (0..MaxTime)
          BY <4>1 DEF DbTypeOK
        <4>3. QED
          BY <4>2
      <3>3. r[2] >= row[2] * DayLength /\ r[2] <= (row[2] + 1) * DayLength
        BY <3>1, <3>2, DatabaseAssumption, DayContains
      <3>4. QED
        BY <3>1, <3>2, <3>3 DEF History, InHistory
    <2>2. QED
      BY <2>1
  <1>2. IsFiniteSet(History(row[1], row[2]))
    <2>1. History(row[1], row[2]) \in SUBSET Records
      BY DEF History
    <2>2. QED
      BY <2>1, RecordsFinite, FS_Subset
  <1>3. QED
    BY <1>1, <1>2, FS_Subset

\* The records of the row are still there when the link is followed.
LEMMA ShowHistoryKeeps ==
    ASSUME DbInv, NEW v \in Visitors, ShowHistory(v)
    PROVE  DbInv'
  <1> DEFINE row == link[v][1]
             shown == Cardinality(History(row[1], row[2]))
             n == IF shown > Limit THEN Limit ELSE shown
  <1>1. /\ DbTypeOK /\ ClientInv /\ PageInv /\ RowInv
        /\ at[v] = "history" /\ v \in Users
        /\ link' = [link EXCEPT ![v][2] = n]
        /\ at' = [at EXCEPT ![v] = "idle"]
        /\ UNCHANGED <<stored, client, clients, deleted, using, inserting, back,
                       table, rows, faults, overlap, crashed, db_rc>>
    BY UserFacts DEF DbInv, ShowHistory
  <1>2. /\ DOMAIN at' = Users /\ \A w \in Users : at'[w] \in Doing(w)
        /\ at'[v] = "idle"
        /\ \A w \in Users : w # v => at'[w] = at[w]
    BY <1>1, GoesOn, UserFacts
  <1>3. at'["main"] = at["main"]
    BY <1>2, UserFacts
  <1>4. link[v] # <<>> /\ link[v] \in (Calls \X Dates) \X Int /\ row \in Calls \X Dates
    BY <1>1 DEF RowInv, RowGood, DbTypeOK
  <1>5. shown \in Nat /\ n \in Int
    <2>1. History(row[1], row[2]) \in SUBSET Records
      BY DEF History
    <2>2. shown \in Nat
      BY <1>1, <2>1, RecordsFinite, FS_Subset, FS_CardinalityType
    <2>3. QED
      BY <2>2, DatabaseAssumption
  <1>6. Zone = 0 => n >= Limit \/ n >= rows[v][row]
    <2>1. SUFFICES ASSUME Zone = 0 PROVE n >= Limit \/ n >= rows[v][row]
      OBVIOUS
    <2>2. /\ rows[v][row] <= Cardinality(InRow(row)) /\ Cardinality(InRow(row)) \in Nat
          /\ rows[v][row] \in Nat
      BY <1>1, <1>4, RecordsFinite DEF RowInv, RowGood, DbTypeOK
    <2>3. Cardinality(InRow(row)) <= shown
      BY <1>1, <1>4, <2>1, HistoryHasTheRow
    <2> HIDE DEF shown
    <2>4. QED
      BY <1>5, <2>2, <2>3, DatabaseAssumption
  <1> HIDE DEF shown, n
  <1>7. /\ DOMAIN link' = Visitors
        /\ link'[v] = <<row, n>>
        /\ \A w \in Visitors : w # v => link'[w] = link[w]
    <2>1. /\ DOMAIN link' = Visitors
          /\ link'[v] = [link[v] EXCEPT ![2] = n]
          /\ \A w \in Visitors : w # v => link'[w] = link[w]
      BY <1>1 DEF DbTypeOK
    <2>2. link[v] = <<row, link[v][2]>>
      BY <1>4
    <2>3. [<<row, link[v][2]>> EXCEPT ![2] = n] = <<row, n>>
      OBVIOUS
    <2>4. QED
      BY <2>1, <2>2, <2>3
  <1>8. \A w \in Visitors : link'[w] # <<>> => link'[w] \in (Calls \X Dates) \X Int
    <2>1. <<row, n>> \in (Calls \X Dates) \X Int
      BY <1>4, <1>5
    <2>2. QED
      BY <1>1, <1>7, <2>1 DEF DbTypeOK
  <1>9. DbTypeOK'
    BY <1>1, <1>2, <1>3, <1>7, <1>8 DEF DbTypeOK
  <1>10. ClientInv'
    <2>1. \A w \in Users : InQuery(w)' => InQuery(w)
      BY <1>2 DEF InQuery
    <2>2. \A w \in Users : at[w] = "new" => at'[w] = "new"
      BY <1>1, <1>2
    <2>3. QED
      BY <1>1, <2>1, <2>2, LeavingKeepsClient
  <1>11. PageGood(v)'
    <2>1. \A k \in 1..8 : Pos(v)' # Page[k]
      BY <1>2, PageElements DEF Pos
    <2>2. QED
      BY <1>1, <2>1, PageFacts DEF PageInv, PageGood
  <1>12. RowGood(v)'
    <2>1. \A r : InRow(r)' = InRow(r)
      BY <1>1 DEF InRow, Records
    <2>2. Pos(v)' = "idle"
      BY <1>2 DEF Pos
    <2>3. link'[v][1] = row /\ link'[v][2] = n
      BY <1>7
    <2>4. Zone = 0 /\ link'[v][2] >= 0 =>
              link'[v][2] >= Limit \/ link'[v][2] >= rows'[v][link'[v][1]]
      BY <1>1, <1>6, <2>3
    <2> HIDE DEF row
    <2>5. QED
      BY <1>1, <1>2, <2>1, <2>2, <2>4 DEF RowInv, RowGood
  <1>13. StoredInv' /\ PageInv' /\ RowInv'
    BY <1>1, <1>2, <1>7, <1>9, <1>11, <1>12, VisitorAlone
  <1>14. QED
    BY <1>9, <1>10, <1>13 DEF DbInv

\* An exception: the visitor will go on behind what it was at.
LEMMA FaultKeeps ==
    ASSUME DbInv, NEW u \in Users, Fault(u)
    PROVE  DbInv'
  <1>1. /\ DbTypeOK /\ ClientInv /\ PageInv /\ RowInv /\ StoredInv
        /\ InQuery(u) /\ at' = [at EXCEPT ![u] = "delete"]
        /\ faults' = faults + 1
        /\ back' = IF u = "main" THEN back
                   ELSE [back EXCEPT ![u] = IF at[u] = "history" THEN "idle"
                                                                 ELSE Skip(at[u])]
        /\ UNCHANGED <<stored, client, clients, deleted, using, inserting, table,
                       rows, link, overlap, crashed, db_rc>>
    BY DEF DbInv, Fault
  <1>2. Len(stored) \in Nat /\ faults \in Nat /\ faults' \in Nat
    BY <1>1 DEF DbTypeOK
  <1>3. /\ DOMAIN at' = Users /\ \A w \in Users : at'[w] \in Doing(w)
        /\ at'[u] = "delete"
        /\ \A w \in Users : w # u => at'[w] = at[w]
    BY <1>1, GoesOn, UserFacts
  <1>4. at["main"] # "idle" <=> at'["main"] # "idle"
    BY <1>1, <1>3, UserFacts DEF InQuery
  <1>5. u # "main" => /\ u \in Visitors
                      /\ \/ at[u] = "history"
                         \/ \E k \in 1..8 : at[u] = Page[k]
    <2>1. SUFFICES ASSUME u # "main"
                   PROVE  /\ u \in Visitors
                          /\ at[u] = "history" \/ \E k \in 1..8 : at[u] = Page[k]
      OBVIOUS
    <2>2. u \in Visitors /\ at[u] \in ToSet(Page) \cup {"history"}
      BY <1>1, <2>1, UserFacts DEF DbTypeOK, InQuery
    <2>3. QED
      BY <2>2, PageElements
  <1>6. back' \in [Visitors -> Tables \cup {"idle", "linked"}]
    <2>1. CASE u = "main"
      BY <1>1, <2>1 DEF DbTypeOK
    <2>2. CASE u # "main" /\ at[u] = "history"
      BY <1>1, <2>2 DEF DbTypeOK
    <2>3. CASE u # "main" /\ at[u] # "history"
      <3>1. Skip(at[u]) \in Tables \cup {"linked"}
        BY <1>5, <2>3, PageGoesOn
      <3>2. QED
        BY <1>1, <2>3, <3>1 DEF DbTypeOK
    <2>4. QED
      BY <2>1, <2>2, <2>3
  <1>7. DbTypeOK'
    BY <1>1, <1>2, <1>3, <1>4, <1>6 DEF DbTypeOK
  <1>8. ClientInv'
    <2>1. \A w \in Users : InQuery(w)' => InQuery(w)
      BY <1>3 DEF InQuery
    <2>2. \A w \in Users : at[w] = "new" => at'[w] = "new"
      BY <1>1, <1>3 DEF InQuery
    <2>3. QED
      BY <1>1, <2>1, <2>2, LeavingKeepsClient
  <1>9. ASSUME NEW v \in Visitors, v # u
        PROVE  Pos(v)' = Pos(v) /\ at'[v] = at[v]
    <2>1. back'[v] = back[v]
      BY <1>1, <1>9 DEF DbTypeOK
    <2>2. at'[v] = at[v]
      BY <1>3, <1>9, UserFacts
    <2>3. QED
      BY <2>1, <2>2 DEF Pos
  <1>10. ASSUME u # "main"
         PROVE  /\ Pos(u) = at[u]
                /\ Pos(u)' = IF at[u] = "history" THEN "idle" ELSE Skip(at[u])
                /\ at'[u] = "delete"
    <2>1. Pos(u) = at[u]
      BY <1>1 DEF InQuery, Pos
    <2>2. back'[u] = IF at[u] = "history" THEN "idle" ELSE Skip(at[u])
      BY <1>1, <1>5, <1>10 DEF DbTypeOK
    <2>3. QED
      BY <1>3, <2>1, <2>2 DEF Pos
  <1>11. \A v \in Visitors : \A i \in 1..8 :
             Pos(v)' = Page[i] => \E k \in 1..8 : k <= i /\ Pos(v) = Page[k]
    <2>1. ASSUME NEW v \in Visitors, NEW i \in 1..8, Pos(v)' = Page[i]
          PROVE  \E k \in 1..8 : k <= i /\ Pos(v) = Page[k]
      <3>1. CASE v # u
        BY <1>9, <2>1, <3>1
      <3>2. CASE v = u
        <4>1. u # "main"
          BY <3>2, UserFacts
        <4>2. at[u] # "history"
          BY <1>10, <2>1, <3>2, <4>1, PageElements
        <4>3. PICK k \in 1..8 : at[u] = Page[k]
          BY <1>5, <4>1, <4>2
        <4>4. k < i
          BY <1>10, <2>1, <3>2, <4>1, <4>2, <4>3, PageGoesOn
        <4>5. QED
          BY <1>10, <3>2, <4>1, <4>3, <4>4
      <3>3. QED
        BY <3>1, <3>2
    <2>2. QED
      BY <2>1
  <1>12. PageInv'
    BY <1>1, <1>2, <1>11, PageRests
  <1>13. \A v \in Visitors :
             /\ Pos(v) \in {"idle", "history"} => Pos(v)' \in {"idle", "history"}
             /\ at'[v] = "history" => at[v] = "history"
    <2>1. ASSUME NEW v \in Visitors
          PROVE  /\ Pos(v) \in {"idle", "history"} => Pos(v)' \in {"idle", "history"}
                 /\ at'[v] = "history" => at[v] = "history"
      <3>1. CASE v # u
        BY <1>9, <3>1
      <3>2. CASE v = u
        <4>1. u # "main"
          BY <3>2, UserFacts
        <4>2. at[u] # "idle"
          BY <1>1 DEF InQuery
        <4>3. QED
          BY <1>10, <3>2, <4>1, <4>2
      <3>3. QED
        BY <3>1, <3>2
    <2>2. QED
      BY <2>1
  <1>14. Records' = Records
    BY <1>1 DEF Records
  <1>15. RowInv'
    BY <1>1, <1>7, <1>13, <1>14, RowsRest
  <1>16. StoredInv'
    <2>1. CASE u # "main"
      <3>1. at'["main"] = at["main"]
        BY <1>3, <2>1, UserFacts
      <3>2. faults' >= faults
        BY <1>1, <1>2
      <3>3. QED
        BY <1>1, <1>2, <3>1, <3>2, StoredRests
    <2>2. CASE u = "main"
      <3> DEFINE C == Cardinality({m \in Messages : db_rc[m] = "TE_ok"})
      <3>1. C \in Nat
        <4>1. {m \in Messages : db_rc[m] = "TE_ok"} \in SUBSET Messages
          OBVIOUS
        <4>2. QED
          BY <4>1, AprsIsAssumption, FS_Subset, FS_CardinalityType
      <3>2. at["main"] \notin {"delete", "new", "idle"} /\ at'["main"] = "delete"
        BY <1>1, <1>3, <2>2 DEF InQuery
      <3>3. Len(stored) + faults >= C + 0
        BY <1>1, <3>2 DEF StoredInv
      <3>4. C' = C
        BY <1>1
      <3> HIDE DEF C
      <3>5. Len(stored) + faults' >= C + 1
        BY <1>1, <1>2, <3>1, <3>3
      <3>6. QED
        BY <1>1, <3>2, <3>4, <3>5 DEF StoredInv, C
    <2>3. QED
      BY <2>1, <2>2
  <1>17. QED
    BY <1>7, <1>8, <1>12, <1>15, <1>16 DEF DbInv

\* Whoever deletes m_c while another is at the database is noticed.
LEMMA DeleteKeeps ==
    ASSUME DbInv, NEW u \in Users, Delete(u)
    PROVE  DbInv'
  <1>1. /\ DbTypeOK /\ ClientInv /\ PageInv /\ RowInv /\ StoredInv
        /\ at[u] = "delete" /\ at' = [at EXCEPT ![u] = "new"]
        /\ deleted' = deleted \cup {client}
        /\ \/ UNCHANGED crashed
           \/ client \in deleted /\ crashed' = TRUE
        /\ overlap' = (overlap \/ \E w \in Users \ {u} : at[w] \notin {"idle", "linked"})
        /\ UNCHANGED <<stored, client, clients, using, inserting, back, table,
                       rows, link, faults, db_rc>>
    BY DEF DbInv, Delete
  <1>2. /\ DOMAIN at' = Users /\ \A w \in Users : at'[w] \in Doing(w)
        /\ at'[u] = "new"
        /\ \A w \in Users : w # u => at'[w] = at[w]
    BY <1>1, GoesOn, UserFacts
  <1>3. at["main"] # "idle" <=> at'["main"] # "idle"
    BY <1>1, <1>2, UserFacts
  <1>4. deleted' \subseteq 1..clients
    <2>1. client \in 1..clients /\ deleted \subseteq 1..clients
      BY <1>1 DEF DbTypeOK
    <2>2. QED
      BY <1>1, <2>1
  <1>5. overlap' \in BOOLEAN /\ crashed' \in BOOLEAN
    BY <1>1 DEF DbTypeOK
  <1>6. DbTypeOK'
    BY <1>1, <1>2, <1>3, <1>4, <1>5 DEF DbTypeOK
  <1>7. ClientInv'
    <2>1. SUFFICES ASSUME ~overlap'
                   PROVE  /\ ~crashed'
                          /\ client' \in deleted' => \E w \in Users : at'[w] = "new"
                          /\ \A w \in Users : InQuery(w)' => using'[w] \notin deleted'
      BY DEF ClientInv
    <2>2. ~overlap /\ \A w \in Users : w # u => at[w] \in {"idle", "linked"}
      BY <1>1, <2>1
    <2>3. \A w \in Users : at[w] # "new"
      BY <1>1, <2>2
    <2>4. client \notin deleted /\ ~crashed
      BY <1>1, <2>2, <2>3 DEF ClientInv
    <2>5. ~crashed'
      BY <1>1, <2>4
    <2>6. \A w \in Users : ~InQuery(w)'
      BY <1>2, <2>2 DEF InQuery
    <2>7. QED
      BY <1>2, <2>5, <2>6
  <1>8. \A v \in Visitors : Pos(v)' = Pos(v) /\ (at'[v] = "history" => at[v] = "history")
    BY <1>1, <1>2, UserFacts DEF Pos
  <1>9. Len(stored) \in Nat /\ Records' = Records /\ faults \in Nat
    BY <1>1 DEF DbTypeOK, Records
  <1>10. PageInv'
    BY <1>1, <1>8, <1>9, PageRests
  <1>11. RowInv'
    BY <1>1, <1>6, <1>8, <1>9, RowsRest
  <1>12. at'["main"] \in {"delete", "new"} => at["main"] \in {"delete", "new"}
    BY <1>1, <1>2, UserFacts
  <1>13. StoredInv'
    BY <1>1, <1>3, <1>9, <1>12, StoredRests
  <1>14. QED
    BY <1>6, <1>7, <1>10, <1>11, <1>13 DEF DbInv

\* The new client is one that was never deleted.
LEMMA NewKeeps ==
    ASSUME DbInv, NEW u \in Users, New(u)
    PROVE  DbInv'
  <1>1. /\ DbTypeOK /\ ClientInv /\ PageInv /\ RowInv /\ StoredInv
        /\ at[u] = "new" /\ clients' = clients + 1 /\ client' = clients'
        /\ \/ u = "main" /\ DbReturn /\ UNCHANGED using
           \/ /\ u # "main"
              /\ at' = [at EXCEPT ![u] = back[u]]
              /\ using' = [using EXCEPT ![u] = client']
              /\ UNCHANGED db_rc
        /\ UNCHANGED <<stored, deleted, inserting, back, table, rows, link, faults,
                       overlap, crashed>>
    BY DEF DbInv, New
  <1>2. /\ clients \in Nat \ {0} /\ clients' \in Nat \ {0}
        /\ client' \in 0..clients' /\ 0..clients \subseteq 0..clients'
        /\ deleted \subseteq 1..clients' /\ client' \notin deleted
        /\ Len(stored) \in Nat /\ faults \in Nat /\ Records' = Records
    <2>1. clients \in Nat \ {0} /\ deleted \subseteq 1..clients
      BY <1>1 DEF DbTypeOK
    <2>2. /\ clients' \in Nat \ {0} /\ client' \in 0..clients'
          /\ 0..clients \subseteq 0..clients' /\ 1..clients \subseteq 1..clients'
          /\ client' \notin 1..clients
      BY <1>1, <2>1
    <2>3. Len(stored) \in Nat /\ faults \in Nat /\ Records' = Records
      BY <1>1 DEF DbTypeOK, Records
    <2>4. QED
      BY <2>1, <2>2, <2>3
  <1>3. u # "main" => /\ u \in Visitors /\ back[u] \in Tables \cup {"idle", "linked"}
                      /\ back[u] \in Doing(u)
    <2>1. u # "main" => u \in Visitors
      BY UserFacts
    <2>2. back \in [Visitors -> Tables \cup {"idle", "linked"}]
      BY <1>1 DEF DbTypeOK
    <2>3. \A v \in Visitors : back[v] \in Tables \cup {"idle", "linked"}
      BY <2>2
    <2>4. ASSUME NEW v \in Visitors PROVE back[v] \in Doing(v)
      <3>1. Doing(v) = ToSet(Page) \cup {"idle", "linked", "history", "delete", "new"}
        BY UserFacts
      <3>2. ToSet(Page) = Tables \cup {"discarded"}
        BY PageElements
      <3>3. QED
        BY <2>3, <3>1, <3>2
    <2>5. QED
      BY <2>1, <2>3, <2>4
  <1>4. /\ DOMAIN at' = Users /\ \A w \in Users : at'[w] \in Doing(w)
        /\ at'[u] = IF u = "main" THEN "idle" ELSE back[u]
        /\ \A w \in Users : w # u => at'[w] = at[w]
    <2>1. CASE u = "main"
      BY <1>1, <2>1, GoesOn, UserFacts DEF DbReturn
    <2>2. CASE u # "main"
      BY <1>1, <1>3, <2>2, GoesOn, UserFacts
    <2>3. QED
      BY <2>1, <2>2
  <1>5. using' \in [Users -> 0..clients']
    BY <1>1, <1>2 DEF DbTypeOK
  <1>6. db_rc' \in [Messages -> {"none", "TE_ok"}]
    <2>1. CASE u = "main"
      BY <1>1, <2>1, OneMoreSaid
    <2>2. CASE u # "main"
      BY <1>1, <2>2 DEF DbTypeOK
    <2>3. QED
      BY <2>1, <2>2
  <1>7. at'["main"] # "idle" => at["main"] # "idle"
    BY <1>4, UserFacts
  <1>8. DbTypeOK'
    BY <1>1, <1>2, <1>4, <1>5, <1>6, <1>7 DEF DbTypeOK
  <1>9. ClientInv'
    <2>1. SUFFICES ASSUME ~overlap
                   PROVE  \A w \in Users : InQuery(w)' => using'[w] \notin deleted
      BY <1>1, <1>2 DEF ClientInv
    <2>2. ASSUME NEW w \in Users, InQuery(w)'
          PROVE  using'[w] \notin deleted
      <3>1. CASE w = u
        <4>1. u # "main"
          BY <1>4, <2>2, <3>1 DEF InQuery
        <4>2. using'[u] = client'
          BY <1>1, <4>1 DEF DbTypeOK
        <4>3. QED
          BY <1>2, <3>1, <4>2
      <3>2. CASE w # u
        <4>1. at'[w] = at[w] /\ using'[w] = using[w]
          BY <1>1, <1>4, <3>2 DEF DbTypeOK
        <4>2. InQuery(w)
          BY <2>2, <4>1 DEF InQuery
        <4>3. QED
          BY <1>1, <2>1, <4>1, <4>2 DEF ClientInv
      <3>3. QED
        BY <3>1, <3>2
    <2>3. QED
      BY <2>2
  <1>10. \A v \in Visitors : Pos(v)' = Pos(v) /\ (at'[v] = "history" => at[v] = "history")
    <2>1. ASSUME NEW v \in Visitors
          PROVE  Pos(v)' = Pos(v) /\ (at'[v] = "history" => at[v] = "history")
      <3>1. CASE v = u
        <4>1. /\ u # "main" /\ back'[u] = back[u] /\ at'[u] = back[u]
              /\ back[u] \notin {"delete", "new", "history"}
          BY <1>1, <1>3, <1>4, <3>1, UserFacts, PageElements
        <4>2. QED
          BY <1>1, <3>1, <4>1 DEF Pos
      <3>2. CASE v # u
        BY <1>1, <1>4, <3>2, UserFacts DEF Pos
      <3>3. QED
        BY <3>1, <3>2
    <2>2. QED
      BY <2>1
  <1>11. PageInv'
    BY <1>1, <1>2, <1>10, PageRests
  <1>12. RowInv'
    BY <1>1, <1>2, <1>8, <1>10, RowsRest
  <1>13. StoredInv'
    <2>1. CASE u # "main"
      <3>1. at'["main"] = at["main"]
        BY <1>4, <2>1, UserFacts
      <3>2. QED
        BY <1>1, <1>2, <2>1, <3>1, StoredRests
    <2>2. CASE u = "main"
      <3> DEFINE C == {m \in Messages : db_rc[m] = "TE_ok"}
      <3>1. /\ Cardinality(C) \in Nat /\ Cardinality(C') \in Nat
            /\ Cardinality(C') <= Cardinality(C) + 1
        BY <1>1, <2>2, OneMoreSaid
      <3>2. Len(stored) + faults >= Cardinality(C) + 1
        BY <1>1, <2>2 DEF StoredInv
      <3>3. at'["main"] = "idle"
        BY <1>4, <2>2
      <3> HIDE DEF C
      <3>4. Len(stored) + faults >= Cardinality(C') + 0
        BY <1>2, <3>1, <3>2
      <3>5. QED
        BY <1>1, <3>3, <3>4 DEF StoredInv, C
    <2>3. QED
      BY <2>1, <2>2
  <1>14. QED
    BY <1>8, <1>9, <1>11, <1>12, <1>13 DEF DbInv

\* Nothing happens at the database.
LEMMA DbRests ==
    ASSUME DbInv, UNCHANGED <<stored, client, clients, deleted, at, using, inserting,
                              back, table, rows, link, faults, overlap, db_rc>>,
           crashed' = crashed \/ (crashed' = TRUE /\ overlap)
    PROVE  DbInv'
  <1>1. /\ DbTypeOK /\ ClientInv /\ PageInv /\ RowInv /\ StoredInv
    BY DEF DbInv
  <1>2. DbTypeOK'
    BY <1>1 DEF DbTypeOK
  <1>3. ClientInv'
    BY <1>1 DEF ClientInv, InQuery
  <1>4. Len(stored) \in Nat /\ faults \in Nat /\ Records' = Records
    BY <1>1 DEF DbTypeOK, Records
  <1>5. \A v \in Visitors : Pos(v)' = Pos(v) /\ at'[v] = at[v]
    BY DEF Pos
  <1>6. PageInv'
    BY <1>1, <1>4, <1>5, PageRests
  <1>7. RowInv'
    BY <1>1, <1>2, <1>4, <1>5, RowsRest
  <1>8. StoredInv'
    BY <1>1, <1>4, StoredRests
  <1>9. QED
    BY <1>2, <1>3, <1>6, <1>7, <1>8 DEF DbInv

\* Only a client that was deleted under somebody's hands makes the program die.
LEMMA DieKeeps ==
    ASSUME DbInv, NEW u \in Users, Die(u)
    PROVE  DbInv'
  <1>1. overlap
    BY DEF DbInv, DbTypeOK, ClientInv, Die, Dies
  <1>2. QED
    BY <1>1, DbRests DEF Die, Dies

-----------------------------------------------------------------------------
(* What the steps of an outlet do to main and to the other messages.       *)

AprsAny == AprsStep \/ Arrive \/ Cut

LEMMA AprsAnyKeeps ==
    ASSUME AprsInv, AprsAny
    PROVE  AprsInv'
  BY ConnectKeeps, LoginKeeps, ReplyKeeps, WritePayloadKeeps, ArriveKeeps, CutKeeps
     DEF AprsAny, AprsStep

LEMMA AprsAnyDoes ==
    ASSUME AprsInv, AprsAny
    PROVE  /\ UNCHANGED <<uplinked, accepted>>
           /\ aprs' # "idle" => aprs # "idle"
           /\ \/ UNCHANGED aprs_rc
              \/ aprs # "idle" /\ \E rc : AprsReturn(uplinked, rc)
  BY DEF AprsAny, AprsStep, Connect, Login, Reply, WritePayload, Fails, Arrive, Cut

LEMMA AprsOthers ==
    ASSUME AprsInv, NEW y \in Messages, AprsFresh(y),
           \/ AprsAny /\ (aprs # "idle" => y # uplinked)
           \/ \E m \in Messages : AprsPut(m) /\ m # y
    PROVE  AprsFresh(y)'
  <1>1. /\ accepted \in Seq(Messages)
        /\ aprs_rc \in [Messages -> {"none", "TE_hardware", "TE_ok", "TE_ratelimiting"}]
    BY DEF AprsInv, AprsTypeOK
  <1>2. CASE AprsAny /\ (aprs # "idle" => y # uplinked)
    <2>1. accepted' = accepted /\ aprs_rc'[y] = aprs_rc[y]
      BY <1>1, <1>2, AprsAnyDoes DEF AprsReturn
    <2>2. QED
      BY <2>1 DEF AprsFresh
  <1>3. CASE \E m \in Messages : AprsPut(m) /\ m # y
    <2>1. PICK m \in Messages : AprsPut(m) /\ m # y
      BY <1>3
    <2>2. aprs_rc'[y] = aprs_rc[y]
      BY <1>1, <2>1 DEF AprsPut, AprsReturn
    <2>3. \A k \in DOMAIN accepted' : accepted'[k] # y
      <3>1. CASE accepted' = accepted
        BY <3>1 DEF AprsFresh
      <3>2. CASE accepted' = Append(accepted, m)
        <4>1. \A k \in DOMAIN accepted' : k \in DOMAIN accepted \/ k = Len(accepted) + 1
          BY <1>1, <3>2
        <4>2. \A k \in DOMAIN accepted : accepted'[k] = accepted[k]
          BY <1>1, <3>2
        <4>3. accepted'[Len(accepted) + 1] = m
          BY <1>1, <3>2
        <4>4. QED
          BY <2>1, <4>1, <4>2, <4>3 DEF AprsFresh
      <3>3. QED
        BY <2>1, <3>1, <3>2 DEF AprsPut
    <2>4. QED
      BY <2>2, <2>3 DEF AprsFresh
  <1>4. QED
    BY <1>2, <1>3

MqttAny == MqttStep \/ Deliver \/ BrokerGone \/ Noticed \/ BrokerBack

LEMMA MqttAnyKeeps ==
    ASSUME MqttInv, MqttAny
    PROVE  /\ MqttInv'
           /\ UNCHANGED published
           /\ mqtt' # "idle" => mqtt # "idle"
  <1>1. CASE MqttStep
    <2>1. MqttInv'
      BY <1>1, PublishRawKeeps, PublishJsonKeeps DEF MqttStep
    <2>2. QED
      BY <1>1, <2>1 DEF MqttStep, PublishRaw, PublishJson, MqttReturn
  <1>2. CASE Deliver
    BY <1>2, DeliverKeeps DEF Deliver
  <1>3. CASE BrokerGone
    BY <1>3, BrokerGoneKeeps DEF BrokerGone
  <1>4. CASE Noticed \/ BrokerBack
    <2>1. UNCHANGED <<mqtt, published, outbox, raw, json, severed, mqtt_rc>>
      BY <1>4 DEF Noticed, BrokerBack
    <2>2. QED
      BY <2>1, MqttRests
  <1>5. QED
    BY <1>1, <1>2, <1>3, <1>4 DEF MqttAny

LEMMA MqttAnyOthers ==
    ASSUME MqttInv, MqttAny, NEW y \in Messages, MqttFresh(y),
           mqtt # "idle" => y # published
    PROVE  MqttFresh(y)'
  <1>1. CASE MqttStep
    <2>1. PublishRaw \/ PublishJson
      BY <1>1 DEF MqttStep
    <2>2. mqtt # "idle"
      BY <2>1 DEF PublishRaw, PublishJson
    <2>3. QED
      BY <2>1, <2>2, MqttOthers
  <1>2. CASE Deliver \/ BrokerGone
    BY <1>2, DeliverKeeps, BrokerGoneKeeps
  <1>3. CASE Noticed \/ BrokerBack
    BY <1>3 DEF Noticed, BrokerBack, MqttFresh, On, Queued
  <1>4. QED
    BY <1>1, <1>2, <1>3 DEF MqttAny

DbAny ==
    \/ Insert \/ InsertFails
    \/ \E u \in Users : Fault(u) \/ Die(u) \/ Delete(u) \/ New(u)
    \/ \E v \in Visitors : Visit(v) \/ Query(v) \/ Click(v) \/ ShowHistory(v)

LEMMA DbAnyKeeps ==
    ASSUME DbInv, DbAny
    PROVE  DbInv'
  BY InsertKeeps, InsertFailsKeeps, FaultKeeps, DieKeeps, DeleteKeeps, NewKeeps,
     VisitKeeps, QueryKeeps, ClickKeeps, ShowHistoryKeeps DEF DbAny

LEMMA DbAnyDoes ==
    ASSUME DbInv, DbAny
    PROVE  /\ UNCHANGED inserting
           /\ at'["main"] # "idle" => at["main"] # "idle"
           /\ \/ UNCHANGED <<stored, db_rc>>
              \/ /\ at["main"] # "idle" /\ DbReturn
                 /\ UNCHANGED stored \/ stored' = Append(stored, inserting)
  <1>1. DOMAIN at = Users /\ "main" \in Users
    BY UserFacts DEF DbInv, DbTypeOK
  <1>2. CASE Insert \/ InsertFails
    BY <1>1, <1>2 DEF Insert, InsertFails, DbReturn
  <1>3. ASSUME NEW u \in Users, Fault(u) \/ Die(u) \/ Delete(u)
        PROVE  /\ UNCHANGED <<inserting, stored, db_rc>>
               /\ at'["main"] # "idle" => at["main"] # "idle"
    BY <1>1, <1>3 DEF Fault, Die, Delete, InQuery
  <1>4. ASSUME NEW u \in Users, New(u)
        PROVE  /\ UNCHANGED <<inserting, stored>>
               /\ at'["main"] # "idle" => at["main"] # "idle"
               /\ UNCHANGED db_rc \/ (at["main"] # "idle" /\ DbReturn)
    BY <1>1, <1>4 DEF New, DbReturn
  <1>5. ASSUME NEW v \in Visitors, Visit(v) \/ Query(v) \/ Click(v) \/ ShowHistory(v)
        PROVE  /\ UNCHANGED <<inserting, stored, db_rc>>
               /\ at'["main"] = at["main"]
    BY <1>1, <1>5, UserFacts DEF Visit, Query, Click, ShowHistory, Fetch
  <1>6. QED
    BY <1>2, <1>3, <1>4, <1>5 DEF DbAny

LEMMA DbOthers ==
    ASSUME DbInv, DbAny, NEW y \in Messages, DbFresh(y),
           at["main"] # "idle" => y # inserting[1]
    PROVE  DbFresh(y)'
  <1>1. /\ stored \in Seq(Messages \X (0..MaxTime))
        /\ db_rc \in [Messages -> {"none", "TE_ok"}]
        /\ at["main"] # "idle" => inserting \in Messages \X (0..MaxTime)
    BY DEF DbInv, DbTypeOK
  <1>2. CASE UNCHANGED <<stored, db_rc>>
    BY <1>2 DEF DbFresh
  <1>3. CASE /\ at["main"] # "idle" /\ DbReturn
             /\ UNCHANGED stored \/ stored' = Append(stored, inserting)
    <2>1. db_rc'[y] = db_rc[y]
      BY <1>1, <1>3 DEF DbReturn
    <2>2. \A i \in DOMAIN stored' : stored'[i][1] # y
      <3>1. CASE stored' = stored
        BY <3>1 DEF DbFresh
      <3>2. CASE stored' = Append(stored, inserting)
        <4>1. \A i \in DOMAIN stored' : i \in DOMAIN stored \/ i = Len(stored) + 1
          BY <1>1, <1>3, <3>2
        <4>2. \A i \in DOMAIN stored : stored'[i] = stored[i]
          BY <1>1, <1>3, <3>2
        <4>3. stored'[Len(stored) + 1] = inserting
          BY <1>1, <1>3, <3>2
        <4>4. QED
          BY <1>3, <4>1, <4>2, <4>3 DEF DbFresh
      <3>3. QED
        BY <1>3, <3>1, <3>2
    <2>3. QED
      BY <2>1, <2>2 DEF DbFresh
  <1>4. QED
    BY <1>2, <1>3, DbAnyDoes

-----------------------------------------------------------------------------
(* main: one lemma per step.                                               *)

\* What main has in its hand is the first, and the others come later.
LEMMA TodoFacts ==
    ASSUME TurnInv
    PROVE  /\ DOMAIN todo = 1..Len(todo) /\ Len(todo) \in Nat
           /\ \A i \in DOMAIN todo : todo[i] \in Messages
           /\ todo # <<>> => 1 \in DOMAIN todo /\ Head(todo) = todo[1]
           /\ \A i \in DOMAIN todo : i > 1 => todo[i] # todo[1]
           /\ \A i \in DOMAIN todo : i > 1 \/ i = 1
  <1>1. todo \in Seq(Messages) /\ \A i, j \in DOMAIN todo : todo[i] = todo[j] => i = j
    BY DEF TurnInv
  <1>2. /\ DOMAIN todo = 1..Len(todo) /\ Len(todo) \in Nat
        /\ \A i \in DOMAIN todo : todo[i] \in Messages
        /\ todo # <<>> => 1 \in DOMAIN todo /\ Head(todo) = todo[1]
    BY <1>1
  <1>3. \A i \in DOMAIN todo : i > 1 => todo[i] # todo[1]
    <2>1. ASSUME NEW i \in DOMAIN todo, i > 1
          PROVE  todo[i] # todo[1]
      <3>1. 1 \in DOMAIN todo /\ i # 1
        BY <1>2, <2>1
      <3>2. QED
        BY <1>1, <3>1
    <2>2. QED
      BY <2>1
  <1>4. QED
    BY <1>2, <1>3

LEMMA TakeKeeps ==
    ASSUME IInv, Take
    PROVE  IInv'
  <1>1. /\ AprsInv /\ MqttInv /\ DbInv /\ TurnInv /\ FreshInv
        /\ turn = "take" /\ todo # <<>> /\ AprsPut(Head(todo)) /\ turn' = "aprs"
        /\ UNCHANGED mqtt_vars /\ UNCHANGED db_vars /\ UNCHANGED <<todo, exited, troubled>>
    BY DEF IInv, Take
  <1>2. /\ Head(todo) = todo[1] /\ 1 \in DOMAIN todo
        /\ \A i \in DOMAIN todo : todo[i] \in Messages /\ (i > 1 => todo[i] # todo[1])
    BY <1>1, TodoFacts
  <1>3. AprsFresh(todo[1])
    BY <1>1, <1>2 DEF FreshInv
  <1>4. AprsInv'
    BY <1>1, <1>2, <1>3, AprsPutKeeps
  <1>5. MqttInv'
    BY <1>1, MqttRests DEF mqtt_vars
  <1>6. DbInv'
    BY <1>1, DbRests DEF db_vars
  <1>7. TurnInv'
    BY <1>1, <1>2 DEF TurnInv, AprsPut, mqtt_vars, db_vars
  <1>8. FreshInv'
    <2>1. ASSUME NEW i \in DOMAIN todo
          PROVE  /\ i > 1 => AprsFresh(todo[i])'
                 /\ MqttFresh(todo[i])' /\ DbFresh(todo[i])'
      <3>1. /\ AprsFresh(todo[i]) /\ MqttFresh(todo[i]) /\ DbFresh(todo[i])
        BY <1>1, <2>1 DEF FreshInv
      <3>2. i > 1 => AprsFresh(todo[i])'
        <4>1. ASSUME i > 1 PROVE AprsFresh(todo[i])'
          <5>1. \E m \in Messages : AprsPut(m) /\ m # todo[i]
            BY <1>1, <1>2, <4>1
          <5>2. ASSUME NEW y, y = todo[i]
                PROVE  AprsFresh(y)'
            BY <1>1, <1>2, <3>1, <5>1, <5>2, AprsOthers
          <5>3. QED
            BY <1>1, <5>2
        <4>2. QED
          BY <4>1
      <3>3. MqttFresh(todo[i])' /\ DbFresh(todo[i])'
        BY <1>1, <3>1 DEF MqttFresh, On, Queued, mqtt_vars, DbFresh, db_vars
      <3>4. QED
        BY <3>2, <3>3
    <2>2. QED
      BY <1>1, <2>1 DEF FreshInv
  <1>9. QED
    BY <1>4, <1>5, <1>6, <1>7, <1>8 DEF IInv

LEMMA ToMqttKeeps ==
    ASSUME IInv, ToMqtt
    PROVE  IInv'
  <1>1. /\ AprsInv /\ MqttInv /\ DbInv /\ TurnInv /\ FreshInv
        /\ turn = "aprs" /\ aprs = "idle" /\ MqttPut(Head(todo)) /\ turn' = "mqtt"
        /\ UNCHANGED aprs_vars /\ UNCHANGED db_vars /\ UNCHANGED <<todo, exited, troubled>>
    BY DEF IInv, ToMqtt
  <1>2. /\ todo # <<>> /\ Head(todo) = todo[1] /\ 1 \in DOMAIN todo
        /\ \A i \in DOMAIN todo : todo[i] \in Messages
    BY <1>1, TodoFacts DEF TurnInv
  <1>3. MqttFresh(todo[1])
    BY <1>1, <1>2 DEF FreshInv
  <1>4. MqttInv'
    BY <1>1, <1>2, <1>3, MqttPutKeeps
  <1>5. AprsInv'
    BY <1>1, AprsRests
  <1>6. DbInv'
    BY <1>1, DbRests DEF db_vars
  <1>7. TurnInv'
    BY <1>1, <1>2 DEF TurnInv, MqttPut, aprs_vars, db_vars
  <1>8. FreshInv'
    <2>1. ASSUME NEW i \in DOMAIN todo
          PROVE  /\ i > 1 => AprsFresh(todo[i])' /\ MqttFresh(todo[i])'
                 /\ DbFresh(todo[i])'
      <3>1. /\ i > 1 => AprsFresh(todo[i])
            /\ MqttFresh(todo[i]) /\ DbFresh(todo[i])
        BY <1>1, <2>1 DEF FreshInv
      <3>2. QED
        BY <1>1, <3>1 DEF MqttFresh, MqttPut, On, Queued, AprsFresh, aprs_vars, DbFresh, db_vars
    <2>2. QED
      BY <1>1, <2>1 DEF FreshInv
  <1>9. QED
    BY <1>4, <1>5, <1>6, <1>7, <1>8 DEF IInv

LEMMA ToDatabaseKeeps ==
    ASSUME IInv, ToDatabase
    PROVE  IInv'
  <1>1. /\ AprsInv /\ MqttInv /\ DbInv /\ TurnInv /\ FreshInv
        /\ turn = "mqtt" /\ mqtt = "idle" /\ DbPut(Head(todo)) /\ turn' = "db"
        /\ UNCHANGED aprs_vars /\ UNCHANGED mqtt_vars
        /\ UNCHANGED <<todo, exited, troubled>>
    BY DEF IInv, ToDatabase
  <1>2. /\ todo # <<>> /\ Head(todo) = todo[1] /\ 1 \in DOMAIN todo
        /\ \A i \in DOMAIN todo : todo[i] \in Messages
    BY <1>1, TodoFacts DEF TurnInv
  <1>3. DbFresh(todo[1])
    BY <1>1, <1>2 DEF FreshInv
  <1>4. DbInv'
    BY <1>1, <1>2, <1>3, DbPutKeeps
  <1>5. AprsInv'
    BY <1>1, AprsRests
  <1>6. MqttInv'
    BY <1>1, MqttRests DEF mqtt_vars
  <1>7. TurnInv'
    <2>1. inserting'[1] = todo[1]
      BY <1>1, <1>2 DEF DbPut
    <2>2. QED
      BY <1>1, <1>2, <2>1 DEF TurnInv, aprs_vars, mqtt_vars
  <1>8. FreshInv'
    <2>1. ASSUME NEW i \in DOMAIN todo, i > 1
          PROVE  AprsFresh(todo[i])' /\ MqttFresh(todo[i])' /\ DbFresh(todo[i])'
      <3>1. AprsFresh(todo[i]) /\ MqttFresh(todo[i]) /\ DbFresh(todo[i])
        BY <1>1, <2>1 DEF FreshInv
      <3>2. QED
        BY <1>1, <3>1 DEF MqttFresh, On, Queued, mqtt_vars, AprsFresh, aprs_vars, DbFresh, DbPut
    <2>2. QED
      BY <1>1, <2>1 DEF FreshInv
  <1>9. QED
    BY <1>4, <1>5, <1>6, <1>7, <1>8 DEF IInv

\* The next message has been nowhere.
LEMMA DoneKeeps ==
    ASSUME IInv, Done
    PROVE  IInv'
  <1>1. /\ AprsInv /\ MqttInv /\ DbInv /\ TurnInv /\ FreshInv
        /\ turn = "db" /\ at["main"] = "idle" /\ todo' = Tail(todo) /\ turn' = "take"
        /\ UNCHANGED aprs_vars /\ UNCHANGED mqtt_vars /\ UNCHANGED db_vars
        /\ UNCHANGED <<exited, troubled>>
    BY DEF IInv, Done
  <1>2. /\ todo \in Seq(Messages) /\ todo # <<>> /\ aprs = "idle" /\ mqtt = "idle"
        /\ \A i, j \in DOMAIN todo : todo[i] = todo[j] => i = j
    BY <1>1 DEF TurnInv
  <1>3. /\ todo' \in Seq(Messages)
        /\ \A i \in DOMAIN todo' : /\ i + 1 \in DOMAIN todo /\ i + 1 > 1 /\ i \in Nat
                                   /\ todo'[i] = todo[i + 1]
    BY <1>1, <1>2
  <1>4. \A i, j \in DOMAIN todo' : todo'[i] = todo'[j] => i = j
    <2>1. ASSUME NEW i \in DOMAIN todo', NEW j \in DOMAIN todo', todo'[i] = todo'[j]
          PROVE  i = j
      <3>1. i + 1 = j + 1 /\ i \in Nat /\ j \in Nat
        BY <1>2, <1>3, <2>1
      <3>2. QED
        BY <3>1
    <2>2. QED
      BY <2>1
  <1>5. AprsInv' /\ MqttInv' /\ DbInv'
    BY <1>1, AprsRests, MqttRests, DbRests DEF mqtt_vars, db_vars
  <1>6. TurnInv'
    BY <1>1, <1>2, <1>3, <1>4 DEF TurnInv, aprs_vars, mqtt_vars, db_vars
  <1>7. FreshInv'
    <2>1. ASSUME NEW y, AprsFresh(y), MqttFresh(y), DbFresh(y)
          PROVE  AprsFresh(y)' /\ MqttFresh(y)' /\ DbFresh(y)'
      BY <1>1, <2>1 DEF AprsFresh, aprs_vars, MqttFresh, On, Queued, mqtt_vars, DbFresh, db_vars
    <2>2. ASSUME NEW i \in DOMAIN todo', NEW y, y = todo'[i]
          PROVE  AprsFresh(y)' /\ MqttFresh(y)' /\ DbFresh(y)'
      <3>1. i + 1 \in DOMAIN todo /\ i + 1 > 1 /\ y = todo[i + 1]
        BY <1>3, <2>2
      <3>2. AprsFresh(y) /\ MqttFresh(y) /\ DbFresh(y)
        BY <1>1, <3>1 DEF FreshInv
      <3>3. QED
        BY <2>1, <3>2
    <2>3. QED
      BY <2>2 DEF FreshInv
  <1>8. QED
    BY <1>5, <1>6, <1>7 DEF IInv

\* While an outlet works, main waits and the other messages are left alone.
LEMMA AprsWorks ==
    ASSUME IInv, AprsAny, UNCHANGED <<mqtt_vars, db_vars, main_vars>>
    PROVE  IInv'
  <1>1. /\ AprsInv /\ MqttInv /\ DbInv /\ TurnInv /\ FreshInv
        /\ UNCHANGED mqtt_vars /\ UNCHANGED db_vars /\ UNCHANGED <<todo, turn>>
    BY DEF IInv, main_vars
  <1>2. AprsInv' /\ MqttInv' /\ DbInv'
    BY <1>1, AprsAnyKeeps, MqttRests, DbRests DEF mqtt_vars, db_vars
  <1>3. UNCHANGED uplinked /\ (aprs' # "idle" => aprs # "idle")
    BY <1>1, AprsAnyDoes
  <1>4. TurnInv'
    BY <1>1, <1>3 DEF TurnInv, mqtt_vars, db_vars
  <1>5. FreshInv'
    <2>1. ASSUME NEW i \in DOMAIN todo, NEW y, y = todo[i]
          PROVE  /\ i > 1 \/ turn = "take" => AprsFresh(y)'
                 /\ i > 1 \/ turn \in {"take", "aprs"} => MqttFresh(y)'
                 /\ i > 1 \/ turn \in {"take", "aprs", "mqtt"} => DbFresh(y)'
      <3>1. /\ i > 1 \/ turn = "take" => AprsFresh(y)
            /\ i > 1 \/ turn \in {"take", "aprs"} => MqttFresh(y)
            /\ i > 1 \/ turn \in {"take", "aprs", "mqtt"} => DbFresh(y)
        BY <1>1, <2>1 DEF FreshInv
      <3>2. ASSUME i > 1 \/ turn = "take"
            PROVE  AprsFresh(y)'
        <4>1. aprs # "idle" => y # uplinked
          BY <1>1, <2>1, <3>2, TodoFacts DEF TurnInv
        <4>2. y \in Messages /\ AprsFresh(y)
          BY <1>1, <2>1, <3>1, <3>2, TodoFacts
        <4>3. QED
          BY <1>1, <4>1, <4>2, AprsOthers
      <3>3. QED
        BY <1>1, <3>1, <3>2 DEF MqttFresh, On, Queued, mqtt_vars, DbFresh, db_vars
    <2>2. QED
      BY <1>1, <2>1 DEF FreshInv
  <1>6. QED
    BY <1>2, <1>4, <1>5 DEF IInv

LEMMA MqttWorks ==
    ASSUME IInv, MqttAny, UNCHANGED <<aprs_vars, db_vars, main_vars>>
    PROVE  IInv'
  <1>1. /\ AprsInv /\ MqttInv /\ DbInv /\ TurnInv /\ FreshInv
        /\ UNCHANGED aprs_vars /\ UNCHANGED db_vars /\ UNCHANGED <<todo, turn>>
    BY DEF IInv, main_vars
  <1>2. /\ AprsInv' /\ MqttInv' /\ DbInv'
        /\ UNCHANGED published /\ (mqtt' # "idle" => mqtt # "idle")
    BY <1>1, AprsRests, MqttAnyKeeps, DbRests DEF db_vars
  <1>3. TurnInv'
    BY <1>1, <1>2 DEF TurnInv, aprs_vars, db_vars
  <1>4. FreshInv'
    <2>1. ASSUME NEW i \in DOMAIN todo, NEW y, y = todo[i]
          PROVE  /\ i > 1 \/ turn = "take" => AprsFresh(y)'
                 /\ i > 1 \/ turn \in {"take", "aprs"} => MqttFresh(y)'
                 /\ i > 1 \/ turn \in {"take", "aprs", "mqtt"} => DbFresh(y)'
      <3>1. /\ i > 1 \/ turn = "take" => AprsFresh(y)
            /\ i > 1 \/ turn \in {"take", "aprs"} => MqttFresh(y)
            /\ i > 1 \/ turn \in {"take", "aprs", "mqtt"} => DbFresh(y)
        BY <1>1, <2>1 DEF FreshInv
      <3>2. ASSUME i > 1 \/ turn \in {"take", "aprs"}
            PROVE  MqttFresh(y)'
        <4>1. mqtt # "idle" => y # published
          BY <1>1, <2>1, <3>2, TodoFacts DEF TurnInv
        <4>2. y \in Messages /\ MqttFresh(y)
          BY <1>1, <2>1, <3>1, <3>2, TodoFacts
        <4>3. QED
          BY <1>1, <4>1, <4>2, MqttAnyOthers
      <3>3. QED
        BY <1>1, <3>1, <3>2 DEF AprsFresh, aprs_vars, DbFresh, db_vars
    <2>2. QED
      BY <1>1, <2>1 DEF FreshInv
  <1>5. QED
    BY <1>2, <1>3, <1>4 DEF IInv

LEMMA DbWorks ==
    ASSUME IInv, DbAny, UNCHANGED <<aprs_vars, mqtt_vars, main_vars>>
    PROVE  IInv'
  <1>1. /\ AprsInv /\ MqttInv /\ DbInv /\ TurnInv /\ FreshInv
        /\ UNCHANGED aprs_vars /\ UNCHANGED mqtt_vars /\ UNCHANGED <<todo, turn>>
    BY DEF IInv, main_vars
  <1>2. /\ AprsInv' /\ MqttInv' /\ DbInv'
        /\ UNCHANGED inserting /\ (at'["main"] # "idle" => at["main"] # "idle")
    BY <1>1, AprsRests, MqttRests, DbAnyKeeps, DbAnyDoes DEF mqtt_vars
  <1>3. TurnInv'
    BY <1>1, <1>2 DEF TurnInv, aprs_vars, mqtt_vars
  <1>4. FreshInv'
    <2>1. ASSUME NEW i \in DOMAIN todo, NEW y, y = todo[i]
          PROVE  /\ i > 1 \/ turn = "take" => AprsFresh(y)'
                 /\ i > 1 \/ turn \in {"take", "aprs"} => MqttFresh(y)'
                 /\ i > 1 \/ turn \in {"take", "aprs", "mqtt"} => DbFresh(y)'
      <3>1. /\ i > 1 \/ turn = "take" => AprsFresh(y)
            /\ i > 1 \/ turn \in {"take", "aprs"} => MqttFresh(y)
            /\ i > 1 \/ turn \in {"take", "aprs", "mqtt"} => DbFresh(y)
        BY <1>1, <2>1 DEF FreshInv
      <3>2. ASSUME i > 1 \/ turn \in {"take", "aprs", "mqtt"}
            PROVE  DbFresh(y)'
        <4>1. at["main"] # "idle" => y # inserting[1]
          BY <1>1, <2>1, <3>2, TodoFacts DEF TurnInv
        <4>2. y \in Messages /\ DbFresh(y)
          BY <1>1, <2>1, <3>1, <3>2, TodoFacts
        <4>3. QED
          BY <1>1, <4>1, <4>2, DbOthers
      <3>3. QED
        BY <1>1, <3>1, <3>2 DEF AprsFresh, aprs_vars, MqttFresh, On, Queued, mqtt_vars
    <2>2. QED
      BY <1>1, <2>1 DEF FreshInv
  <1>5. QED
    BY <1>2, <1>3, <1>4 DEF IInv

\* Nothing happens at any outlet, and main stays where it is.
LEMMA AllRest ==
    ASSUME IInv, UNCHANGED <<aprs_vars, mqtt_vars, db_vars, todo, turn>>
    PROVE  IInv'
  <1>1. /\ AprsInv /\ MqttInv /\ DbInv /\ TurnInv /\ FreshInv
        /\ UNCHANGED aprs_vars /\ UNCHANGED mqtt_vars /\ UNCHANGED db_vars
        /\ UNCHANGED <<todo, turn>>
    BY DEF IInv
  <1>2. AprsInv' /\ MqttInv' /\ DbInv'
    BY <1>1, AprsRests, MqttRests, DbRests DEF mqtt_vars, db_vars
  <1>3. TurnInv'
    BY <1>1 DEF TurnInv, aprs_vars, mqtt_vars, db_vars
  <1>4. FreshInv'
    BY <1>1 DEF FreshInv, AprsFresh, aprs_vars, MqttFresh, On, Queued, mqtt_vars,
                DbFresh, db_vars
  <1>5. QED
    BY <1>2, <1>3, <1>4 DEF IInv

-----------------------------------------------------------------------------
(* The invariant holds at the start and every step keeps it.               *)

LEMMA AllMessagesOnce ==
    /\ SetToSeq(Messages) \in Seq(Messages)
    /\ \A i, j \in DOMAIN SetToSeq(Messages) :
           SetToSeq(Messages)[i] = SetToSeq(Messages)[j] => i = j
  <1> DEFINE n == Cardinality(Messages)
             s == SetToSeq(Messages)
  <1>1. n \in Nat /\ ExistsBijection(1..n, Messages)
    BY AprsIsAssumption, FS_CardinalityType
  <1>2. \E f \in [1..n -> Messages] : IsInjective(f)
    BY <1>1 DEF ExistsBijection, Bijection, Injection
  <1>3. s \in [1..n -> Messages] /\ IsInjective(s)
    BY <1>2 DEF SetToSeq
  <1>4. QED
    BY <1>1, <1>3 DEF IsInjective

LEMMA AprsStarts ==
    ASSUME AprsInit
    PROVE  AprsInv /\ \A m \in Messages : AprsFresh(m)
  <1>1. AprsTypeOK
    <2>1. <<>> \in Seq(Text) /\ <<>> \in Seq(Messages)
      OBVIOUS
    <2>2. 0 \in 0..MaxSessions
      BY AprsIsAssumption
    <2>3. QED
      BY <2>1, <2>2 DEF AprsInit, AprsTypeOK
  <1>2. Lines = server /\ \A s \in 1..MaxSessions : Lines[s] = <<>>
    BY <1>1, LinesAtRest DEF AprsInit
  <1>3. SessionInv
    BY <1>2 DEF AprsInit, SessionInv
  <1>4. \A s \in 1..MaxSessions : 2..Len(Lines[s]) = {}
    <2>1. 2..Len(<<>>) = {}
      OBVIOUS
    <2>2. QED
      BY <1>2, <2>1
  <1>5. LinesInv(Lines)
    BY <1>2, <1>4 DEF LinesInv
  <1>6. DOMAIN accepted = {}
    BY DEF AprsInit
  <1>7. VerdictInv(Lines)
    BY <1>4, <1>6 DEF VerdictInv, AprsInit
  <1>8. \A m \in Messages : AprsFresh(m)
    BY <1>6 DEF AprsFresh, AprsInit
  <1>9. QED
    BY <1>1, <1>3, <1>5, <1>7, <1>8 DEF AprsInv

LEMMA MqttStarts ==
    ASSUME MqttInit
    PROVE  MqttInv /\ \A m \in Messages : MqttFresh(m)
  <1>1. /\ On(json) = {} /\ On(raw) = {} /\ DOMAIN outbox = {}
        /\ Queued("raw") = {} /\ Queued("json") = {}
    BY DEF MqttInit, On, Queued
  <1>2. \A m \in Messages : MqttFresh(m)
    BY <1>1 DEF MqttInit, MqttFresh
  <1>3. BothTopicsOrError
    BY <1>1 DEF MqttInit, BothTopicsOrError
  <1>4. RawFirst
    BY <1>1 DEF RawFirst
  <1>5. MqttTypeOK
    BY DEF MqttInit, MqttTypeOK
  <1>6. QED
    BY <1>2, <1>3, <1>4, <1>5 DEF MqttInit, MqttInv

LEMMA DbStarts ==
    ASSUME DbInit
    PROVE  DbInv /\ \A m \in Messages : DbFresh(m)
  <1>1. stored = <<>> /\ DOMAIN stored = {} /\ Len(stored) = 0
    BY DEF DbInit
  <1>2. Records = {}
    BY <1>1 DEF Records
  <1>3. \A u \in Users : "idle" \in Doing(u)
    BY DEF Doing
  <1>4. /\ AirTime \in [Calls \X Dates -> Nat]
        /\ \A row \in Calls \X Dates : AirTime[row] = Cardinality(InRow(row))
    <2>1. ASSUME NEW row \in Calls \X Dates
          PROVE  AirTime[row] = Cardinality(InRow(row)) /\ AirTime[row] \in Nat
      <3>1. AirTime[row] = Cardinality(InRow(row))
        BY <2>1 DEF AirTime, InRow
      <3>2. InRow(row) = {}
        BY <1>2 DEF InRow
      <3>3. QED
        BY <3>1, <3>2, FS_EmptySet
    <2>2. AirTime = [row \in Calls \X Dates |-> AirTime[row]]
      BY DEF AirTime
    <2>3. QED
      BY <2>1, <2>2
  <1>5. DbTypeOK
    <2>1. stored \in Seq(Messages \X (0..MaxTime))
      BY <1>1
    <2>2. clients \in Nat \ {0} /\ client = clients /\ deleted \subseteq 1..clients
      BY DEF DbInit
    <2>3. using \in [Users -> 0..clients]
      BY DEF DbInit
    <2>4. /\ DOMAIN at = Users /\ \A u \in Users : at[u] \in Doing(u)
          /\ at["main"] = "idle"
      BY <1>3, UserFacts DEF DbInit
    <2>5. /\ back \in [Visitors -> Tables \cup {"idle", "linked"}]
          /\ table \in [Visitors -> [Tables -> Int]]
          /\ rows \in [Visitors -> [Calls \X Dates -> Nat]]
      BY <1>4 DEF DbInit
    <2>6. DOMAIN link = Visitors /\ \A v \in Visitors : link[v] = <<>>
      BY DEF DbInit
    <2>7. faults \in Nat /\ overlap \in BOOLEAN /\ crashed \in BOOLEAN
      BY DEF DbInit
    <2>8. db_rc \in [Messages -> {"none", "TE_ok"}]
      BY DEF DbInit
    <2>9. QED
      BY <2>1, <2>2, <2>3, <2>4, <2>5, <2>6, <2>7, <2>8 DEF DbTypeOK
  <1>6. ClientInv
    BY DEF DbInit, ClientInv
  <1>7. PageInv
    <2>1. ASSUME NEW v \in Visitors, NEW i \in 2..8
          PROVE  table[v][Page[i]] = -1
      BY PageElements DEF DbInit
    <2>2. QED
      BY <1>1, <2>1, PageFacts DEF PageInv, PageGood
  <1>8. RowInv
    <2>1. ASSUME NEW v \in Visitors
          PROVE  RowGood(v)
      <3>1. v \in Users /\ link[v] = <<>> /\ at[v] = "idle" /\ rows[v] = AirTime
        BY UserFacts DEF DbInit
      <3>2. \A row \in Calls \X Dates :
                rows[v][row] \in Nat /\ rows[v][row] = Cardinality(InRow(row))
        BY <1>4, <3>1
      <3>3. \A row \in Calls \X Dates : rows[v][row] <= Cardinality(InRow(row))
        BY <3>2
      <3>4. QED
        BY <3>1, <3>3 DEF RowGood
    <2>2. QED
      BY <2>1 DEF RowInv
  <1>9. StoredInv
    <2>1. {m \in Messages : db_rc[m] = "TE_ok"} = {}
      BY DEF DbInit
    <2>2. Cardinality({m \in Messages : db_rc[m] = "TE_ok"}) = 0
      BY <2>1, FS_EmptySet
    <2>3. at["main"] = "idle" /\ faults = 0
      BY UserFacts DEF DbInit
    <2>4. QED
      BY <1>1, <2>2, <2>3 DEF StoredInv
  <1>10. \A m \in Messages : DbFresh(m)
    BY <1>1 DEF DbFresh, DbInit
  <1>11. QED
    BY <1>5, <1>6, <1>7, <1>8, <1>9, <1>10 DEF DbInv

LEMMA Starts == Init => IInv
  <1>1. SUFFICES ASSUME Init PROVE IInv
    OBVIOUS
  <1>2. /\ AprsInv /\ MqttInv /\ DbInv
        /\ \A m \in Messages : AprsFresh(m) /\ MqttFresh(m) /\ DbFresh(m)
    BY <1>1, AprsStarts, MqttStarts, DbStarts DEF Init
  <1>3. /\ todo \in Seq(Messages)
        /\ \A i, j \in DOMAIN todo : todo[i] = todo[j] => i = j
    BY <1>1, AllMessagesOnce DEF Init
  <1>4. turn = "take" /\ aprs = "idle" /\ mqtt = "idle" /\ at["main"] = "idle"
    BY <1>1, UserFacts DEF Init, AprsInit, MqttInit, DbInit
  <1>5. TurnInv
    BY <1>3, <1>4 DEF TurnInv
  <1>6. FreshInv
    <2>1. \A i \in DOMAIN todo : todo[i] \in Messages
      BY <1>3
    <2>2. QED
      BY <1>2, <2>1 DEF FreshInv
  <1>7. QED
    BY <1>2, <1>5, <1>6 DEF IInv

LEMMA Steps == IInv /\ [Next]_vars => IInv'
  <1> SUFFICES ASSUME IInv, [Next]_vars PROVE IInv'
    OBVIOUS
  <1>1. CASE Take
    BY <1>1, TakeKeeps
  <1>2. CASE ToMqtt
    BY <1>2, ToMqttKeeps
  <1>3. CASE ToDatabase
    BY <1>3, ToDatabaseKeeps
  <1>4. CASE Done
    BY <1>4, DoneKeeps
  <1>5. CASE (AprsStep \/ Arrive \/ Cut) /\ UNCHANGED <<mqtt_vars, db_vars, main_vars>>
    BY <1>5, AprsWorks DEF AprsAny
  <1>6. CASE /\ MqttStep \/ Deliver \/ BrokerGone \/ Noticed \/ BrokerBack
             /\ UNCHANGED <<aprs_vars, db_vars, main_vars>>
    BY <1>6, MqttWorks DEF MqttAny
  <1>7. ASSUME NEW u \in Users, DbStep(u), UNCHANGED <<aprs_vars, mqtt_vars, main_vars>>
        PROVE  IInv'
    <2>1. DbAny
      BY <1>7 DEF DbStep, DbAny
    <2>2. QED
      BY <1>7, <2>1, DbWorks
  <1>8. CASE Unresolved \/ BrokenPipe
    BY <1>8, AllRest DEF Unresolved, BrokenPipe
  <1>9. CASE Web
    <2>1. DbAny
      <3>1. ASSUME NEW v \in Visitors, DbStep(v)
            PROVE  DbAny
        BY <3>1, UserFacts DEF DbStep, DbAny
      <3>2. QED
        BY <1>9, <3>1 DEF Web, DbAny
    <2>2. UNCHANGED <<aprs_vars, mqtt_vars, main_vars>>
      BY <1>9 DEF Web
    <2>3. QED
      BY <2>1, <2>2, DbWorks
  <1>10. CASE UNCHANGED vars
    BY <1>10, AllRest DEF vars, main_vars
  <1>11. "main" \in Users
    BY UserFacts
  <1>12. QED
    BY <1>1, <1>2, <1>3, <1>4, <1>5, <1>6, <1>7, <1>8, <1>9, <1>10, <1>11
       DEF Next, Main, Network, Broker

THEOREM OutletsInvariant == Spec => []IInv
  BY Starts, Steps, PTL DEF Spec


-----------------------------------------------------------------------------
(* What follows from it.                                                   *)

(***************************************************************************)
(* The program only dies of a deleted client when two threads were at the  *)
(* database while one of them replaced m_c.                                *)
(***************************************************************************)
THEOREM DeadClientAlwaysByOverlap == Spec => []DeadClientOnlyByOverlap
  <1>1. IInv => DeadClientOnlyByOverlap
    BY DEF IInv, DbInv, DbTypeOK, ClientInv, DeadClientOnlyByOverlap
  <1>2. QED
    BY <1>1, OutletsInvariant, PTL

(***************************************************************************)
(* Of two tables of a page the later one never counts fewer records than   *)
(* the earlier one, whatever main inserts meanwhile and whatever fails.    *)
(***************************************************************************)
THEOREM PagesNeverGoBack == Spec => []PageNeverGoesBack
  <1>1. IInv => PageNeverGoesBack
    BY DEF IInv, DbInv, PageInv, PageGood, PageNeverGoesBack
  <1>2. QED
    BY <1>1, OutletsInvariant, PTL

(***************************************************************************)
(* In UTC the page behind a row of the air time table shows at least what  *)
(* the row counted, up to the limit.                                       *)
(***************************************************************************)
THEOREM LinksShowTheRow == Zone = 0 => (Spec => []LinkShowsTheRow)
  <1>1. ASSUME Zone = 0, IInv
        PROVE  LinkShowsTheRow
    <2>1. ASSUME NEW v \in Visitors, link[v] # <<>>, link[v][2] >= 0
          PROVE  link[v][2] >= Min({Limit, rows[v][link[v][1]]})
      <3> DEFINE shown == link[v][2]
                 count == rows[v][link[v][1]]
      <3>1. DbTypeOK /\ RowGood(v)
        BY <1>1, <2>1 DEF IInv, DbInv, RowInv
      <3>2. shown \in Int /\ link[v][1] \in Calls \X Dates
        BY <2>1, <3>1 DEF DbTypeOK
      <3>3. count \in Nat /\ Limit \in Nat
        BY <2>1, <3>1, <3>2, DatabaseAssumption DEF DbTypeOK
      <3>4. shown >= Limit \/ shown >= count
        BY <1>1, <2>1, <3>1 DEF RowGood
      <3> HIDE DEF shown, count
      <3>5. \E x \in {Limit, count} : \A y \in {Limit, count} : x <= y
        BY <3>3
      <3>6. /\ Min({Limit, count}) \in {Limit, count}
            /\ Min({Limit, count}) <= Limit /\ Min({Limit, count}) <= count
        BY <3>5 DEF Min
      <3>7. shown >= Min({Limit, count})
        BY <3>2, <3>3, <3>4, <3>6
      <3>8. QED
        BY <3>7 DEF shown, count
    <2>2. QED
      BY <2>1 DEF LinkShowsTheRow
  <1>2. Zone = 0 /\ IInv => LinkShowsTheRow
    BY <1>1
  <1>3. SUFFICES ASSUME Zone = 0 PROVE Spec => []LinkShowsTheRow
    OBVIOUS
  <1>4. IInv => LinkShowsTheRow
    BY <1>2, <1>3
  <1>5. QED
    BY <1>4, OutletsInvariant, PTL

-----------------------------------------------------------------------------
(* What is at the servers is part of what will be there.                   *)
LEMMA ServerShorter ==
    ASSUME AprsTypeOK
    PROVE  /\ server \in [1..MaxSessions -> Seq(Text)]
           /\ Lines \in [1..MaxSessions -> Seq(Text)]
           /\ Shorter(server, Lines)
  <1>1. /\ server \in [1..MaxSessions -> Seq(Text)]
        /\ Lines \in [1..MaxSessions -> Seq(Text)]
    BY LinesType DEF AprsTypeOK
  <1>2. ASSUME NEW s \in 1..MaxSessions
        PROVE  /\ Len(server[s]) <= Len(Lines[s])
               /\ \A i \in 1..Len(server[s]) : server[s][i] = Lines[s][i]
    <2>1. server[s] \in Seq(Text) /\ flight \in Seq(Text)
      BY <1>2 DEF AprsTypeOK
    <2>2. Lines[s] = server[s] \o flight \/ Lines[s] = server[s]
      BY <1>2, LinesType
    <2>3. CASE Lines[s] = server[s] \o flight
      <3>1. /\ Len(server[s]) \in Nat /\ Len(flight) \in Nat
            /\ Len(server[s] \o flight) = Len(server[s]) + Len(flight)
            /\ \A i \in 1..Len(server[s]) : (server[s] \o flight)[i] = server[s][i]
        BY <2>1, ConcatFacts
      <3>2. QED
        BY <2>3, <3>1
    <2>4. CASE Lines[s] = server[s]
      BY <2>1, <2>4
    <2>5. QED
      BY <2>2, <2>3, <2>4
  <1>3. QED
    BY <1>1, <1>2 DEF Shorter

(***************************************************************************)
(* Each session begins with its login and what comes after is what the     *)
(* limiter let through, in that order and nothing twice, however many      *)
(* sessions there are and wherever they break.                             *)
(***************************************************************************)
THEOREM UplinkAlwaysFaithful == Spec => []UplinkIsFaithful
  <1>1. ASSUME IInv
        PROVE  UplinkIsFaithful
    <2>1. AprsTypeOK /\ LinesInv(Lines) /\ VerdictInv(Lines)
      BY <1>1 DEF IInv, AprsInv
    <2>2. LinesInv(server)
      BY <2>1, ServerShorter, ShorterLines
    <2>3. \A x, y : InThatOrder(x, y) => x # y
      <3>1. ASSUME NEW x, NEW y, InThatOrder(x, y), x = y
            PROVE  FALSE
        <4>1. PICK k, l \in DOMAIN accepted :
                      k < l /\ accepted[k] = x /\ accepted[l] = y
          BY <3>1 DEF InThatOrder
        <4>2. k = l
          BY <2>1, <3>1, <4>1 DEF VerdictInv
        <4>3. DOMAIN accepted = 1..Len(accepted)
          BY <2>1 DEF AprsTypeOK
        <4>4. QED
          BY <4>1, <4>2, <4>3
      <3>2. QED
        BY <3>1
    <2>4. ASSUME NEW s \in 1..MaxSessions, server[s] # <<>>
          PROVE  /\ server[s][1] = "login"
                 /\ \A i \in 2..Len(server[s]) : Taken(server[s][i])
      BY <2>2, <2>4 DEF LinesInv, Taken
    <2>5. ASSUME NEW s \in 1..MaxSessions, NEW i \in 2..Len(server[s]),
                 NEW t \in s..MaxSessions, NEW j \in 2..Len(server[t]),
                 s < t \/ i < j
          PROVE  server[s][i] # server[t][j] /\ InThatOrder(server[s][i], server[t][j])
      <3>1. t \in 1..MaxSessions /\ (s < t \/ (s = t /\ i < j))
        BY <2>5
      <3>2. InThatOrder(server[s][i], server[t][j])
        BY <2>2, <2>5, <3>1 DEF LinesInv
      <3>3. QED
        BY <2>3, <3>2
    <2>6. QED
      BY <2>4, <2>5 DEF UplinkIsFaithful
  <1>2. QED
    BY <1>1, OutletsInvariant, PTL

-----------------------------------------------------------------------------
LEMMA VerdictHolds ==
    ASSUME IInv
    PROVE  LostOnlyWhenCut
  <1>1. AprsTypeOK /\ SessionInv /\ LinesInv(Lines) /\ VerdictInv(Lines)
    BY DEF IInv, AprsInv
  <1>2. ASSUME NEW m \in ToSet(accepted), aprs_rc[m] = "TE_ok", written[m] \notin cut
        PROVE  Contains(server[written[m]] \o flight, m)
    <2> DEFINE s == written[m]
    <2>1. PICK k \in DOMAIN accepted : accepted[k] = m
      BY <1>2 DEF ToSet
    <2>2. s \in 1..sessions /\ \E i \in 2..Len(Lines[s]) : Lines[s][i] = m
      BY <1>1, <1>2, <2>1 DEF VerdictInv
    <2>3. s = fd /\ s \in 1..MaxSessions
      BY <1>1, <1>2, <2>2, AprsIsAssumption DEF SessionInv, AprsTypeOK
    <2>4. Lines[s] = server[s] \o flight
      BY <1>1, <2>3, LinesType
    <2>5. \E i \in 1..Len(server[s] \o flight) : (server[s] \o flight)[i] = m
      <3>1. \A i \in 2..Len(Lines[s]) : i \in 1..Len(Lines[s])
        <4>1. Lines[s] \in Seq(Text)
          BY <1>1, <2>3, LinesType
        <4>2. QED
          BY <4>1
      <3>2. QED
        BY <2>2, <2>4, <3>1
    <2>6. QED
      BY <2>5 DEF Contains
  <1>3. ASSUME NEW m \in ToSet(accepted), aprs_rc[m] = "TE_hardware"
        PROVE  /\ \A s \in 1..MaxSessions : ~Contains(server[s], m)
               /\ ~Contains(flight, m)
    <2>1. m \in Messages /\ m # "login"
      BY <1>1, <1>3, AprsIsAssumption DEF ToSet, AprsTypeOK
    <2>2. ASSUME NEW s \in 1..MaxSessions, NEW i \in 1..Len(Lines[s])
          PROVE  Lines[s][i] # m
      <3>1. Lines[s] \in Seq(Text)
        BY <1>1, <2>2, LinesType
      <3>2. CASE i = 1
        BY <1>1, <2>1, <2>2, <3>1, <3>2 DEF LinesInv
      <3>3. CASE i # 1
        <4>1. i \in 2..Len(Lines[s])
          BY <2>2, <3>1, <3>3
        <4>2. QED
          BY <1>1, <1>3, <2>2, <4>1 DEF VerdictInv
      <3>4. QED
        BY <3>2, <3>3
    <2>3. ASSUME NEW s \in 1..MaxSessions
          PROVE  ~Contains(server[s], m)
      <3>1. /\ server[s] \in Seq(Text) /\ Lines[s] \in Seq(Text)
            /\ Len(server[s]) <= Len(Lines[s])
            /\ \A i \in 1..Len(server[s]) : server[s][i] = Lines[s][i]
        BY <1>1, <2>3, ServerShorter DEF Shorter
      <3>2. \A i \in 1..Len(server[s]) : i \in 1..Len(Lines[s])
        BY <3>1
      <3>3. QED
        BY <2>2, <2>3, <3>1, <3>2 DEF Contains
    <2>4. ~Contains(flight, m)
      <3>1. CASE flight = <<>>
        <4>1. 1..Len(flight) = {}
          BY <3>1
        <4>2. QED
          BY <4>1 DEF Contains
      <3>2. CASE flight # <<>>
        <4>1. fd \in 1..MaxSessions
          BY <1>1, <3>2, AprsIsAssumption DEF SessionInv, AprsTypeOK
        <4>2. server[fd] \in Seq(Text) /\ flight \in Seq(Text)
          BY <1>1, <4>1 DEF AprsTypeOK
        <4>3. Lines[fd] = server[fd] \o flight
          BY <1>1, <4>1, LinesType
        <4>4. /\ Len(server[fd]) \in Nat /\ Len(flight) \in Nat
              /\ Len(Lines[fd]) = Len(server[fd]) + Len(flight)
              /\ \A i \in 1..Len(flight) : Lines[fd][Len(server[fd]) + i] = flight[i]
          BY <4>2, <4>3, ConcatFacts
        <4>5. \A i \in 1..Len(flight) : Len(server[fd]) + i \in 1..Len(Lines[fd])
          BY <4>4
        <4>6. \A i \in 1..Len(flight) : flight[i] # m
          BY <2>2, <4>1, <4>4, <4>5
        <4>7. QED
          BY <4>6 DEF Contains
      <3>3. QED
        BY <3>1, <3>2
    <2>5. QED
      BY <2>3, <2>4
  <1>4. QED
    BY <1>2, <1>3 DEF LostOnlyWhenCut

LEMMA MissingHolds ==
    ASSUME IInv
    PROVE  MissingOnlyByFault
  <1>1. StoredInv /\ DbTypeOK
    BY DEF IInv, DbInv
  <1> DEFINE told == Cardinality({m \in Messages : db_rc[m] = "TE_ok"})
  <1>2. told \in Nat
    <2>1. IsFiniteSet({m \in Messages : db_rc[m] = "TE_ok"})
      BY AprsIsAssumption, FS_Subset
    <2>2. QED
      BY <2>1, FS_CardinalityType
  <1>3. Len(stored) \in Nat /\ faults \in Nat
    BY <1>1 DEF DbTypeOK
  <1>4. Len(stored) + faults >= told + (IF at["main"] \in {"delete", "new"} THEN 1 ELSE 0)
    BY <1>1 DEF StoredInv
  <1> HIDE DEF told
  <1>5. Len(stored) + faults >= told
    BY <1>2, <1>3, <1>4
  <1>6. QED
    BY <1>1, <1>5 DEF told, StoredInv, MissingOnlyByFault

(***************************************************************************)
(* What put_message() told main is borne out by the servers, the broker    *)
(* and the database, in every state.                                       *)
(***************************************************************************)
THEOREM VerdictsAlwaysBorneOut == Spec => []VerdictsAreBorneOut
  <1>1. IInv => VerdictsAreBorneOut
    BY VerdictHolds, MissingHolds DEF VerdictsAreBorneOut, IInv, MqttInv
  <1>2. QED
    BY <1>1, OutletsInvariant, PTL
=============================================================================

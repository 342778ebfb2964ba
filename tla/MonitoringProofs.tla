--------------------------- MODULE MonitoringProofs ---------------------------
(***************************************************************************)
(* What the router shows of itself.                                        *)
(*                                                                         *)
(* The web page: no browser gets a record twice or out of order, for any   *)
(* number of sessions, length of the history and behaviour of the clock;   *)
(* and none misses what is in the history as long as the clock advances.   *)
(*                                                                         *)
(* The SNMP tree: for any OIDs, registered in any order, GetNext gives the *)
(* next one.                                                               *)
(***************************************************************************)
EXTENDS Websockets, SnmpAgent, SequenceTheorems, WellFoundedInduction, TLAPS

-----------------------------------------------------------------------------
\* Every set of natural numbers has a smallest element.
LEMMA Smallest ==
    ASSUME NEW T \in SUBSET Nat, T # {}
    PROVE  \E x \in T : \A y \in T : x <= y
  <1> DEFINE R == OpToRel(<, Nat)
  <1>1. PICK x \in T : \A y \in T : ~ (<<y, x>> \in R)
    <2>1. IsWellFoundedOn(R, Nat)
      BY NatLessThanWellFounded
    <2> HIDE DEF R
    <2>2. QED
      BY <2>1, WFMin
  <1>2. \A y \in T : ~(y < x)
    BY <1>1 DEF OpToRel
  <1>3. QED
    BY <1>2

\* A set of natural numbers below n has a largest element, which Max picks.
LEMMA MaxOfBounded ==
    ASSUME NEW n \in Nat, NEW S \in SUBSET (0..n), S # {}
    PROVE  /\ Max(S) \in S
           /\ \A y \in S : y <= Max(S)
  <1> DEFINE T == {n - y : y \in S}
  <1>1. T \in SUBSET Nat /\ T # {}
    <2>1. \A y \in S : n - y \in Nat
      OBVIOUS
    <2>2. PICK y \in S : TRUE
      OBVIOUS
    <2>3. n - y \in T
      BY <2>2
    <2>4. QED
      BY <2>1, <2>3
  <1>2. PICK x \in T : \A y \in T : x <= y
    BY <1>1, Smallest
  <1>3. PICK m \in S : x = n - m
    BY <1>2
  <1>4. \A y \in S : m >= y
    BY <1>2, <1>3
  <1>5. QED
    BY <1>3, <1>4 DEF Max

-----------------------------------------------------------------------------
(* What send_records() takes from the history.                             *)

\* It starts behind every record that is not newer than t.
LEMMA ResumeBehind ==
    ASSUME TypeOK, NEW t \in Nat
    PROVE  /\ Resume(t) \in 1..(Len(json_data) + 1)
           /\ \A i \in 1..Len(json_data) : json_data[i].ts <= t => i < Resume(t)
  <1> DEFINE S == {0} \cup {i \in DOMAIN json_data : json_data[i].ts <= t}
  <1>1. Len(json_data) \in Nat /\ DOMAIN json_data = 1..Len(json_data)
    BY LenProperties DEF TypeOK
  <1>2. S \in SUBSET (0..Len(json_data)) /\ S # {}
    BY <1>1
  <1>3. Max(S) \in S /\ \A y \in S : y <= Max(S)
    BY <1>1, <1>2, MaxOfBounded
  <1>4. Resume(t) = 1 + Max(S)
    BY DEF Resume
  <1>5. Max(S) \in 0..Len(json_data)
    BY <1>2, <1>3
  <1>6. \A i \in 1..Len(json_data) : json_data[i].ts <= t => i \in S
    BY <1>1
  <1> HIDE DEF S
  <1>7. QED
    BY <1>1, <1>3, <1>4, <1>5, <1>6

\* It takes the rest of the history as it is.
LEMMA UnsentIsTheRest ==
    ASSUME TypeOK, NEW t \in Nat
    PROVE  /\ Unsent(t) \in Seq(Records)
           /\ Len(Unsent(t)) = Len(json_data) + 1 - Resume(t)
           /\ \A i \in 1..Len(Unsent(t)) :
                 Unsent(t)[i] = json_data[Resume(t) - 1 + i]
  <1>1. Len(json_data) \in Nat /\ json_data \in Seq(Records)
    BY LenProperties DEF TypeOK
  <1>2. Resume(t) \in 1..(Len(json_data) + 1)
    BY ResumeBehind
  <1>3. QED
    BY <1>1, <1>2, SubSeqProperties DEF Unsent

-----------------------------------------------------------------------------
(* What send_records() does for one session.                               *)

Increasing(q) == \A i, j \in 1..Len(q) : i < j => q[i] < q[j]

\* A session with time stamp t may have been shown the records q.
Cursor(q, t) ==
    q # <<>> => /\ q[Len(q)] <= pushed
                /\ \A i \in 1..Len(json_data) :
                      json_data[i].nr = q[Len(q)] => json_data[i].ts = t

Numbers(t) == [i \in DOMAIN Unsent(t) |-> Unsent(t)[i].nr]
Stamp(t) == IF Unsent(t) = <<>> THEN t ELSE Last(Unsent(t)).ts

\* The records sent follow each other, up to the latest.
LEMMA NumbersInARow ==
    ASSUME TypeOK, LatestInARow, NEW t \in Nat
    PROVE  /\ Numbers(t) \in Seq(Nat \ {0})
           /\ Len(Numbers(t)) = Len(json_data) + 1 - Resume(t)
           /\ \A i \in 1..Len(Numbers(t)) :
                 Numbers(t)[i] = pushed - Len(json_data) + Resume(t) - 1 + i
  <1> DEFINE n == Len(json_data)
             k == Len(Unsent(t))
  <1>1. n \in Nat /\ pushed \in Nat /\ json_data \in Seq(Records)
        /\ DOMAIN json_data = 1..n
    BY LenProperties DEF TypeOK
  <1>2. Resume(t) \in 1..(n + 1)
    BY ResumeBehind
  <1>3. /\ Unsent(t) \in Seq(Records) /\ k = n + 1 - Resume(t)
        /\ \A i \in 1..k : Unsent(t)[i] = json_data[Resume(t) - 1 + i]
    BY UnsentIsTheRest
  <1>4. k \in Nat /\ DOMAIN Unsent(t) = 1..k
    BY <1>3, LenProperties
  <1>5. \A i \in 1..k : Unsent(t)[i].nr \in Nat \ {0}
    <2>1. \A i \in 1..k : Unsent(t)[i] \in Records
      BY <1>3, ElementOfSeq
    <2>2. QED
      BY <2>1 DEF Records
  <1>6. Numbers(t) \in [1..k -> Nat \ {0}]
    BY <1>4, <1>5 DEF Numbers
  <1>7. Numbers(t) \in Seq(Nat \ {0}) /\ Len(Numbers(t)) = k
    BY <1>4, <1>6
  <1>8. \A i \in 1..k : Numbers(t)[i] = json_data[Resume(t) - 1 + i].nr
    BY <1>3, <1>4 DEF Numbers
  <1>9. \A i \in 1..k : Resume(t) - 1 + i \in DOMAIN json_data
    BY <1>1, <1>2, <1>3
  <1>10. \A i \in 1..k : json_data[Resume(t) - 1 + i].nr
                            = pushed - n + (Resume(t) - 1 + i)
    BY <1>9 DEF LatestInARow
  <1>11. \A i \in 1..k : Numbers(t)[i] = pushed - n + (Resume(t) - 1 + i)
    BY <1>8, <1>10
  <1> HIDE DEF n, k
  <1>12. \A i \in 1..k : Numbers(t)[i] = pushed - n + Resume(t) - 1 + i
    BY <1>1, <1>2, <1>4, <1>11
  <1>13. QED
    BY <1>3, <1>7, <1>12 DEF n

\* They are all behind what the session has got.
LEMMA SendInOrder ==
    ASSUME TypeOK, LatestInARow, NEW t \in Nat, NEW q \in Seq(Nat \ {0}),
           Increasing(q), Cursor(q, t)
    PROVE  /\ q \o Numbers(t) \in Seq(Nat \ {0})
           /\ Increasing(q \o Numbers(t))
           /\ Stamp(t) \in Nat
           /\ Cursor(q \o Numbers(t), Stamp(t))
  <1> DEFINE n  == Len(json_data)
             r  == Resume(t)
             g  == Numbers(t)
             k  == Len(g)
             qg == q \o g
             l  == Len(q)
  <1>1. /\ n \in Nat /\ pushed \in Nat /\ l \in Nat
        /\ \A i \in 1..l : q[i] \in Nat \ {0}
        /\ \A i \in 1..n : json_data[i] \in Records
        /\ \A i, j \in 1..l : i < j => q[i] < q[j]
    BY LenProperties, ElementOfSeq DEF TypeOK, Increasing
  <1>2. r \in 1..(n + 1) /\ \A i \in 1..n : json_data[i].ts <= t => i < r
    BY ResumeBehind
  <1>3. /\ g \in Seq(Nat \ {0}) /\ k = n + 1 - r
        /\ \A i \in 1..k : g[i] = pushed - n + r - 1 + i
    BY NumbersInARow
  <1>4. /\ qg \in Seq(Nat \ {0}) /\ Len(qg) = l + k
        /\ \A i \in 1..(l + k) : qg[i] = IF i <= l THEN q[i] ELSE g[i - l]
    BY <1>3, ConcatProperties
  <1>5. \A i \in 1..n : json_data[i].nr = pushed - n + i
    BY LenProperties DEF TypeOK, LatestInARow
  <1>6. l # 0 => /\ q[l] <= pushed
                 /\ \A i \in 1..n : json_data[i].nr = q[l] => json_data[i].ts = t
    BY EmptySeq DEF Cursor
  <1>7. /\ Unsent(t) \in Seq(Records) /\ Len(Unsent(t)) = k
        /\ \A i \in 1..k : Unsent(t)[i] = json_data[r - 1 + i]
    BY <1>3, UnsentIsTheRest
  <1> SUFFICES /\ Increasing(qg) /\ Stamp(t) \in Nat
               /\ Cursor(qg, Stamp(t))
    BY <1>4
  <1>8. Cursor(qg, Stamp(t)) <=>
            (qg # <<>> =>
                /\ qg[l + k] <= pushed
                /\ \A i \in 1..n : json_data[i].nr = qg[l + k]
                                      => json_data[i].ts = Stamp(t))
    BY <1>4 DEF Cursor
  <1>9. CASE k = 0
    <2>1. Unsent(t) = <<>>
      BY <1>7, <1>9, EmptySeq
    <2>2. Stamp(t) = t
      BY <2>1 DEF Stamp
    <2>3. qg = q
      BY <1>3, <1>9, EmptySeq, ConcatEmptySeq
    <2>4. QED
      BY <2>2, <2>3
  <1>10. CASE k # 0
    <2> HIDE DEF n, r, g, k, qg, l
    <2>1. l # 0 => q[l] < pushed - n + r
      <3> SUFFICES ASSUME l # 0, q[l] >= pushed - n + r PROVE FALSE
        BY <1>1, <1>2
      <3> DEFINE i == q[l] - (pushed - n)
      <3>1. q[l] \in Nat /\ q[l] <= pushed
        BY <1>1, <1>6
      <3>2. i \in 1..n /\ i >= r
        BY <1>1, <1>2, <3>1
      <3>3. json_data[i].nr = q[l]
        BY <1>1, <1>5, <3>1, <3>2
      <3>4. json_data[i].ts = t
        BY <1>6, <3>2, <3>3
      <3>5. i < r
        BY <1>2, <3>2, <3>4
      <3>6. QED
        BY <1>1, <1>2, <3>2, <3>5
    <2>2. \A i \in 1..l : q[i] < pushed - n + r
      <3> SUFFICES ASSUME NEW i \in 1..l PROVE q[i] < pushed - n + r
        OBVIOUS
      <3>1. l \in 1..l /\ q[l] \in Nat /\ q[i] \in Nat
        BY <1>1
      <3>2. i = l \/ q[i] < q[l]
        BY <1>1, <3>1
      <3>3. QED
        BY <1>1, <1>2, <2>1, <3>1, <3>2
    <2>3. \A i \in 1..(l + k) :
             i > l => qg[i] = pushed - n + r - 1 + (i - l)
      <3> SUFFICES ASSUME NEW i \in 1..(l + k), i > l
                   PROVE  qg[i] = pushed - n + r - 1 + (i - l)
        OBVIOUS
      <3>1. i - l \in 1..k /\ qg[i] = g[i - l]
        BY <1>1, <1>2, <1>3, <1>4
      <3>2. QED
        BY <1>3, <3>1
    <2>4. Increasing(qg)
      <3> SUFFICES ASSUME NEW i \in 1..(l + k), NEW j \in 1..(l + k), i < j
                   PROVE  qg[i] < qg[j]
        BY <1>4 DEF Increasing
      <3>1. CASE j <= l
        <4>1. i \in 1..l /\ j \in 1..l
          BY <1>1, <3>1
        <4>2. qg[i] = q[i] /\ qg[j] = q[j]
          BY <1>4, <3>1, <4>1
        <4>3. QED
          BY <1>1, <4>1, <4>2
      <3>2. CASE i <= l /\ l < j
        <4>1. qg[i] = q[i] /\ q[i] < pushed - n + r /\ q[i] \in Nat
          BY <1>1, <1>4, <2>2, <3>2
        <4>2. qg[j] = pushed - n + r - 1 + (j - l)
          BY <2>3, <3>2
        <4>3. QED
          BY <1>1, <1>2, <3>2, <4>1, <4>2
      <3>3. CASE l < i
        <4>1. /\ qg[i] = pushed - n + r - 1 + (i - l)
              /\ qg[j] = pushed - n + r - 1 + (j - l)
          BY <1>1, <2>3, <3>3
        <4>2. QED
          BY <1>1, <1>2, <4>1
      <3>4. QED
        BY <1>1, <3>1, <3>2, <3>3
    <2>5. k \in 1..k /\ l + k \in 1..(l + k) /\ l + k > l /\ n \in 1..n
      BY <1>1, <1>2, <1>3, <1>10
    <2>6. qg[l + k] = pushed
      BY <1>1, <1>2, <1>3, <2>3, <2>5
    <2>7. Unsent(t) # <<>>
      BY <1>7, <1>10, EmptySeq
    <2>8. r - 1 + k = n
      BY <1>1, <1>2, <1>3
    <2>9. Last(Unsent(t)) = json_data[n]
      BY <1>7, <2>5, <2>8 DEF Last
    <2>10. Stamp(t) = json_data[n].ts /\ Stamp(t) \in Nat
      BY <1>1, <2>5, <2>7, <2>9 DEF Stamp, Records
    <2>11. \A i \in 1..n : json_data[i].nr = pushed => i = n
      BY <1>1, <1>5
    <2>12. QED
      BY <1>1, <1>8, <2>4, <2>6, <2>10, <2>11
  <1>11. QED
    BY <1>9, <1>10

-----------------------------------------------------------------------------
(* What push_to_websockets() does to the history.                          *)

\* It keeps the last records of h, in their order.
LEMMA TrimmedKeepsTheLast ==
    ASSUME NEW h \in Seq(Records), h # <<>>
    PROVE  /\ Trimmed(h) \in Seq(Records)
           /\ Len(Trimmed(h)) \in 1..MaxHistory /\ Len(Trimmed(h)) <= Len(h)
           /\ \A i \in 1..Len(Trimmed(h)) :
                 Trimmed(h)[i] = h[Len(h) - Len(Trimmed(h)) + i]
  <1>1. Len(h) \in Nat \ {0} /\ \A i \in 1..Len(h) : h[i] \in Records
    BY LenProperties, EmptySeq, ElementOfSeq
  <1>2. MaxHistory \in Nat \ {0}
    BY WebsocketsAssumption
  <1>3. CASE Len(h) <= MaxHistory
    <2>1. Trimmed(h) = h
      BY <1>1, <1>2, <1>3 DEF Trimmed
    <2>2. QED
      BY <1>1, <1>2, <1>3, <2>1
  <1>4. CASE Len(h) > MaxHistory
    <2> DEFINE m == Len(h) - MaxHistory + 1
    <2>1. Trimmed(h) = SubSeq(h, m, Len(h))
      BY <1>4 DEF Trimmed
    <2>2. m \in Int /\ \A i \in m..Len(h) : h[i] \in Records
      BY <1>1, <1>2, <1>4
    <2>3. /\ Trimmed(h) \in Seq(Records)
          /\ Len(Trimmed(h)) = IF m <= Len(h) THEN Len(h) - m + 1 ELSE 0
          /\ \A i \in 1..(Len(h) - m + 1) : Trimmed(h)[i] = h[m + i - 1]
      BY <1>1, <2>1, <2>2, SubSeqProperties
    <2>4. Len(Trimmed(h)) = MaxHistory
      BY <1>1, <1>2, <2>3
    <2>5. \A i \in 1..MaxHistory :
             Trimmed(h)[i] = h[Len(h) - MaxHistory + i]
      <3> SUFFICES ASSUME NEW i \in 1..MaxHistory
                   PROVE  Trimmed(h)[i] = h[Len(h) - MaxHistory + i]
        OBVIOUS
      <3>1. i \in 1..(Len(h) - m + 1) /\ m + i - 1 = Len(h) - MaxHistory + i
        BY <1>1, <1>2
      <3>2. QED
        BY <2>3, <3>1
    <2> HIDE DEF m
    <2>6. QED
      BY <1>1, <1>2, <1>4, <2>3, <2>4, <2>5
  <1>5. QED
    BY <1>1, <1>2, <1>3, <1>4

\* Each record has its number, and the older ones are where they were.
LEMMA PushInARow ==
    ASSUME TypeOK, LatestInARow, Push
    PROVE  /\ TypeOK' /\ LatestInARow'
           /\ \A i \in 1..Len(json_data)' : json_data'[i].nr <= pushed =>
                 \E j \in 1..Len(json_data) : json_data'[i] = json_data[j]
  <1> DEFINE x  == [ts |-> clock, nr |-> pushed + 1]
             h  == Append(json_data, x)
             n  == Len(json_data)
             hn == Len(json_data')
  <1>1. json_data \in Seq(Records) /\ n \in Nat /\ pushed \in Nat
        /\ \A i \in 1..n : json_data[i].nr = pushed - n + i
    BY LenProperties DEF TypeOK, LatestInARow
  <1>2. x \in Records
    BY DEF TypeOK, Records
  <1>3. /\ h \in Seq(Records) /\ h # <<>> /\ Len(h) = n + 1
        /\ \A i \in 1..n : h[i] = json_data[i]
        /\ h[n + 1] = x
    BY <1>1, <1>2, AppendProperties
  <1>4. json_data' = Trimmed(h) /\ pushed' = pushed + 1
    BY DEF Push
  <1>5. /\ json_data' \in Seq(Records)
        /\ hn \in 1..MaxHistory /\ hn <= n + 1
        /\ \A i \in 1..hn : json_data'[i] = h[n + 1 - hn + i]
    <2>1. /\ Trimmed(h) \in Seq(Records)
          /\ Len(Trimmed(h)) \in 1..MaxHistory /\ Len(Trimmed(h)) <= Len(h)
          /\ \A i \in 1..Len(Trimmed(h)) :
                Trimmed(h)[i] = h[Len(h) - Len(Trimmed(h)) + i]
      BY <1>3, TrimmedKeepsTheLast
    <2>2. Len(h) = n + 1 /\ Len(Trimmed(h)) = hn
      BY <1>3, <1>4
    <2>3. MaxHistory \in Nat
      BY WebsocketsAssumption
    <2> HIDE DEF h, n, hn
    <2>4. hn \in 1..MaxHistory /\ hn <= n + 1
      BY <2>1, <2>2
    <2>5. ASSUME NEW i \in 1..hn
          PROVE  json_data'[i] = h[n + 1 - hn + i]
      <3>1. Trimmed(h)[i] = h[Len(h) - Len(Trimmed(h)) + i]
        BY <2>1, <2>2
      <3>2. Len(h) - Len(Trimmed(h)) + i = n + 1 - hn + i
        BY <1>1, <2>2, <2>3, <2>4
      <3>3. QED
        BY <1>4, <3>1, <3>2
    <2>6. QED
      BY <1>4, <2>1, <2>4, <2>5
  <1>6. MaxHistory \in Nat
    BY WebsocketsAssumption
  <1>7. DOMAIN json_data' = 1..hn
    BY <1>5, LenProperties
  <1>8. TypeOK'
    BY <1>1, <1>4, <1>5, <1>6 DEF TypeOK, Push
  <1>9. x.nr = pushed + 1
    OBVIOUS
  <1> HIDE DEF x, h, n, hn
  <1>10. ASSUME NEW i \in 1..hn
         PROVE  /\ json_data'[i].nr = pushed + 1 - hn + i
                /\ json_data'[i].nr <= pushed =>
                      \E j \in 1..n : json_data'[i] = json_data[j]
    <2> DEFINE j == n + 1 - hn + i
    <2>1. j \in 1..(n + 1) /\ json_data'[i] = h[j]
      BY <1>1, <1>5, <1>6
    <2> HIDE DEF j
    <2>2. CASE j \in 1..n
      <3>1. json_data'[i] = json_data[j] /\ json_data[j].nr = pushed - n + j
        BY <1>1, <1>3, <2>1, <2>2
      <3>2. pushed - n + j = pushed + 1 - hn + i
        BY <1>1, <1>5, <1>6 DEF j
      <3>3. QED
        BY <2>2, <3>1, <3>2
    <2>3. CASE j = n + 1
      <3>1. json_data'[i].nr = pushed + 1
        BY <1>3, <1>9, <2>1, <2>3
      <3>2. i = hn
        BY <1>1, <1>5, <1>6, <2>3 DEF j
      <3>3. QED
        BY <1>1, <1>5, <1>6, <3>1, <3>2
    <2>4. n \in Nat
      BY <1>1
    <2>5. j \in 1..n \/ j = n + 1
      BY <2>1, <2>4
    <2>6. QED
      BY <2>2, <2>3, <2>5, Zenon
  <1>11. LatestInARow'
    <2>1. pushed' = pushed + 1 /\ hn = Len(json_data)'
      BY <1>4 DEF hn
    <2>2. ASSUME NEW i \in 1..hn
          PROVE  json_data'[i].nr = pushed' - hn + i
      <3>1. json_data'[i].nr = pushed + 1 - hn + i
        BY <1>10
      <3>2. QED
        BY <1>1, <1>5, <1>6, <2>1, <3>1
    <2>3. QED
      BY <1>7, <2>1, <2>2 DEF LatestInARow
  <1>12. QED
    BY <1>8, <1>10, <1>11 DEF n, hn

-----------------------------------------------------------------------------
\* IInv in the words used above.
LEMMA IInvOfSessions ==
    ASSUME TypeOK
    PROVE  /\ InOrderOnce <=> \A s \in Sessions : Increasing(shown[s])
           /\ CursorIsLastShown <=> \A s \in Sessions : Cursor(shown[s], ts[s])
  <1>1. DOMAIN json_data = 1..Len(json_data)
    BY LenProperties DEF TypeOK
  <1>2. \A s \in Sessions : DOMAIN shown[s] = 1..Len(shown[s])
    BY LenProperties DEF TypeOK
  <1>3. QED
    BY <1>1, <1>2 DEF InOrderOnce, Increasing, CursorIsLastShown, Cursor

LEMMA IInvInit == Init => IInv
  <1> SUFFICES ASSUME Init PROVE IInv
    OBVIOUS
  <1>1. Len(<<>>) = 0 /\ DOMAIN <<>> = {}
    OBVIOUS
  <1>2. TypeOK
    BY WebsocketsAssumption, <1>1 DEF Init, TypeOK
  <1>3. LatestInARow
    BY <1>1 DEF Init, LatestInARow
  <1>4. CursorIsLastShown /\ InOrderOnce
    BY <1>1 DEF Init, CursorIsLastShown, InOrderOnce
  <1>5. QED
    BY <1>2, <1>3, <1>4 DEF IInv

\* A session that is sent records from time stamp t, after the records q.
LEMMA IInvSend ==
    ASSUME IInv, NEW s \in Sessions, NEW t \in Nat, NEW q \in Seq(Nat \ {0}),
           Increasing(q), Cursor(q, t),
           SendRecords(s, t, q),
           UNCHANGED <<clock, json_data, pushed, steady>>,
           connected' \subseteq Sessions
    PROVE  IInv'
  <1>0. TypeOK /\ LatestInARow
    BY DEF IInv
  <1>1. /\ q \o Numbers(t) \in Seq(Nat \ {0})
        /\ Increasing(q \o Numbers(t))
        /\ Stamp(t) \in Nat
        /\ Cursor(q \o Numbers(t), Stamp(t))
    BY <1>0, SendInOrder
  <1>2. /\ shown' = [shown EXCEPT ![s] = q \o Numbers(t)]
        /\ ts' = [ts EXCEPT ![s] = Stamp(t)]
    BY DEF SendRecords, Numbers, Stamp
  <1>3. TypeOK'
    BY <1>0, <1>1, <1>2 DEF TypeOK
  <1>4. \A r \in Sessions : /\ Increasing(shown[r])
                            /\ Cursor(shown[r], ts[r])
    BY <1>0, IInvOfSessions DEF IInv
  <1>5. ASSUME NEW r \in Sessions
        PROVE  Increasing(shown'[r]) /\ Cursor(shown'[r], ts'[r])
    <2>1. CASE r = s
      BY <1>0, <1>1, <1>2, <2>1 DEF TypeOK
    <2>2. CASE r # s
      BY <1>0, <1>2, <1>4, <2>2 DEF TypeOK
    <2>3. QED
      BY <2>1, <2>2
  <1>6. \A r \in Sessions : Increasing(shown[r])' /\ Cursor(shown[r], ts[r])'
    BY <1>5 DEF Increasing, Cursor
  <1>7. InOrderOnce' /\ CursorIsLastShown'
    <2>1. DOMAIN json_data' = 1..Len(json_data')
      BY <1>3, LenProperties DEF TypeOK
    <2>2. \A r \in Sessions : DOMAIN shown'[r] = 1..Len(shown'[r])
      BY <1>3, LenProperties DEF TypeOK
    <2>3. QED
      BY <1>6, <2>1, <2>2
      DEF InOrderOnce, Increasing, CursorIsLastShown, Cursor
  <1>8. LatestInARow'
    BY <1>0 DEF LatestInARow
  <1>9. QED
    BY <1>3, <1>7, <1>8 DEF IInv

LEMMA IInvNext == IInv /\ [Next]_vars => IInv'
  <1> SUFFICES ASSUME IInv, [Next]_vars PROVE IInv'
    OBVIOUS
  <1>0. TypeOK /\ LatestInARow /\ CursorIsLastShown /\ InOrderOnce
    BY DEF IInv
  <1>1. \A s \in Sessions : /\ shown[s] \in Seq(Nat \ {0}) /\ ts[s] \in Nat
                            /\ Increasing(shown[s]) /\ Cursor(shown[s], ts[s])
    BY <1>0, IInvOfSessions DEF TypeOK
  <1>2. CASE Clock
    BY <1>0, <1>2, WebsocketsAssumption
    DEF Clock, IInv, TypeOK, LatestInARow, CursorIsLastShown, InOrderOnce
  <1>3. CASE Push
    <2>1. /\ TypeOK' /\ LatestInARow'
          /\ \A i \in 1..Len(json_data)' : json_data'[i].nr <= pushed =>
                \E j \in 1..Len(json_data) : json_data'[i] = json_data[j]
      BY <1>0, <1>3, PushInARow
    <2>2. DOMAIN json_data = 1..Len(json_data)
          /\ DOMAIN json_data' = 1..Len(json_data')
      BY <1>0, <2>1, LenProperties DEF TypeOK
    <2>3. /\ UNCHANGED <<shown, ts>>
          /\ pushed \in Nat /\ pushed' = pushed + 1
      BY <1>0, <1>3 DEF Push, TypeOK
    <2>4. InOrderOnce'
      BY <1>0, <2>3 DEF InOrderOnce
    <2>5. ASSUME NEW s \in Sessions, shown[s] # <<>>
          PROVE  /\ shown[s][Len(shown[s])] <= pushed + 1
                 /\ \A i \in 1..Len(json_data') :
                       json_data'[i].nr = shown[s][Len(shown[s])]
                           => json_data'[i].ts = ts[s]
      <3>1. Len(shown[s]) \in 1..Len(shown[s])
        BY <1>1, <2>5, EmptySeq
      <3>2. shown[s][Len(shown[s])] \in Nat /\ shown[s][Len(shown[s])] <= pushed
        BY <1>0, <1>1, <2>5, <3>1, ElementOfSeq DEF CursorIsLastShown
      <3>3. ASSUME NEW i \in 1..Len(json_data'),
                   json_data'[i].nr = shown[s][Len(shown[s])]
            PROVE  json_data'[i].ts = ts[s]
        <4>1. PICK j \in 1..Len(json_data) : json_data'[i] = json_data[j]
          BY <2>1, <3>2, <3>3
        <4>2. QED
          BY <1>0, <2>2, <2>5, <3>3, <4>1 DEF CursorIsLastShown
      <3>4. QED
        BY <2>3, <3>2, <3>3
    <2>6. CursorIsLastShown'
      BY <2>2, <2>3, <2>5 DEF CursorIsLastShown
    <2>7. QED
      BY <2>1, <2>4, <2>6 DEF IInv
  <1>4. ASSUME NEW s \in Sessions, Establish(s) PROVE IInv'
    <2>1. <<>> \in Seq(Nat \ {0}) /\ Increasing(<<>>) /\ Cursor(<<>>, 0)
      BY DEF Increasing, Cursor
    <2>2. /\ SendRecords(s, 0, <<>>)
          /\ UNCHANGED <<clock, json_data, pushed, steady>>
          /\ connected' \subseteq Sessions
      BY <1>0, <1>4 DEF Establish, TypeOK
    <2>3. QED
      BY <2>1, <2>2, IInvSend
  <1>5. ASSUME NEW s \in Sessions, Writeable(s) PROVE IInv'
    <2>1. /\ SendRecords(s, ts[s], shown[s])
          /\ UNCHANGED <<clock, json_data, pushed, steady>>
          /\ connected' \subseteq Sessions
      BY <1>0, <1>5 DEF Writeable, TypeOK
    <2>2. QED
      BY <1>1, <2>1, IInvSend
  <1>6. ASSUME NEW s \in Sessions, Close(s) PROVE IInv'
    BY <1>0, <1>6
    DEF Close, IInv, TypeOK, LatestInARow, CursorIsLastShown, InOrderOnce
  <1>7. CASE UNCHANGED vars
    BY <1>0, <1>7
    DEF vars, IInv, TypeOK, LatestInARow, CursorIsLastShown, InOrderOnce
  <1>8. QED
    BY <1>2, <1>3, <1>4, <1>5, <1>6, <1>7 DEF Next

(***************************************************************************)
(* The invariant InOrderOnce rests on: the history is the latest records   *)
(* in a row and each session's time stamp is that of its last record.      *)
(* (websockets.cpp:27-97)                                                  *)
(***************************************************************************)
THEOREM HistoryInvariant == Spec => []IInv
  <1>1. Init => IInv
    BY IInvInit
  <1>2. IInv /\ [Next]_vars => IInv'
    BY IInvNext
  <1>3. QED
    BY <1>1, <1>2, PTL DEF Spec

(***************************************************************************)
(* A browser gets each record at most once and in order, whatever the      *)
(* clock does and however long the history. (websockets.cpp:27-76)         *)
(***************************************************************************)
THEOREM EachRecordOnceInOrder == Spec => []InOrderOnce
  <1>1. IInv => InOrderOnce
    BY DEF IInv
  <1>2. QED
    BY <1>1, HistoryInvariant, PTL

-----------------------------------------------------------------------------
(* Nothing is skipped while the clock advances.                            *)

\* What a session with time stamp t, that was shown the records q, has behind
\* it was shown to it.
Behind(q, t) ==
    /\ t = 0 \/ \E i \in 1..Len(json_data) : t <= json_data[i].ts
    /\ \A i \in 1..Len(json_data) :
          json_data[i].ts <= t => Contains(q, json_data[i].nr)

\* As long as the clock advances the history is in the order of time and no
\* session is ahead of it.
CaughtUp ==
    steady =>
        /\ \A i, j \in 1..Len(json_data) : i < j => json_data[i].ts < json_data[j].ts
        /\ \A s \in Sessions : Behind(shown[s], ts[s])

LEMMA CaughtUpInit == Init => CaughtUp
  <1>1. Len(<<>>) = 0 /\ 1..0 = {}
    OBVIOUS
  <1>2. QED
    BY <1>1 DEF Init, CaughtUp, Behind

\* The new record is the last; the others are those of before, shifted.
LEMMA PushShifts ==
    ASSUME TypeOK, Push
    PROVE  LET n == Len(json_data)
               k == Len(json_data')
           IN  /\ n \in Nat /\ k \in Nat \ {0} /\ clock \in Nat \ {0}
               /\ json_data'[k].ts = clock
               /\ \A i \in 1..(k - 1) :
                     n + 1 - k + i \in 1..n /\ json_data'[i] = json_data[n + 1 - k + i]
  <1> DEFINE x == [ts |-> clock, nr |-> pushed + 1]
             h == Append(json_data, x)
             n == Len(json_data)
             k == Len(json_data')
  <1>1. json_data \in Seq(Records) /\ n \in Nat
    BY LenProperties DEF TypeOK
  <1>2. x \in Records /\ x.ts = clock /\ clock \in Nat \ {0}
    BY DEF TypeOK, Records
  <1>3. /\ h \in Seq(Records) /\ h # <<>> /\ Len(h) = n + 1
        /\ \A i \in 1..n : h[i] = json_data[i]
        /\ h[n + 1] = x
    BY <1>1, <1>2, AppendProperties
  <1>4. json_data' = Trimmed(h)
    BY DEF Push
  <1>5. MaxHistory \in Nat
    BY WebsocketsAssumption
  <1> HIDE DEF x, h
  <1>6. /\ k \in 1..MaxHistory /\ k <= n + 1
        /\ \A i \in 1..k : json_data'[i] = h[n + 1 - k + i]
    BY <1>3, <1>4, TrimmedKeepsTheLast
  <1> HIDE DEF n, k
  <1>7. json_data'[k].ts = clock
    <2>1. k \in 1..k /\ n + 1 - k + k = n + 1
      BY <1>1, <1>5, <1>6
    <2>2. json_data'[k] = x
      BY <1>3, <1>6, <2>1
    <2>3. QED
      BY <1>2, <2>2
  <1>8. ASSUME NEW i \in 1..(k - 1)
        PROVE  n + 1 - k + i \in 1..n /\ json_data'[i] = json_data[n + 1 - k + i]
    <2>1. i \in 1..k /\ n + 1 - k + i \in 1..n
      BY <1>1, <1>5, <1>6, <1>8
    <2>2. QED
      BY <1>3, <1>6, <2>1
  <1>9. k \in Nat \ {0}
    BY <1>5, <1>6
  <1>10. QED
    BY <1>1, <1>2, <1>7, <1>8, <1>9 DEF n, k

LEMMA CaughtUpPush ==
    ASSUME TypeOK, CaughtUp, Push, steady'
    PROVE  CaughtUp'
  <1> DEFINE n == Len(json_data)
             k == Len(json_data')
             d == n + 1 - k
  <1>1. /\ n \in Nat /\ k \in Nat \ {0} /\ clock \in Nat \ {0}
        /\ json_data'[k].ts = clock
        /\ \A i \in 1..(k - 1) : d + i \in 1..n /\ json_data'[i] = json_data[d + i]
    BY PushShifts
  <1>2. /\ steady /\ UNCHANGED <<shown, ts>>
        /\ \A i \in 1..n : json_data[i].ts < clock
    <2>1. DOMAIN json_data = 1..n
      BY LenProperties DEF TypeOK
    <2>2. QED
      BY <2>1 DEF Push, TypeOK
  <1>3. /\ \A i, j \in 1..n : i < j => json_data[i].ts < json_data[j].ts
        /\ \A s \in Sessions : Behind(shown[s], ts[s])
    BY <1>2 DEF CaughtUp
  <1>4. \A i \in 1..n : json_data[i].ts \in Nat
    <2>1. \A i \in 1..n : json_data[i] \in Records
      BY ElementOfSeq DEF TypeOK
    <2>2. QED
      BY <2>1 DEF Records
  <1>5. d \in Int
    BY <1>1
  <1> HIDE DEF n, k, d
  <1>6. \A i \in 1..k : i = k \/ i \in 1..(k - 1)
    BY <1>1
  <1>7. ASSUME NEW i \in 1..k, NEW j \in 1..k, i < j
        PROVE  json_data'[i].ts < json_data'[j].ts
    <2>1. i \in 1..(k - 1)
      BY <1>1, <1>7
    <2>2. CASE j = k
      BY <1>1, <1>2, <2>1, <2>2
    <2>3. CASE j \in 1..(k - 1)
      <3>1. d + i \in 1..n /\ d + j \in 1..n
        BY <1>1, <2>1, <2>3
      <3>2. d + i < d + j
        BY <1>5, <1>7
      <3>3. QED
        BY <1>1, <1>3, <2>1, <2>3, <3>1, <3>2
    <2>4. QED
      BY <1>6, <2>2, <2>3
  <1>8. ASSUME NEW s \in Sessions
        PROVE  /\ ts[s] = 0 \/ ts[s] <= json_data'[k].ts
               /\ \A i \in 1..k :
                     json_data'[i].ts <= ts[s] => Contains(shown[s], json_data'[i].nr)
    <2>1. ts[s] \in Nat
      BY <1>8 DEF TypeOK
    <2>2. /\ ts[s] = 0 \/ \E i \in 1..n : ts[s] <= json_data[i].ts
          /\ \A i \in 1..n : json_data[i].ts <= ts[s] => Contains(shown[s], json_data[i].nr)
      BY <1>3, <1>8 DEF Behind, n
    <2>3. ts[s] < clock
      BY <1>1, <1>2, <1>4, <2>1, <2>2
    <2>4. \A i \in 1..k : json_data'[i].ts <= ts[s] => i \in 1..(k - 1)
      BY <1>1, <1>6, <2>1, <2>3
    <2>5. QED
      BY <1>1, <2>1, <2>2, <2>3, <2>4
  <1>9. k \in 1..k
    BY <1>1
  <1>10. \A s \in Sessions : Behind(shown[s], ts[s])'
    BY <1>2, <1>8, <1>9 DEF Behind, k
  <1>11. QED
    BY <1>7, <1>10 DEF CaughtUp, k

\* A session that is served from what it has behind it gets all of the history.
LEMMA SendCatchesUp ==
    ASSUME TypeOK, NEW t \in Nat, NEW q \in Seq(Nat \ {0}),
           \A i, j \in 1..Len(json_data) : i < j => json_data[i].ts < json_data[j].ts,
           Behind(q, t)
    PROVE  /\ \A i \in 1..Len(json_data) :
                 Contains(q \o Numbers(t), json_data[i].nr)
           /\ Stamp(t) = 0 \/ \E i \in 1..Len(json_data) : Stamp(t) <= json_data[i].ts
  <1> DEFINE n == Len(json_data)
             r == Resume(t)
             u == Unsent(t)
             g == Numbers(t)
             l == Len(q)
  <1>1. /\ n \in Nat /\ l \in Nat /\ DOMAIN json_data = 1..n
        /\ \A i \in 1..n : json_data[i] \in Records
    BY LenProperties, ElementOfSeq DEF TypeOK
  <1>2. r \in 1..(n + 1)
    BY ResumeBehind
  <1>3. /\ u \in Seq(Records) /\ Len(u) = n + 1 - r
        /\ \A i \in 1..Len(u) : u[i] = json_data[r - 1 + i]
    BY UnsentIsTheRest
  <1>4. /\ g \in Seq(Nat \ {0}) /\ Len(g) = Len(u)
        /\ \A i \in 1..Len(u) : g[i] = u[i].nr
    <2>1. DOMAIN u = 1..Len(u) /\ Len(u) \in Nat
      BY <1>3, LenProperties
    <2>2. \A i \in 1..Len(u) : u[i].nr \in Nat \ {0}
      <3>1. \A i \in 1..Len(u) : u[i] \in Records
        BY <1>3, ElementOfSeq
      <3>2. QED
        BY <3>1 DEF Records
    <2>3. g \in [1..Len(u) -> Nat \ {0}]
      BY <2>1, <2>2 DEF Numbers
    <2>4. QED
      BY <2>1, <2>3 DEF Numbers
  <1>5. /\ Len(q \o g) = l + Len(g)
        /\ \A i \in 1..(l + Len(g)) :
              (q \o g)[i] = IF i <= l THEN q[i] ELSE g[i - l]
    BY <1>4, ConcatProperties
  <1>6. r = 1 \/ (r - 1 \in 1..n /\ json_data[r - 1].ts <= t)
    <2> DEFINE S == {0} \cup {i \in DOMAIN json_data : json_data[i].ts <= t}
    <2>1. S \in SUBSET (0..n) /\ S # {}
      BY <1>1
    <2>2. Max(S) \in S /\ r = 1 + Max(S)
      BY <1>1, <2>1, MaxOfBounded DEF Resume
    <2>3. Max(S) \in 0..n
      BY <2>1, <2>2
    <2>4. Max(S) = 0 \/ (Max(S) \in 1..n /\ json_data[Max(S)].ts <= t)
      BY <1>1, <2>2
    <2> HIDE DEF S
    <2>5. r - 1 = Max(S)
      BY <2>2, <2>3
    <2>6. QED
      BY <2>2, <2>4, <2>5
  <1>7. ASSUME NEW i \in 1..n
        PROVE  \E j \in 1..(l + Len(g)) : (q \o g)[j] = json_data[i].nr
    <2>1. CASE i < r
      <3>1. r - 1 \in 1..n /\ json_data[r - 1].ts <= t
        BY <1>1, <1>2, <1>6, <2>1
      <3>2. i = r - 1 \/ i < r - 1
        BY <1>2, <2>1
      <3>3. i = r - 1 \/ json_data[i].ts < json_data[r - 1].ts
        BY <1>7, <3>1, <3>2
      <3>4. json_data[i].ts \in Nat /\ json_data[r - 1].ts \in Nat
        BY <1>1, <1>7, <3>1 DEF Records
      <3>5. json_data[i].ts <= t
        BY <3>1, <3>3, <3>4
      <3>6. PICK j \in 1..l : q[j] = json_data[i].nr
        BY <1>7, <3>5 DEF Behind, Contains
      <3>7. Len(g) \in Nat
        BY <1>4, LenProperties
      <3> HIDE DEF l, g
      <3>8. j \in 1..(l + Len(g)) /\ j <= l
        BY <1>1, <3>7
      <3>9. QED
        BY <1>5, <3>6, <3>8
    <2>2. CASE ~(i < r)
      <3> DEFINE m == i - r + 1
      <3> HIDE DEF n, r, u, g, l
      <3>1. /\ m \in 1..Len(u) /\ r - 1 + m = i
            /\ l + m \in 1..(l + Len(u)) /\ ~(l + m <= l) /\ (l + m) - l = m
        BY <1>1, <1>2, <1>3, <1>7, <2>2
      <3>2. g[m] = json_data[i].nr
        BY <1>3, <1>4, <3>1
      <3>3. (q \o g)[l + m] = g[m]
        BY <1>4, <1>5, <3>1
      <3>4. QED
        BY <1>4, <3>1, <3>2, <3>3
    <2>3. QED
      BY <2>1, <2>2
  <1>8. Stamp(t) = 0 \/ \E i \in 1..n : Stamp(t) <= json_data[i].ts
    <2>1. CASE u = <<>>
      BY <2>1 DEF Stamp, Behind
    <2>2. CASE u # <<>>
      <3> DEFINE k == Len(u)
      <3>1. Len(u) \in Nat /\ Len(u) # 0
        BY <1>3, <2>2, EmptySeq, LenProperties
      <3>2. Stamp(t) = u[k].ts
        BY <2>2 DEF Stamp, Last
      <3> HIDE DEF n, r, u
      <3>3. r - 1 + k = n /\ n \in 1..n /\ k \in 1..k
        BY <1>1, <1>2, <1>3, <3>1
      <3>4. Stamp(t) = json_data[n].ts
        BY <1>3, <3>2, <3>3
      <3>5. json_data[n].ts \in Nat
        BY <1>1, <3>3 DEF Records
      <3>6. QED
        BY <3>3, <3>4, <3>5
    <2>3. QED
      BY <2>1, <2>2
  <1>9. QED
    BY <1>5, <1>7, <1>8 DEF Contains

LEMMA CaughtUpSend ==
    ASSUME TypeOK, CaughtUp, steady,
           NEW s \in Sessions, NEW t \in Nat, NEW q \in Seq(Nat \ {0}),
           Behind(q, t), SendRecords(s, t, q),
           UNCHANGED <<json_data, steady>>
    PROVE  /\ CaughtUp'
           /\ \A i \in DOMAIN json_data : Contains(shown'[s], json_data[i].nr)
  <1>1. /\ \A i, j \in 1..Len(json_data) : i < j => json_data[i].ts < json_data[j].ts
        /\ \A r \in Sessions : Behind(shown[r], ts[r])
    BY DEF CaughtUp
  <1>2. /\ shown'[s] = q \o Numbers(t) /\ ts'[s] = Stamp(t)
        /\ \A r \in Sessions \ {s} : shown'[r] = shown[r] /\ ts'[r] = ts[r]
    BY DEF SendRecords, Numbers, Stamp, TypeOK
  <1>3. /\ \A i \in 1..Len(json_data) : Contains(shown'[s], json_data[i].nr)
        /\ ts'[s] = 0 \/ \E i \in 1..Len(json_data) : ts'[s] <= json_data[i].ts
    BY <1>1, <1>2, SendCatchesUp
  <1>4. \A r \in Sessions : Behind(shown[r], ts[r])'
    <2>1. Behind(shown[s], ts[s])'
      BY <1>3 DEF Behind
    <2>2. ASSUME NEW r \in Sessions \ {s}
          PROVE  Behind(shown[r], ts[r])'
      BY <1>1, <1>2, <2>2 DEF Behind
    <2>3. QED
      BY <2>1, <2>2
  <1>5. DOMAIN json_data = 1..Len(json_data)
    BY LenProperties DEF TypeOK
  <1>6. QED
    BY <1>1, <1>3, <1>4, <1>5 DEF CaughtUp

LEMMA CaughtUpNext ==
    ASSUME IInv, CaughtUp, [Next]_vars
    PROVE  /\ CaughtUp'
           /\ \A s \in Sessions : steady /\ Writeable(s) =>
                 \A i \in DOMAIN json_data : Contains(shown'[s], json_data[i].nr)
  <1>1. TypeOK
    BY DEF IInv
  <1>2. ASSUME NEW s \in Sessions, steady, Writeable(s)
        PROVE  /\ CaughtUp'
               /\ \A i \in DOMAIN json_data : Contains(shown'[s], json_data[i].nr)
    <2>1. /\ SendRecords(s, ts[s], shown[s]) /\ UNCHANGED <<json_data, steady>>
          /\ ts[s] \in Nat /\ shown[s] \in Seq(Nat \ {0}) /\ Behind(shown[s], ts[s])
      BY <1>1, <1>2 DEF Writeable, TypeOK, CaughtUp
    <2>2. QED
      BY <1>1, <1>2, <2>1, CaughtUpSend
  <1>3. ASSUME NEW s \in Sessions, steady, Establish(s)
        PROVE  CaughtUp'
    <2>1. SendRecords(s, 0, <<>>) /\ UNCHANGED <<json_data, steady>>
      BY <1>3 DEF Establish
    <2>2. <<>> \in Seq(Nat \ {0}) /\ 0 \in Nat
      OBVIOUS
    <2>3. \A i \in 1..Len(json_data) : json_data[i].ts \in Nat \ {0}
      <3>1. \A i \in 1..Len(json_data) : json_data[i] \in Records
        BY <1>1, ElementOfSeq DEF TypeOK
      <3>2. QED
        BY <3>1 DEF Records
    <2>4. Behind(<<>>, 0)
      BY <2>3 DEF Behind
    <2>5. QED
      BY <1>1, <1>3, <2>1, <2>2, <2>4, CaughtUpSend
  <1>4. ASSUME Push PROVE CaughtUp'
    <2>1. CASE steady'
      BY <1>1, <1>4, <2>1, CaughtUpPush
    <2>2. CASE ~steady'
      BY <2>2 DEF CaughtUp
    <2>3. QED
      BY <2>1, <2>2
  <1>5. ASSUME Clock \/ UNCHANGED vars \/ \E s \in Sessions : Close(s)
        PROVE  CaughtUp'
    <2>1. UNCHANGED <<json_data, ts, shown, steady>>
      BY <1>5 DEF Clock, vars, Close
    <2>2. QED
      BY <2>1 DEF CaughtUp, Behind
  <1>6. ASSUME ~steady, NEW s \in Sessions, Establish(s) \/ Writeable(s)
        PROVE  CaughtUp'
    BY <1>6 DEF Establish, Writeable, CaughtUp
  <1>7. CaughtUp'
    BY <1>2, <1>3, <1>4, <1>5, <1>6 DEF Next
  <1>8. QED
    BY <1>2, <1>7

(***************************************************************************)
(* A session that is served has got all of the history when the clock      *)
(* advanced between any two records, for any number of sessions and length *)
(* of the history. (websockets.cpp:33, 50-71)                              *)
(***************************************************************************)
THEOREM NothingIsSkipped == Spec => NothingSkipped
  <1> DEFINE Complete == \A s \in Sessions : steady /\ Writeable(s) =>
                 \A i \in DOMAIN json_data : Contains(shown'[s], json_data[i].nr)
  <1>1. Init => CaughtUp
    BY CaughtUpInit
  <1>2. IInv /\ CaughtUp /\ [Next]_vars => CaughtUp' /\ Complete
    BY CaughtUpNext
  <1> HIDE DEF Complete
  <1>3. IInv /\ CaughtUp /\ [Next]_vars => [Complete]_vars
    BY <1>2
  <1>4. Spec => [][Complete]_vars
    BY <1>1, <1>2, <1>3, HistoryInvariant, PTL DEF Spec
  <1>5. QED
    BY <1>4 DEF Complete, NothingSkipped

-----------------------------------------------------------------------------
(* The order of OIDs.                                                      *)

\* Min picks the smallest element of a set of natural numbers.
LEMMA MinOfNat ==
    ASSUME NEW S \in SUBSET Nat, S # {}
    PROVE  Min(S) \in S /\ \A y \in S : Min(S) <= y
  <1>1. \E x \in S : \A y \in S : x <= y
    BY Smallest
  <1>2. QED
    BY <1>1 DEF Min

-----------------------------------------------------------------------------
(* Prefixes and the order of OIDs, number by number.                       *)

LEMMA PrefixProperties ==
    ASSUME NEW o \in Seq(Nat), NEW k \in 0..Len(o)
    PROVE  /\ Prefix(o, k) \in Seq(Nat)
           /\ Len(Prefix(o, k)) = k
           /\ \A j \in 1..k : Prefix(o, k)[j] = o[j]
  BY SubSeqProperties DEF Prefix

LEMMA PrefixesAgree ==
    ASSUME NEW o \in Seq(Nat), NEW p \in Seq(Nat),
           NEW k \in 0..Len(o), k <= Len(p)
    PROVE  Prefix(o, k) = Prefix(p, k) <=> \A j \in 1..k : o[j] = p[j]
  <1> Len(p) \in Nat /\ k \in 0..Len(p)
    BY LenProperties
  <1>1. /\ Prefix(o, k) \in Seq(Nat) /\ Len(Prefix(o, k)) = k
        /\ \A j \in 1..k : Prefix(o, k)[j] = o[j]
    BY PrefixProperties
  <1>2. /\ Prefix(p, k) \in Seq(Nat) /\ Len(Prefix(p, k)) = k
        /\ \A j \in 1..k : Prefix(p, k)[j] = p[j]
    BY PrefixProperties
  <1>3. ASSUME \A j \in 1..k : o[j] = p[j]
        PROVE  Prefix(o, k) = Prefix(p, k)
    BY <1>1, <1>2, <1>3, SeqEqual
  <1>4. QED
    BY <1>1, <1>2, <1>3

LEMMA PrefixOfAll ==
    ASSUME NEW o \in Seq(Nat)
    PROVE  /\ Prefix(o, Len(o)) = o
           /\ Prefix(o, 0) = <<>>
  <1>1. Len(o) \in Nat
    BY LenProperties
  <1>2. Prefix(o, Len(o)) = o
    BY <1>1, PrefixProperties, SeqEqual
  <1>3. Prefix(o, 0) = <<>>
    BY <1>1, PrefixProperties, EmptySeq
  <1>4. QED
    BY <1>2, <1>3

LEMMA PrefixOfPrefix ==
    ASSUME NEW o \in Seq(Nat), NEW k \in 0..Len(o), NEW j \in 0..k
    PROVE  Prefix(Prefix(o, k), j) = Prefix(o, j)
  <1>0. Len(o) \in Nat /\ k \in Nat /\ j \in 0..Len(o) /\ j <= Len(Prefix(o, k))
    BY LenProperties, PrefixProperties
  <1>1. Prefix(o, k) \in Seq(Nat) /\ \A i \in 1..j : Prefix(o, k)[i] = o[i]
    BY PrefixProperties
  <1>2. QED
    BY <1>0, <1>1, PrefixesAgree

LEMMA LongerPrefix ==
    ASSUME NEW o \in Seq(Nat), NEW k \in 1..Len(o)
    PROVE  Prefix(o, k) = Append(Prefix(o, k - 1), o[k])
  <1>0. Len(o) \in Nat /\ k - 1 \in 0..Len(o) /\ k \in 0..Len(o) /\ o[k] \in Nat
    BY LenProperties, ElementOfSeq
  <1>1. /\ Prefix(o, k - 1) \in Seq(Nat) /\ Len(Prefix(o, k - 1)) = k - 1
        /\ \A j \in 1..(k - 1) : Prefix(o, k - 1)[j] = o[j]
    BY <1>0, PrefixProperties
  <1>2. /\ Prefix(o, k) \in Seq(Nat) /\ Len(Prefix(o, k)) = k
        /\ \A j \in 1..k : Prefix(o, k)[j] = o[j]
    BY <1>0, PrefixProperties
  <1>3. /\ Append(Prefix(o, k - 1), o[k]) \in Seq(Nat)
        /\ Len(Append(Prefix(o, k - 1), o[k])) = k
        /\ \A j \in 1..k : Append(Prefix(o, k - 1), o[k])[j] = o[j]
    BY <1>0, <1>1, AppendProperties
  <1>4. QED
    BY <1>2, <1>3, SeqEqual

LEMMA IsPrefixPointwise ==
    ASSUME NEW o \in Seq(Nat), NEW p \in Seq(Nat)
    PROVE  IsPrefix(o, p) <=> Len(o) <= Len(p) /\ \A j \in 1..Len(o) : o[j] = p[j]
  <1>1. Len(o) \in Nat /\ Len(o) \in 0..Len(o)
    BY LenProperties
  <1>2. CASE Len(o) <= Len(p)
    BY <1>1, <1>2, PrefixesAgree DEF IsPrefix, Prefix
  <1>3. CASE ~(Len(o) <= Len(p))
    BY <1>3 DEF IsPrefix
  <1>4. QED
    BY <1>2, <1>3

LEMMA LessPointwise ==
    ASSUME NEW o \in Seq(Nat), NEW p \in Seq(Nat)
    PROVE  Less(o, p) <=>
             \/ IsStrictPrefix(o, p)
             \/ \E k \in 1..Len(o) : /\ k <= Len(p)
                                     /\ \A j \in 1..(k - 1) : o[j] = p[j]
                                     /\ o[k] < p[k]
  <1>1. Len(o) \in Nat /\ Len(p) \in Nat
    BY LenProperties
  <1> DEFINE m == Min({Len(o), Len(p)})
  <1>2. m \in {Len(o), Len(p)} /\ m <= Len(o) /\ m <= Len(p)
    BY <1>1, MinOfNat
  <1>3. \A k \in Nat : k <= m <=> k <= Len(o) /\ k <= Len(p)
    BY <1>1, <1>2
  <1> HIDE DEF m
  <1>4. ASSUME NEW k \in 1..m
        PROVE  Prefix(o, k - 1) = Prefix(p, k - 1) <=> \A j \in 1..(k - 1) : o[j] = p[j]
    <2>1. k - 1 \in 0..Len(o) /\ k - 1 <= Len(p)
      BY <1>1, <1>2
    <2>2. QED
      BY <2>1, PrefixesAgree
  <1>5. 1..m = {k \in 1..Len(o) : k <= Len(p)}
    BY <1>1, <1>2, <1>3
  <1>6. Less(o, p) <=>
          \/ IsStrictPrefix(o, p)
          \/ \E k \in 1..m : Prefix(o, k - 1) = Prefix(p, k - 1) /\ o[k] < p[k]
    BY DEF Less, m
  <1>7. QED
    BY <1>4, <1>5, <1>6

\* Two OIDs of which neither begins with the other differ somewhere first.
LEMMA FirstDifference ==
    ASSUME NEW o \in Seq(Nat), NEW p \in Seq(Nat),
           ~IsPrefix(o, p), ~IsPrefix(p, o)
    PROVE  \E k \in 1..Len(o) : /\ k <= Len(p)
                                /\ \A j \in 1..(k - 1) : o[j] = p[j]
                                /\ o[k] # p[k]
  <1>1. Len(o) \in Nat /\ Len(p) \in Nat
    BY LenProperties
  <1> DEFINE D == {k \in Nat : k \in 1..Len(o) /\ k <= Len(p) /\ o[k] # p[k]}
  <1>2. D # {}
    <2>1. CASE Len(o) <= Len(p)
      <3>1. PICK j \in 1..Len(o) : o[j] # p[j]
        BY <2>1, IsPrefixPointwise
      <3>2. j \in D
        BY <1>1, <2>1, <3>1
      <3>3. QED
        BY <3>2
    <2>2. CASE Len(p) <= Len(o)
      <3>1. PICK j \in 1..Len(p) : p[j] # o[j]
        BY <2>2, IsPrefixPointwise
      <3>2. j \in D
        BY <1>1, <2>2, <3>1
      <3>3. QED
        BY <3>2
    <2>3. QED
      BY <1>1, <2>1, <2>2
  <1>3. PICK k \in D : \A j \in D : k <= j
    BY <1>2, Smallest
  <1>4. ASSUME NEW j \in 1..(k - 1)
        PROVE  o[j] = p[j]
    <2>1. j \in Nat /\ j \in 1..Len(o) /\ j <= Len(p) /\ ~(k <= j)
      BY <1>1, <1>3
    <2>2. j \notin D
      BY <1>3, <2>1
    <2>3. QED
      BY <2>1, <2>2
  <1>5. QED
    BY <1>3, <1>4

-----------------------------------------------------------------------------
(* A child is put in its place.                                            *)

Ascending(s) == \A i, j \in 1..Len(s) : i < j => s[i] < s[j]

LEMMA InOrderAdds ==
    ASSUME NEW s \in Seq(Nat), Ascending(s), NEW e \in Nat, e \notin ToSet(s)
    PROVE  /\ InOrder(s, e) \in Seq(Nat)
           /\ Ascending(InOrder(s, e))
           /\ ToSet(InOrder(s, e)) = ToSet(s) \cup {e}
  <1> DEFINE L == Len(s)
             m == Min({k \in 1..L : e < s[k]} \cup {L + 1})
             t == InOrder(s, e)
  <1>1. L \in Nat /\ DOMAIN s = 1..L /\ \A i \in 1..L : s[i] \in Nat
    BY LenProperties, ElementOfSeq
  <1>2. /\ m \in {k \in 1..L : e < s[k]} \cup {L + 1}
        /\ \A y \in {k \in 1..L : e < s[k]} \cup {L + 1} : m <= y
    <2>1. {k \in 1..L : e < s[k]} \cup {L + 1} \in SUBSET Nat
      BY <1>1
    <2>2. QED
      BY <2>1, MinOfNat
  <1>3. t = SubSeq(s, 1, m - 1) \o <<e>> \o SubSeq(s, m, L)
    BY DEF InOrder, InsertAt
  <1> HIDE DEF L, m, t
  <1>4. m \in 1..(L + 1)
    BY <1>1, <1>2
  <1>5. \A i \in 1..(m - 1) : s[i] < e
    <2>1. ASSUME NEW i \in 1..(m - 1)
          PROVE  s[i] < e
      <3>1. i \in 1..L /\ ~(m <= i)
        BY <1>1, <1>4
      <3>2. ~(e < s[i])
        BY <1>2, <3>1
      <3>3. s[i] # e
        BY <1>1, <3>1 DEF ToSet
      <3>4. QED
        BY <1>1, <3>1, <3>2, <3>3
    <2>2. QED
      BY <2>1
  <1>6. \A i \in m..L : e < s[i]
    <2>1. ASSUME NEW i \in m..L
          PROVE  e < s[i]
      <3>1. m \in 1..L /\ i \in 1..L /\ e < s[m]
        BY <1>1, <1>2, <1>4
      <3>2. m = i \/ s[m] < s[i]
        BY <1>1, <3>1 DEF Ascending, L
      <3>3. QED
        BY <1>1, <3>1, <3>2
    <2>2. QED
      BY <2>1
  <1> DEFINE a == SubSeq(s, 1, m - 1)
             b == SubSeq(s, m, L)
  <1>7. /\ a \in Seq(Nat) /\ Len(a) = m - 1
        /\ \A i \in 1..(m - 1) : a[i] = s[i]
    BY <1>1, <1>4, SubSeqProperties DEF L
  <1>8. /\ b \in Seq(Nat) /\ Len(b) = L - m + 1
        /\ \A i \in 1..(L - m + 1) : b[i] = s[m + i - 1]
    BY <1>1, <1>4, SubSeqProperties DEF L
  <1> HIDE DEF a, b
  <1>9. /\ a \o <<e>> \in Seq(Nat) /\ Len(a \o <<e>>) = m
        /\ \A i \in 1..(m - 1) : (a \o <<e>>)[i] = s[i]
        /\ (a \o <<e>>)[m] = e
    <2> DEFINE u == <<e>>
    <2>1. u \in Seq(Nat) /\ Len(u) = 1 /\ u[1] = e
      OBVIOUS
    <2> HIDE DEF u
    <2>2. /\ a \o u \in Seq(Nat)
          /\ Len(a \o u) = Len(a) + Len(u)
          /\ \A i \in 1..(Len(a) + Len(u)) :
                (a \o u)[i] = IF i <= Len(a) THEN a[i] ELSE u[i - Len(a)]
      BY <1>7, <2>1, ConcatProperties
    <2>3. Len(a) + Len(u) = m
      BY <1>4, <1>7, <2>1
    <2>4. ASSUME NEW i \in 1..(m - 1)
          PROVE  (a \o u)[i] = s[i]
      BY <1>4, <1>7, <2>2, <2>3, <2>4
    <2>5. (a \o u)[m] = u[m - (m - 1)] /\ m - (m - 1) = 1
      BY <1>4, <1>7, <2>2, <2>3
    <2>6. /\ a \o u \in Seq(Nat) /\ Len(a \o u) = m
          /\ \A i \in 1..(m - 1) : (a \o u)[i] = s[i]
          /\ (a \o u)[m] = e
      BY <2>1, <2>2, <2>3, <2>4, <2>5
    <2>7. QED
      BY <2>6 DEF u
  <1> DEFINE w == a \o <<e>>
  <1>10. /\ t \in Seq(Nat) /\ Len(t) = L + 1
         /\ \A i \in 1..(m - 1) : t[i] = s[i]
         /\ t[m] = e
         /\ \A i \in (m + 1)..(L + 1) : t[i] = s[i - 1]
    <2>1. t = w \o b
      BY <1>3 DEF a, b
    <2>2. /\ w \in Seq(Nat) /\ Len(w) = m
          /\ \A i \in 1..(m - 1) : w[i] = s[i]
          /\ w[m] = e
      BY <1>9
    <2> HIDE DEF w
    <2>3. /\ t \in Seq(Nat)
          /\ Len(t) = Len(w) + Len(b)
          /\ \A i \in 1..(Len(w) + Len(b)) :
                t[i] = IF i <= Len(w) THEN w[i] ELSE b[i - Len(w)]
      BY <1>8, <2>1, <2>2, ConcatProperties
    <2>4. Len(w) + Len(b) = L + 1
      BY <1>1, <1>4, <1>8, <2>2
    <2>5. \A i \in 1..m : i \in 1..(L + 1) /\ t[i] = w[i]
      BY <1>1, <1>4, <2>2, <2>3, <2>4
    <2>6. ASSUME NEW i \in (m + 1)..(L + 1)
          PROVE  t[i] = s[i - 1]
      <3>1. i \in 1..(L + 1) /\ ~(i <= m) /\ i - m \in 1..(L - m + 1)
            /\ m + (i - m) - 1 = i - 1
        BY <1>1, <1>4
      <3>2. t[i] = b[i - m]
        BY <2>2, <2>3, <2>4, <3>1
      <3>3. b[i - m] = s[m + (i - m) - 1]
        BY <1>8, <3>1
      <3>4. QED
        BY <3>1, <3>2, <3>3
    <2>7. \A i \in 1..(m - 1) : t[i] = s[i]
      <3>1. \A i \in 1..(m - 1) : i \in 1..m
        BY <1>4
      <3>2. QED
        BY <2>2, <2>5, <3>1
    <2>8. t[m] = e
      <3>1. m \in 1..m
        BY <1>4
      <3>2. QED
        BY <2>2, <2>5, <3>1
    <2>9. QED
      BY <2>3, <2>4, <2>6, <2>7, <2>8
  <1>11. Ascending(t)
    <2>1. ASSUME NEW i \in 1..(L + 1), NEW j \in 1..(L + 1), i < j
          PROVE  t[i] < t[j]
      <3>1. CASE j < m
        <4>1. i \in 1..(m - 1) /\ j \in 1..(m - 1) /\ i \in 1..L /\ j \in 1..L
          BY <1>1, <1>4, <2>1, <3>1
        <4>2. s[i] < s[j]
          BY <2>1, <4>1 DEF Ascending, L
        <4>3. QED
          BY <1>10, <4>1, <4>2
      <3>2. CASE j = m
        BY <1>1, <1>4, <1>5, <1>10, <2>1, <3>2
      <3>3. CASE j > m /\ i < m
        <4>1. i \in 1..(m - 1) /\ j \in (m + 1)..(L + 1) /\ j - 1 \in m..L
              /\ i \in 1..L /\ j - 1 \in 1..L
          BY <1>1, <1>4, <2>1, <3>3
        <4>2. t[i] = s[i] /\ t[j] = s[j - 1] /\ s[i] < e /\ e < s[j - 1]
          BY <1>5, <1>6, <1>10, <4>1
        <4>3. QED
          BY <1>1, <4>1, <4>2
      <3>4. CASE i = m
        <4>1. j \in (m + 1)..(L + 1) /\ j - 1 \in m..L
          BY <1>1, <1>4, <2>1, <3>4
        <4>2. QED
          BY <1>6, <1>10, <3>4, <4>1
      <3>5. CASE i > m
        <4>1. i \in (m + 1)..(L + 1) /\ j \in (m + 1)..(L + 1)
              /\ i - 1 \in 1..L /\ j - 1 \in 1..L /\ i - 1 < j - 1
          BY <1>1, <1>4, <2>1, <3>5
        <4>2. s[i - 1] < s[j - 1]
          BY <4>1 DEF Ascending, L
        <4>3. QED
          BY <1>10, <4>1, <4>2
      <3>6. QED
        BY <1>1, <1>4, <3>1, <3>2, <3>3, <3>4, <3>5
    <2>2. QED
      BY <1>10, <2>1 DEF Ascending
  <1>12. ToSet(t) = ToSet(s) \cup {e}
    <2>1. DOMAIN t = 1..(L + 1)
      BY <1>1, <1>10, LenProperties
    <2>2. ASSUME NEW i \in 1..(L + 1)
          PROVE  t[i] \in ToSet(s) \cup {e}
      <3>1. CASE i < m
        <4>1. i \in 1..(m - 1) /\ i \in 1..L
          BY <1>1, <1>4, <3>1
        <4>2. QED
          BY <1>1, <1>10, <4>1 DEF ToSet
      <3>2. CASE i = m
        BY <1>10, <3>2
      <3>3. CASE i > m
        <4>1. i \in (m + 1)..(L + 1) /\ i - 1 \in 1..L
          BY <1>1, <1>4, <3>3
        <4>2. QED
          BY <1>1, <1>10, <4>1 DEF ToSet
      <3>4. QED
        BY <1>1, <1>4, <3>1, <3>2, <3>3
    <2>3. ASSUME NEW i \in 1..L
          PROVE  s[i] \in ToSet(t)
      <3>1. CASE i < m
        <4>1. i \in 1..(m - 1) /\ i \in 1..(L + 1)
          BY <1>1, <1>4, <3>1
        <4>2. QED
          BY <1>10, <2>1, <4>1 DEF ToSet
      <3>2. CASE i >= m
        <4>1. i + 1 \in (m + 1)..(L + 1) /\ i + 1 \in 1..(L + 1) /\ (i + 1) - 1 = i
          BY <1>1, <1>4, <3>2
        <4>2. t[i + 1] = s[i]
          BY <1>10, <4>1
        <4>3. QED
          BY <2>1, <4>1, <4>2 DEF ToSet
      <3>3. QED
        BY <1>1, <1>4, <3>1, <3>2
    <2>4. e \in ToSet(t)
      <3>1. m \in 1..(L + 1)
        BY <1>4
      <3>2. QED
        BY <1>10, <2>1, <3>1 DEF ToSet
    <2>5. QED
      BY <1>1, <2>1, <2>2, <2>3, <2>4 DEF ToSet
  <1>13. QED
    BY <1>10, <1>11, <1>12 DEF t

-----------------------------------------------------------------------------
(***************************************************************************)
(* The nodes are the prefixes of what was registered, each node lists its  *)
(* children in ascending order, and no branch is longer than some bound.   *)
(***************************************************************************)
TreeSound ==
    /\ registered \subseteq Oids
    /\ <<>> \in Nodes
    /\ \A o \in registered : \A k \in 1..Len(o) : Prefix(o, k) \in Nodes
    /\ \A n \in Nodes : \/ n = <<>>
                        \/ \E o \in registered : \E k \in 1..Len(o) : n = Prefix(o, k)
    /\ \A n \in Nodes : /\ kids[n] \in Seq(Nat)
                        /\ Ascending(kids[n])
                        /\ \A i \in Nat : i \in ToSet(kids[n]) <=> Append(n, i) \in Nodes
    /\ \E b \in Nat : \A n \in Nodes : Len(n) <= b
    /\ serving => registered # {}

LEMMA OidsAreSequences ==
    \A o \in Oids : o \in Seq(Nat) /\ Len(o) \in Nat /\ Len(o) >= 2
  BY SnmpAssumption, LenProperties

LEMMA NodesAreSequences ==
    ASSUME TreeSound
    PROVE  \A n \in Nodes : n \in Seq(Nat)
  <1>1. ASSUME NEW o \in registered, NEW k \in 1..Len(o)
        PROVE  Prefix(o, k) \in Seq(Nat)
    <2>1. o \in Seq(Nat) /\ k \in 0..Len(o)
      BY OidsAreSequences DEF TreeSound
    <2>2. QED
      BY <2>1, PrefixProperties
  <1>2. <<>> \in Seq(Nat)
    OBVIOUS
  <1>3. QED
    BY <1>1, <1>2 DEF TreeSound

\* Append(n, i) is a prefix of o just if n is, and i comes next in o.
LEMMA ChildOnBranch ==
    ASSUME NEW o \in Seq(Nat), NEW n \in Seq(Nat), NEW i \in Nat, NEW k \in 1..Len(o)
    PROVE  Append(n, i) = Prefix(o, k)
             => k = Len(n) + 1 /\ n = Prefix(o, k - 1) /\ i = o[k]
  <1>0. Len(o) \in Nat /\ k \in 0..Len(o) /\ k - 1 \in 0..Len(o) /\ Len(n) \in Nat
    BY LenProperties
  <1>1. /\ Prefix(o, k) \in Seq(Nat) /\ Len(Prefix(o, k)) = k
        /\ \A j \in 1..k : Prefix(o, k)[j] = o[j]
    BY <1>0, PrefixProperties
  <1>2. /\ Append(n, i) \in Seq(Nat)
        /\ Len(Append(n, i)) = Len(n) + 1
        /\ \A j \in 1..Len(n) : Append(n, i)[j] = n[j]
        /\ Append(n, i)[Len(n) + 1] = i
    BY AppendProperties
  <1> HAVE Append(n, i) = Prefix(o, k)
  <1>3. k = Len(n) + 1 /\ i = o[k]
    BY <1>0, <1>1, <1>2
  <1>4. /\ Prefix(o, k - 1) \in Seq(Nat) /\ Len(Prefix(o, k - 1)) = k - 1
        /\ \A j \in 1..(k - 1) : Prefix(o, k - 1)[j] = o[j]
    BY <1>0, PrefixProperties
  <1>5. Len(n) = k - 1
    BY <1>0, <1>3
  <1>6. \A j \in 1..(k - 1) : n[j] = o[j]
    <2>1. \A j \in 1..(k - 1) : j \in 1..k /\ j \in 1..Len(n)
      BY <1>0, <1>5
    <2>2. QED
      BY <1>1, <1>2, <2>1
  <1>7. n = Prefix(o, k - 1)
    BY <1>4, <1>5, <1>6, SeqEqual
  <1>8. QED
    BY <1>3, <1>7

\* A node's parent is a node.
LEMMA ParentIsNode ==
    ASSUME TreeSound, NEW n \in Seq(Nat), NEW i \in Nat, Append(n, i) \in Nodes
    PROVE  n \in Nodes
  <1>1. Append(n, i) # <<>>
    BY AppendProperties
  <1>2. PICK o \in registered : \E k \in 1..Len(o) : Append(n, i) = Prefix(o, k)
    BY <1>1 DEF TreeSound
  <1>3. o \in Seq(Nat) /\ Len(o) \in Nat
    BY OidsAreSequences DEF TreeSound
  <1>4. \A k \in 1..Len(o) : Append(n, i) = Prefix(o, k) => n = Prefix(o, k - 1)
    BY <1>3, ChildOnBranch
  <1> PICK k \in 1..Len(o) : n = Prefix(o, k - 1)
    BY <1>2, <1>4
  <1>5. CASE k = 1
    BY <1>3, <1>5, PrefixOfAll DEF TreeSound
  <1>6. CASE k # 1
    <2>1. k - 1 \in 1..Len(o)
      BY <1>3, <1>6
    <2>2. QED
      BY <2>1 DEF TreeSound
  <1>7. QED
    BY <1>5, <1>6

\* Every prefix of a node is one.
LEMMA PrefixIsNode ==
    ASSUME TreeSound, NEW n \in Nodes, NEW k \in 0..Len(n)
    PROVE  Prefix(n, k) \in Nodes
  <1>0. n \in Seq(Nat) /\ Len(n) \in Nat
    BY NodesAreSequences, LenProperties
  <1>1. CASE k = 0
    BY <1>0, <1>1, PrefixOfAll DEF TreeSound
  <1>2. CASE k # 0
    <2>0. n # <<>>
      BY <1>0, <1>2
    <2>1. PICK o \in registered : \E l \in 1..Len(o) : n = Prefix(o, l)
      BY <2>0 DEF TreeSound
    <2> PICK l \in 1..Len(o) : n = Prefix(o, l)
      BY <2>1
    <2>2. o \in Seq(Nat) /\ Len(o) \in Nat /\ l \in 0..Len(o)
      BY OidsAreSequences DEF TreeSound
    <2>3. Len(n) = l
      BY <2>2, PrefixProperties
    <2>4. k \in 0..l /\ k \in 1..Len(o)
      BY <1>2, <2>2, <2>3
    <2>5. Prefix(n, k) = Prefix(o, k)
      BY <2>2, <2>4, PrefixOfPrefix
    <2>6. QED
      BY <2>4, <2>5 DEF TreeSound
  <1>3. QED
    BY <1>1, <1>2

LEMMA TreeSoundInit == TreeInit => TreeSound
  <1> SUFFICES ASSUME TreeInit PROVE TreeSound
    OBVIOUS
  <1>1. Nodes = {<<>>} /\ kids[<<>>] = <<>> /\ registered = {} /\ ~serving
    BY DEF TreeInit, Nodes
  <1>2. <<>> \in Seq(Nat) /\ Len(<<>>) = 0 /\ ToSet(<<>>) = {} /\ Ascending(<<>>)
    BY DEF ToSet, Ascending
  <1>3. \A i \in Nat : Append(<<>>, i) # <<>>
    BY <1>2, AppendProperties
  <1>4. QED
    <2>1. \A n \in Nodes : /\ kids[n] \in Seq(Nat) /\ Ascending(kids[n])
                          /\ \A i \in Nat : i \in ToSet(kids[n]) <=> Append(n, i) \in Nodes
      BY <1>1, <1>2, <1>3
    <2>2. \A n \in Nodes : Len(n) <= 0
      BY <1>1, <1>2
    <2>3. QED
      BY <1>1, <2>1, <2>2 DEF TreeSound

LEMMA TreeSoundRegister ==
    ASSUME TreeSound, Register
    PROVE  TreeSound'
  <1>1. PICK o \in Oids : kids' = WithOid(o) /\ registered' = registered \cup {o}
    BY DEF Register
  <1>2. o \in Seq(Nat) /\ Len(o) \in Nat /\ Len(o) >= 2
    BY OidsAreSequences
  <1> DEFINE branch == {Prefix(o, k) : k \in 1..Len(o)}
             has(n) == IF n \in Nodes THEN kids[n] ELSE <<>>
             next(n) == o[Len(n) + 1]
  <1>3. /\ Nodes' = Nodes \cup branch
        /\ \A n \in Nodes' :
              kids'[n] = IF IsStrictPrefix(n, o) /\ ~Contains(has(n), next(n))
                         THEN InOrder(has(n), next(n))
                         ELSE has(n)
    BY <1>1 DEF WithOid, Nodes
  <1>4. \A k \in 1..Len(o) : Prefix(o, k) \in Seq(Nat) /\ Len(Prefix(o, k)) = k
    BY <1>2, PrefixProperties
  <1>5. \A n \in Nodes' : n \in Seq(Nat) /\ Len(n) \in Nat
    BY <1>3, <1>4, NodesAreSequences, LenProperties
  <1>6. <<>> \in Nodes'
    BY <1>3 DEF TreeSound
  <1>7. ASSUME NEW n \in Nodes', NEW i \in Nat
        PROVE  Append(n, i) \in Nodes'
                 <=> Append(n, i) \in Nodes \/ (IsStrictPrefix(n, o) /\ i = next(n))
    <2>1. n \in Seq(Nat) /\ Len(n) \in Nat
      BY <1>5
    <2>2. ASSUME IsStrictPrefix(n, o), i = next(n)
          PROVE  Append(n, i) \in branch
      <3>1. Len(n) <= Len(o) /\ \A j \in 1..Len(n) : n[j] = o[j]
        BY <1>2, <2>1, <2>2, IsPrefixPointwise DEF IsStrictPrefix
      <3>2. Len(n) # Len(o)
        BY <1>2, <2>1, <2>2, <3>1, SeqEqual DEF IsStrictPrefix
      <3>3. Len(n) + 1 \in 1..Len(o) /\ Len(n) \in 0..Len(o)
        BY <1>2, <2>1, <3>1, <3>2
      <3>4. n = Prefix(o, Len(n))
        BY <1>2, <2>1, <3>1, <3>3, PrefixProperties, SeqEqual
      <3>5. Prefix(o, Len(n) + 1) = Append(Prefix(o, (Len(n) + 1) - 1), o[Len(n) + 1])
        BY <1>2, <3>3, LongerPrefix
      <3>6. (Len(n) + 1) - 1 = Len(n)
        BY <2>1
      <3>7. QED
        BY <2>2, <3>3, <3>4, <3>5, <3>6
    <2>3. ASSUME Append(n, i) \in branch
          PROVE  IsStrictPrefix(n, o) /\ i = next(n)
      <3>1. \A k \in 1..Len(o) :
               Append(n, i) = Prefix(o, k)
                 => k = Len(n) + 1 /\ n = Prefix(o, k - 1) /\ i = o[k]
        BY <1>2, <2>1, ChildOnBranch
      <3>2. PICK k \in 1..Len(o) : k = Len(n) + 1 /\ n = Prefix(o, k - 1) /\ i = o[k]
        BY <2>3, <3>1
      <3>3. k - 1 \in 0..Len(o) /\ Len(n) < Len(o)
        BY <1>2, <2>1, <3>2
      <3>4. \A j \in 1..(k - 1) : n[j] = o[j]
        BY <1>2, <3>2, <3>3, PrefixProperties
      <3>5. Len(n) = k - 1
        BY <2>1, <3>2
      <3>6. IsPrefix(n, o) /\ n # o
        <4>1. Len(n) <= Len(o) /\ \A j \in 1..Len(n) : n[j] = o[j]
          BY <1>2, <2>1, <3>3, <3>4, <3>5
        <4>2. IsPrefix(n, o)
          BY <1>2, <2>1, <4>1, IsPrefixPointwise
        <4>3. n # o
          BY <1>2, <3>3
        <4>4. QED
          BY <4>2, <4>3
      <3>7. QED
        BY <3>2, <3>6 DEF IsStrictPrefix
    <2>4. QED
      BY <1>3, <2>2, <2>3
  <1>8. ASSUME NEW n \in Nodes'
        PROVE  /\ has(n) \in Seq(Nat)
               /\ Ascending(has(n))
               /\ \A i \in Nat : i \in ToSet(has(n)) <=> Append(n, i) \in Nodes
    <2>1. CASE n \in Nodes
      BY <2>1 DEF TreeSound
    <2>2. CASE n \notin Nodes
      <3>1. has(n) = <<>> /\ <<>> \in Seq(Nat) /\ ToSet(<<>>) = {} /\ Ascending(<<>>)
        BY <2>2 DEF ToSet, Ascending
      <3>2. \A i \in Nat : Append(n, i) \notin Nodes
        BY <1>5, <2>2, ParentIsNode
      <3>3. QED
        BY <3>1, <3>2
    <2>3. QED
      BY <2>1, <2>2
  <1>9. ASSUME NEW n \in Nodes'
        PROVE  /\ kids'[n] \in Seq(Nat)
               /\ Ascending(kids'[n])
               /\ \A i \in Nat : i \in ToSet(kids'[n]) <=> Append(n, i) \in Nodes'
    <2> HIDE DEF has
    <2>0. n \in Seq(Nat) /\ Len(n) \in Nat
      BY <1>5
    <2>1. CASE IsStrictPrefix(n, o)
      <3>1. next(n) \in Nat
        <4>1. Len(n) <= Len(o) /\ \A j \in 1..Len(n) : n[j] = o[j]
          BY <1>2, <2>0, <2>1, IsPrefixPointwise DEF IsStrictPrefix
        <4>2. Len(n) # Len(o)
          BY <1>2, <2>0, <2>1, <4>1, SeqEqual DEF IsStrictPrefix
        <4>3. Len(n) + 1 \in 1..Len(o)
          BY <1>2, <2>0, <4>1, <4>2
        <4>4. QED
          BY <1>2, <4>3, ElementOfSeq
      <3> HIDE DEF next
      <3>2. Contains(has(n), next(n)) <=> next(n) \in ToSet(has(n))
        <4>1. DOMAIN has(n) = 1..Len(has(n))
          BY <1>8, LenProperties
        <4>2. QED
          BY <4>1 DEF Contains, ToSet
      <3>3. CASE Contains(has(n), next(n))
        BY <1>3, <1>7, <1>8, <2>1, <3>2, <3>3
      <3>4. CASE ~Contains(has(n), next(n))
        <4>1. kids'[n] = InOrder(has(n), next(n))
          BY <1>3, <2>1, <3>4
        <4>2. /\ kids'[n] \in Seq(Nat) /\ Ascending(kids'[n])
              /\ ToSet(kids'[n]) = ToSet(has(n)) \cup {next(n)}
          BY <1>8, <3>1, <3>2, <3>4, <4>1, InOrderAdds
        <4>3. QED
          BY <1>7, <1>8, <2>1, <4>2
      <3>5. QED
        BY <3>3, <3>4
    <2>2. CASE ~IsStrictPrefix(n, o)
      BY <1>3, <1>7, <1>8, <2>2
    <2>3. QED
      BY <2>1, <2>2
  <1>10. \E b \in Nat : \A n \in Nodes' : Len(n) <= b
    <2>1. PICK b \in Nat : \A n \in Nodes : Len(n) <= b
      BY DEF TreeSound
    <2>2. b + Len(o) \in Nat
      BY <1>2, <2>1
    <2>3. ASSUME NEW n \in Nodes'
          PROVE  Len(n) <= b + Len(o)
      <3>1. CASE n \in Nodes
        BY <1>2, <1>5, <2>1, <3>1
      <3>2. CASE n \in branch
        BY <1>2, <1>4, <2>1, <3>2
      <3>3. QED
        BY <1>3, <3>1, <3>2
    <2>4. QED
      BY <2>2, <2>3
  <1>11. registered' \subseteq Oids /\ (serving' => registered' # {})
    BY <1>1 DEF TreeSound, Register
  <1>12. \A p \in registered' : \A k \in 1..Len(p) : Prefix(p, k) \in Nodes'
    BY <1>1, <1>3 DEF TreeSound
  <1>13. \A n \in Nodes' : \/ n = <<>>
                           \/ \E p \in registered' : \E k \in 1..Len(p) : n = Prefix(p, k)
    BY <1>1, <1>3 DEF TreeSound
  <1> HIDE DEF branch, has, next
  <1>14. QED
    BY <1>6, <1>9, <1>10, <1>11, <1>12, <1>13 DEF TreeSound

LEMMA TreeSoundNext == TreeSound /\ [TreeNext]_treeVars => TreeSound'
  <1> SUFFICES ASSUME TreeSound, [TreeNext]_treeVars PROVE TreeSound'
    OBVIOUS
  <1>1. CASE Register
    BY <1>1, TreeSoundRegister
  <1>2. CASE Serve \/ UNCHANGED treeVars
    BY <1>2 DEF Serve, treeVars, TreeSound, Nodes
  <1>3. QED
    BY <1>1, <1>2 DEF TreeNext

\* The children of every node stay in order, whatever is registered when.
THEOREM TreeInvariant == TreeSpec => []TreeSound
  <1>1. QED
    BY TreeSoundInit, TreeSoundNext, PTL DEF TreeSpec

-----------------------------------------------------------------------------
(* The leaves are what was registered, and the first one under a node is   *)
(* the smallest one under it.                                              *)

LEMMA LeavesAreRegistered ==
    ASSUME TreeSound, registered # {}, NEW n \in Nodes
    PROVE  kids[n] = <<>> <=> n \in registered
  <1>0. n \in Seq(Nat) /\ kids[n] \in Seq(Nat) /\ \A i \in Nat : Append(n, i) # <<>>
    <2>1. n \in Seq(Nat) /\ kids[n] \in Seq(Nat)
      BY NodesAreSequences DEF TreeSound
    <2>2. ASSUME NEW i \in Nat
          PROVE  Append(n, i) # <<>>
      BY <2>1, AppendProperties
    <2>3. QED
      BY <2>1, <2>2
  <1>1. \A i \in Nat : i \in ToSet(kids[n]) <=> Append(n, i) \in Nodes
    BY DEF TreeSound
  <1>2. ASSUME n \in registered, kids[n] # <<>>
        PROVE  FALSE
    <2>1. 1 \in DOMAIN kids[n] /\ kids[n][1] \in Nat
      BY <1>0, <1>2, LenProperties, ElementOfSeq, EmptySeq
    <2>2. kids[n][1] \in ToSet(kids[n])
      BY <2>1 DEF ToSet
    <2>3. PICK i \in Nat : Append(n, i) \in Nodes
      BY <1>1, <2>1, <2>2
    <2>4. PICK o \in registered : \E k \in 1..Len(o) : Append(n, i) = Prefix(o, k)
      BY <1>0, <2>3 DEF TreeSound
    <2>5. o \in Seq(Nat) /\ Len(o) \in Nat
      BY OidsAreSequences DEF TreeSound
    <2>6. \A k \in 1..Len(o) : Append(n, i) = Prefix(o, k)
                                 => k = Len(n) + 1 /\ n = Prefix(o, k - 1)
      <3>1. n \in Seq(Nat) /\ o \in Seq(Nat)
        BY <1>0, <2>5
      <3>2. QED
        BY <3>1, ChildOnBranch
    <2>7. PICK k \in 1..Len(o) : k = Len(n) + 1 /\ n = Prefix(o, k - 1)
      BY <2>4, <2>6
    <2>8. k - 1 \in 0..Len(o) /\ k - 1 < Len(o) /\ Len(n) = k - 1
      BY <1>0, <2>5, <2>7, LenProperties
    <2>9. \A j \in 1..Len(n) : n[j] = o[j]
      <3>1. \A j \in 1..(k - 1) : Prefix(o, k - 1)[j] = o[j]
        BY <2>5, <2>8, PrefixProperties
      <3>2. QED
        BY <2>7, <2>8, <3>1
    <2>10. Len(n) <= Len(o) /\ n # o
      BY <2>5, <2>8
    <2>11. IsPrefix(n, o)
      BY <1>0, <2>5, <2>9, <2>10, IsPrefixPointwise
    <2>12. n \in Oids /\ o \in Oids
      BY <1>2 DEF TreeSound
    <2>13. QED
      BY <2>10, <2>11, <2>12, SnmpAssumption DEF IsStrictPrefix
  <1>3. ASSUME kids[n] = <<>>
        PROVE  n \in registered
    <2>1. \A i \in Nat : Append(n, i) \notin Nodes
      BY <1>1, <1>3 DEF ToSet
    <2>2. \E o \in registered : \E k \in 0..Len(o) : n = Prefix(o, k)
      <3>1. PICK o \in registered : TRUE
        OBVIOUS
      <3>2. o \in Seq(Nat) /\ Len(o) \in Nat
        BY OidsAreSequences DEF TreeSound
      <3>3. CASE n = <<>>
        BY <3>2, <3>3, PrefixOfAll
      <3>4. CASE n # <<>>
        <4>1. PICK p \in registered : \E k \in 1..Len(p) : n = Prefix(p, k)
          BY <3>4 DEF TreeSound
        <4>2. \A k \in 1..Len(p) : k \in 0..Len(p)
          OBVIOUS
        <4>3. QED
          BY <4>1, <4>2
      <3>5. QED
        BY <3>3, <3>4
    <2>3. PICK o \in registered : \E k \in 0..Len(o) : n = Prefix(o, k)
      BY <2>2
    <2>4. o \in Seq(Nat) /\ Len(o) \in Nat /\ Prefix(o, Len(o)) = o
      BY OidsAreSequences, PrefixOfAll DEF TreeSound
    <2>5. \A k \in 0..Len(o) : k # Len(o) => Prefix(o, k + 1) = Append(Prefix(o, k), o[k + 1])
      <3>1. ASSUME NEW k \in 0..Len(o), k # Len(o)
            PROVE  Prefix(o, k + 1) = Append(Prefix(o, k), o[k + 1])
        <4>1. k + 1 \in 1..Len(o) /\ (k + 1) - 1 = k
          BY <2>4, <3>1
        <4>2. Prefix(o, k + 1) = Append(Prefix(o, (k + 1) - 1), o[k + 1])
          BY <2>4, <4>1, LongerPrefix
        <4>3. QED
          BY <4>1, <4>2
      <3>2. QED
        BY <3>1
    <2>6. \A k \in 0..Len(o) : k # Len(o) => Prefix(o, k + 1) \in Nodes /\ o[k + 1] \in Nat
      <3>1. \A k \in 0..Len(o) : k # Len(o) => k + 1 \in 1..Len(o)
        BY <2>4
      <3>2. QED
        BY <2>4, <3>1, ElementOfSeq DEF TreeSound
    <2>7. QED
      BY <2>1, <2>3, <2>4, <2>5, <2>6
  <1>4. QED
    BY <1>2, <1>3

LEMMA FirstLeafIsSmallest ==
    ASSUME TreeSound, registered # {}, NEW n \in Nodes
    PROVE  /\ FirstLeaf(n) \in registered
           /\ IsPrefix(n, FirstLeaf(n))
           /\ \A p \in registered :
                 IsPrefix(n, p) => p = FirstLeaf(n) \/ Less(FirstLeaf(n), p)
  <1> DEFINE Down(o) ==
                 /\ IsPrefix(n, o)
                 /\ \A k \in Len(n)..(Len(o) - 1) : o[k + 1] = Head(kids[Prefix(o, k)])
  <1>0. /\ n \in Seq(Nat) /\ Len(n) \in Nat
        /\ \A o \in Nodes : o \in Seq(Nat) /\ Len(o) \in Nat
    BY NodesAreSequences, LenProperties
  <1>1. PICK b \in Nat : \A o \in Nodes : Len(o) <= b
    BY DEF TreeSound
  <1>2. \E o \in Nodes : kids[o] = <<>> /\ Down(o)
    <2> DEFINE D == {b - Len(o) : o \in {o \in Nodes : Down(o)}}
    <2>1. D \in SUBSET Nat
      BY <1>0, <1>1
    <2>2. D # {}
      <3>1. Down(n)
        BY <1>0, IsPrefixPointwise
      <3>2. b - Len(n) \in D
        BY <3>1
      <3>3. QED
        BY <3>2
    <2>3. PICK d \in D : \A e \in D : d <= e
      BY <2>1, <2>2, Smallest
    <2>4. PICK o \in Nodes : Down(o) /\ d = b - Len(o)
      BY <2>3
    <2>5. ASSUME kids[o] # <<>>
          PROVE  FALSE
      <3> DEFINE i == Head(kids[o])
                 q == Append(o, i)
      <3>1. kids[o] \in Seq(Nat) /\ o \in Seq(Nat) /\ Len(o) \in Nat
        BY <1>0 DEF TreeSound
      <3>2. i \in Nat /\ i \in ToSet(kids[o])
        <4>1. 1 \in DOMAIN kids[o] /\ kids[o][1] \in Nat
          BY <2>5, <3>1, LenProperties, ElementOfSeq, EmptySeq
        <4>2. i = kids[o][1]
          BY <2>5, <3>1
        <4>3. QED
          BY <4>1, <4>2 DEF ToSet
      <3>3. q \in Nodes
        BY <3>2 DEF TreeSound
      <3> HIDE DEF i
      <3>4. /\ q \in Seq(Nat) /\ Len(q) = Len(o) + 1
            /\ \A j \in 1..Len(o) : q[j] = o[j]
            /\ q[Len(o) + 1] = i
        BY <3>1, <3>2, AppendProperties
      <3> HIDE DEF q
      <3>5. \A k \in 0..Len(o) : Prefix(q, k) = Prefix(o, k)
        <4>1. ASSUME NEW k \in 0..Len(o)
              PROVE  Prefix(q, k) = Prefix(o, k)
          <5>1. k \in 0..Len(q) /\ \A j \in 1..k : j \in 1..Len(o)
            BY <3>1, <3>4
          <5>2. QED
            BY <3>1, <3>4, <5>1, PrefixesAgree
        <4>2. QED
          BY <4>1
      <3>6. IsPrefix(n, q)
        <4>1. Len(n) <= Len(o) /\ \A j \in 1..Len(n) : n[j] = o[j]
          BY <1>0, <2>4, <3>1, IsPrefixPointwise
        <4>2. Len(n) <= Len(q) /\ \A j \in 1..Len(n) : n[j] = q[j]
          BY <1>0, <3>1, <3>4, <4>1
        <4>3. QED
          BY <1>0, <3>4, <4>2, IsPrefixPointwise
      <3>7. ASSUME NEW k \in Len(n)..(Len(q) - 1)
            PROVE  q[k + 1] = Head(kids[Prefix(q, k)])
        <4>1. k \in 0..Len(o) /\ Prefix(q, k) = Prefix(o, k)
          BY <1>0, <3>1, <3>4, <3>5
        <4>2. CASE k = Len(o)
          BY <3>1, <3>4, <4>1, <4>2, PrefixOfAll DEF i
        <4>3. CASE k # Len(o)
          <5>1. k \in Len(n)..(Len(o) - 1) /\ k + 1 \in 1..Len(o)
            BY <1>0, <3>1, <4>1, <4>3
          <5>2. o[k + 1] = Head(kids[Prefix(o, k)])
            BY <2>4, <5>1
          <5>3. QED
            BY <3>4, <4>1, <5>1, <5>2
        <4>4. QED
          BY <4>2, <4>3
      <3>8. b - Len(q) \in D
        BY <3>3, <3>6, <3>7
      <3>9. d <= b - Len(q)
        BY <2>3, <3>8
      <3>10. QED
        BY <2>4, <3>1, <3>4, <3>9
    <2>6. QED
      BY <2>4, <2>5
  <1> DEFINE f == FirstLeaf(n)
  <1>3. f \in Nodes /\ kids[f] = <<>> /\ Down(f)
    <2>1. f = CHOOSE o \in Nodes : kids[o] = <<>> /\ Down(o)
      BY DEF FirstLeaf
    <2> HIDE DEF f, Down
    <2>2. QED
      BY <1>2, <2>1
  <1> HIDE DEF f
  <1>4. f \in registered /\ f \in Seq(Nat) /\ Len(f) \in Nat
    BY <1>0, <1>3, LeavesAreRegistered
  <1>5. Len(n) <= Len(f) /\ \A j \in 1..Len(n) : n[j] = f[j]
    BY <1>0, <1>3, <1>4, IsPrefixPointwise
  <1>6. ASSUME NEW p \in registered, IsPrefix(n, p), p # f
        PROVE  Less(f, p)
    <2>1. p \in Seq(Nat) /\ Len(p) \in Nat /\ p \in Oids /\ f \in Oids
      BY <1>4, OidsAreSequences DEF TreeSound
    <2>2. ~IsPrefix(f, p) /\ ~IsPrefix(p, f)
      BY <1>6, <2>1, SnmpAssumption DEF IsStrictPrefix
    <2>3. PICK k \in 1..Len(f) : /\ k <= Len(p)
                                 /\ \A j \in 1..(k - 1) : f[j] = p[j]
                                 /\ f[k] # p[k]
      BY <1>4, <2>1, <2>2, FirstDifference
    <2>4. Len(n) <= Len(p) /\ \A j \in 1..Len(n) : n[j] = p[j]
      BY <1>0, <1>6, <2>1, IsPrefixPointwise
    <2>5. k > Len(n)
      <3>1. \A j \in 1..Len(n) : f[j] = p[j]
        BY <1>5, <2>4
      <3>2. k \notin 1..Len(n)
        BY <2>3, <3>1
      <3>3. QED
        BY <1>0, <1>4, <2>3, <3>2
    <2>6. /\ k - 1 \in Len(n)..(Len(f) - 1) /\ (k - 1) + 1 = k
          /\ k - 1 \in 0..Len(f) /\ k \in 1..Len(p) /\ k - 1 <= Len(p)
      BY <1>0, <1>4, <2>1, <2>3, <2>5
    <2>7. f[k] = Head(kids[Prefix(f, k - 1)])
      <3>1. f[(k - 1) + 1] = Head(kids[Prefix(f, k - 1)])
        BY <1>3, <2>6
      <3>2. QED
        BY <2>6, <3>1
    <2> DEFINE parent == Prefix(f, k - 1)
    <2>8. parent = Prefix(p, k - 1)
      BY <1>4, <2>1, <2>3, <2>6, PrefixesAgree
    <2>9. parent \in Nodes
      <3>1. k - 1 \in 0..Len(f)
        BY <2>6
      <3>2. QED
        BY <1>3, <3>1, PrefixIsNode
    <2>10. p[k] \in Nat /\ f[k] \in Nat
      BY <1>4, <2>1, <2>6, ElementOfSeq
    <2>11. Append(parent, p[k]) \in Nodes
      <3>1. Prefix(p, k) = Append(Prefix(p, k - 1), p[k])
        BY <2>1, <2>6, LongerPrefix
      <3>2. Prefix(p, k) \in Nodes
        BY <2>6 DEF TreeSound
      <3>3. QED
        BY <2>8, <3>1, <3>2
    <2> HIDE DEF parent
    <2>12. p[k] \in ToSet(kids[parent])
      BY <2>9, <2>10, <2>11 DEF TreeSound
    <2>13. kids[parent] \in Seq(Nat) /\ Ascending(kids[parent])
      BY <2>9 DEF TreeSound
    <2>14. PICK i \in 1..Len(kids[parent]) : p[k] = kids[parent][i]
      BY <2>12, <2>13, LenProperties DEF ToSet
    <2>15. 1 \in 1..Len(kids[parent]) /\ f[k] = kids[parent][1]
      <3>1. Len(kids[parent]) \in Nat /\ kids[parent] # <<>>
        BY <2>13, <2>14, LenProperties
      <3>2. Head(kids[parent]) = kids[parent][1]
        BY <2>13, <3>1
      <3>3. QED
        BY <2>7, <2>14, <3>1, <3>2 DEF parent
    <2>16. f[k] < p[k]
      <3>1. i = 1 \/ kids[parent][1] < kids[parent][i]
        BY <2>13, <2>14, <2>15 DEF Ascending
      <3>2. QED
        BY <2>3, <2>14, <2>15, <3>1
    <2>17. QED
      BY <1>4, <2>1, <2>3, <2>16, LessPointwise
  <1>7. QED
    BY <1>3, <1>4, <1>6 DEF f

-----------------------------------------------------------------------------
(* find_next_oid().                                                        *)

LEMMA NodesAreKnown ==
    ASSUME TreeSound, NEW o \in Nodes
    PROVE  Known(o) = o
  <1>0. o \in Seq(Nat) /\ Len(o) \in Nat /\ Prefix(o, Len(o)) = o
    BY NodesAreSequences, LenProperties, PrefixOfAll
  <1> DEFINE K == {k \in 0..Len(o) : Prefix(o, k) \in Nodes}
             m == Max(K)
  <1>1. Len(o) \in K /\ K \in SUBSET (0..Len(o))
    BY <1>0
  <1>2. m \in K /\ \A y \in K : y <= m
    <2>1. K # {}
      BY <1>1
    <2> HIDE DEF K
    <2>2. QED
      BY <1>0, <1>1, <2>1, MaxOfBounded
  <1>3. Known(o) = Prefix(o, m)
    BY DEF Known
  <1> HIDE DEF m
  <1>4. m = Len(o)
    BY <1>0, <1>1, <1>2
  <1>5. QED
    BY <1>0, <1>3, <1>4

\* The number a branch p has in the place of the one of o is a sibling of it.
LEMMA BranchesShareParent ==
    ASSUME TreeSound, NEW o \in registered, NEW p \in registered,
           NEW k \in 1..Len(o), k <= Len(p), \A j \in 1..(k - 1) : o[j] = p[j],
           o[k] < p[k]
    PROVE  k \in Forks(o) /\ p[k] \in Later(o, k)
  <1>1. /\ o \in Seq(Nat) /\ Len(o) \in Nat
        /\ p \in Seq(Nat) /\ Len(p) \in Nat
        /\ o[1] = p[1]
    BY OidsAreSequences, SnmpAssumption DEF TreeSound
  <1>2. /\ k \in 2..Len(o) /\ k \in 1..Len(p) /\ k - 1 \in 0..Len(o)
        /\ k - 1 <= Len(p) /\ k - 1 \in 1..Len(o)
    <2>1. 1 \in 1..Len(o)
      BY <1>1
    <2>2. o[1] \in Nat
      BY <1>1, <2>1, ElementOfSeq
    <2>3. k # 1
      BY <1>1, <2>2
    <2>4. QED
      BY <1>1, <2>3
  <1> DEFINE n == Prefix(o, k - 1)
  <1>3. n = Prefix(p, k - 1)
    BY <1>1, <1>2, PrefixesAgree
  <1>4. n \in Nodes
    BY <1>2 DEF TreeSound
  <1>5. p[k] \in Nat
    BY <1>1, <1>2, ElementOfSeq
  <1>6. Append(n, p[k]) \in Nodes
    <2>1. Prefix(p, k) = Append(Prefix(p, k - 1), p[k])
      BY <1>1, <1>2, LongerPrefix
    <2>2. Prefix(p, k) \in Nodes
      BY <1>2 DEF TreeSound
    <2>3. QED
      BY <1>3, <2>1, <2>2
  <1>7. p[k] \in ToSet(kids[n])
    <2> HIDE DEF n
    <2>1. QED
      BY <1>4, <1>5, <1>6 DEF TreeSound
  <1>8. p[k] \in Later(o, k)
    BY <1>7 DEF Later
  <1>9. QED
    BY <1>2, <1>8 DEF Forks

\* An inner node is followed by the first leaf under it.
LEMMA InnerNodeGoesDown ==
    ASSUME TreeSound, NEW o \in Nodes, NEW f \in registered,
           IsPrefix(o, f), o # f,
           \A p \in registered : IsPrefix(o, p) => p = f \/ Less(f, p)
    PROVE  /\ Less(o, f)
           /\ \A p \in registered : Less(o, p) => p = f \/ Less(f, p)
  <1>0. /\ o \in Seq(Nat) /\ Len(o) \in Nat
        /\ f \in Seq(Nat) /\ Len(f) \in Nat
    BY NodesAreSequences, LenProperties, OidsAreSequences DEF TreeSound
  <1>1. IsStrictPrefix(o, f)
    BY DEF IsStrictPrefix
  <1>2. ASSUME NEW p \in registered, Less(o, p)
        PROVE  p = f \/ Less(f, p)
    <2>0. p \in Seq(Nat) /\ Len(p) \in Nat
      BY OidsAreSequences DEF TreeSound
    <2>1. CASE IsStrictPrefix(o, p)
      BY <2>1 DEF IsStrictPrefix
    <2>2. CASE ~IsStrictPrefix(o, p)
      <3>1. PICK k \in 1..Len(o) : /\ k <= Len(p)
                                   /\ \A j \in 1..(k - 1) : o[j] = p[j]
                                   /\ o[k] < p[k]
        BY <1>0, <1>2, <2>0, <2>2, LessPointwise
      <3>2. Len(o) <= Len(f) /\ \A j \in 1..Len(o) : o[j] = f[j]
        BY <1>0, IsPrefixPointwise
      <3>3. k \in 1..Len(f) /\ \A j \in 1..(k - 1) : j \in 1..Len(o)
        BY <1>0, <3>1, <3>2
      <3>4. (\A j \in 1..(k - 1) : f[j] = p[j]) /\ f[k] < p[k]
        BY <3>1, <3>2, <3>3
      <3>5. QED
        BY <1>0, <2>0, <3>1, <3>3, <3>4, LessPointwise
    <2>3. QED
      BY <2>1, <2>2
  <1>3. QED
    BY <1>0, <1>1, <1>2, LessPointwise

\* A leaf has something behind it just if its branch has a fork.
LEMMA NoForkNoSuccessor ==
    ASSUME TreeSound, NEW o \in registered, NEW p \in registered, Less(o, p)
    PROVE  \E k \in Forks(o) : /\ k \in 1..Len(o) /\ k <= Len(p)
                               /\ \A j \in 1..(k - 1) : o[j] = p[j]
                               /\ o[k] < p[k] /\ p[k] \in Later(o, k)
  <1>0. /\ o \in Seq(Nat) /\ Len(o) \in Nat
        /\ p \in Seq(Nat) /\ Len(p) \in Nat
        /\ ~IsStrictPrefix(o, p)
    BY OidsAreSequences, SnmpAssumption DEF TreeSound
  <1>1. PICK k \in 1..Len(o) : /\ k <= Len(p)
                               /\ \A j \in 1..(k - 1) : o[j] = p[j]
                               /\ o[k] < p[k]
    BY <1>0, LessPointwise
  <1>2. k \in Forks(o) /\ p[k] \in Later(o, k)
    BY <1>1, BranchesShareParent
  <1>3. QED
    BY <1>1, <1>2

\* A leaf is followed by the first leaf of what comes after its branch.
LEMMA LeafGoesOn ==
    ASSUME TreeSound, NEW o \in registered, Forks(o) # {}
    PROVE  /\ AfterBranch(o) \in registered
           /\ Less(o, AfterBranch(o))
           /\ \A p \in registered :
                 Less(o, p) => p = AfterBranch(o) \/ Less(AfterBranch(o), p)
  <1>0. o \in Seq(Nat) /\ Len(o) \in Nat
    BY OidsAreSequences DEF TreeSound
  <1> DEFINE k == Max(Forks(o))
  <1>1. k \in Forks(o) /\ \A j \in Forks(o) : j <= k
    <2>1. Forks(o) \in SUBSET (0..Len(o))
      BY <1>0 DEF Forks
    <2>2. QED
      BY <1>0, <2>1, MaxOfBounded
  <1> DEFINE i == Min(Later(o, k))
             parent == Prefix(o, k - 1)
             f == FirstLeaf(Append(parent, i))
  <1>2. AfterBranch(o) = f
    BY DEF AfterBranch
  <1> HIDE DEF k
  <1>3. k \in 2..Len(o) /\ Later(o, k) # {}
    BY <1>1 DEF Forks
  <1>4. k \in Nat /\ k \in 1..Len(o) /\ k - 1 \in 1..Len(o) /\ k - 1 \in 0..Len(o)
    BY <1>0, <1>3
  <1>5. /\ parent \in Nodes /\ parent \in Seq(Nat) /\ Len(parent) = k - 1
        /\ \A j \in 1..(k - 1) : parent[j] = o[j]
    BY <1>0, <1>4, PrefixProperties DEF TreeSound
  <1>6. Later(o, k) \in SUBSET Nat
    <2>1. kids[parent] \in Seq(Nat)
      BY <1>5 DEF TreeSound
    <2>2. ToSet(kids[parent]) \in SUBSET Nat
      BY <2>1, LenProperties, ElementOfSeq DEF ToSet
    <2>3. QED
      BY <2>2 DEF Later
  <1>7. i \in Later(o, k) /\ \A y \in Later(o, k) : i <= y
    BY <1>3, <1>6, MinOfNat
  <1>8. i \in Nat /\ i > o[k] /\ i \in ToSet(kids[parent])
    BY <1>6, <1>7 DEF Later
  <1> HIDE DEF i, parent
  <1>9. Append(parent, i) \in Nodes
    BY <1>5, <1>8 DEF TreeSound
  <1> DEFINE n == Append(parent, i)
  <1>10. /\ n \in Seq(Nat) /\ Len(n) = k
         /\ \A j \in 1..(k - 1) : n[j] = o[j]
         /\ n[k] = i
    <2>1. /\ n \in Seq(Nat) /\ Len(n) = Len(parent) + 1
          /\ \A j \in 1..Len(parent) : n[j] = parent[j]
          /\ n[Len(parent) + 1] = i
      BY <1>5, <1>8, AppendProperties
    <2>2. Len(parent) + 1 = k
      BY <1>4, <1>5
    <2> HIDE DEF n
    <2>3. QED
      BY <1>5, <2>1, <2>2
  <1>11. /\ f \in registered /\ IsPrefix(n, f)
         /\ \A p \in registered : IsPrefix(n, p) => p = f \/ Less(f, p)
    BY <1>9, FirstLeafIsSmallest
  <1>12. f \in Seq(Nat) /\ Len(f) \in Nat
    BY <1>11, OidsAreSequences DEF TreeSound
  <1> HIDE DEF n, f
  <1>13. /\ k \in 1..Len(f)
         /\ \A j \in 1..(k - 1) : f[j] = o[j]
         /\ f[k] = i
    <2>1. Len(n) <= Len(f) /\ \A j \in 1..Len(n) : n[j] = f[j]
      BY <1>10, <1>11, <1>12, IsPrefixPointwise
    <2>2. k \in 1..k /\ \A j \in 1..(k - 1) : j \in 1..k
      BY <1>4
    <2>3. QED
      BY <1>4, <1>10, <1>12, <2>1, <2>2
  <1>14. Less(o, f)
    BY <1>0, <1>4, <1>8, <1>12, <1>13, LessPointwise
  <1>15. ASSUME NEW p \in registered, Less(o, p)
         PROVE  p = f \/ Less(f, p)
    <2>0. p \in Seq(Nat) /\ Len(p) \in Nat
      BY OidsAreSequences DEF TreeSound
    <2>1. PICK l \in Forks(o) : /\ l \in 1..Len(o) /\ l <= Len(p)
                                /\ \A j \in 1..(l - 1) : o[j] = p[j]
                                /\ o[l] < p[l] /\ p[l] \in Later(o, l)
      BY <1>15, NoForkNoSuccessor
    <2>2. l <= k /\ l \in Nat
      BY <1>0, <1>1, <2>1
    <2>3. CASE l < k
      <3>1. /\ l \in 1..(k - 1) /\ l \in 1..Len(f)
            /\ \A j \in 1..(l - 1) : j \in 1..(k - 1)
        BY <1>4, <1>12, <1>13, <2>1, <2>2, <2>3
      <3>2. f[l] < p[l] /\ \A j \in 1..(l - 1) : f[j] = p[j]
        BY <1>13, <2>1, <3>1
      <3>3. QED
        BY <1>12, <2>0, <2>1, <3>1, <3>2, LessPointwise
    <2>4. CASE l = k /\ p[k] # i
      <3>1. f[k] < p[k]
        BY <1>6, <1>7, <1>8, <1>13, <2>1, <2>4
      <3>2. \A j \in 1..(k - 1) : f[j] = p[j]
        BY <1>13, <2>1, <2>4
      <3>3. QED
        BY <1>12, <1>13, <2>0, <2>1, <2>4, <3>1, <3>2, LessPointwise
    <2>5. CASE l = k /\ p[k] = i
      <3>1. ASSUME NEW j \in 1..k
            PROVE  n[j] = p[j]
        <4>1. j = k \/ j \in 1..(k - 1)
          BY <1>4
        <4>2. QED
          BY <1>10, <2>1, <2>5, <4>1
      <3>2. Len(n) <= Len(p) /\ \A j \in 1..Len(n) : n[j] = p[j]
        BY <1>10, <2>1, <2>5, <3>1
      <3>3. IsPrefix(n, p)
        BY <1>10, <2>0, <3>2, IsPrefixPointwise
      <3>4. QED
        BY <1>11, <3>3
    <2>6. QED
      BY <1>4, <2>2, <2>3, <2>4, <2>5
  <1>16. QED
    BY <1>2, <1>11, <1>14, <1>15

\* For every OID of the tree find_next_oid() gives the next larger one that
\* was registered, and nothing behind the last. (snmp-data.cpp:212-281)
LEMMA SuccessorsOfSound == TreeSound => NextIsSuccessor
  <1> SUFFICES ASSUME TreeSound, serving, NEW o \in Nodes \ {<<>>}
               PROVE  LET larger == {p \in registered : Less(o, p)}
                          next == FindNext(o)
                      IN  IF larger = {}
                          THEN next = <<>>
                          ELSE /\ next \in larger
                               /\ \A p \in larger : p = next \/ Less(next, p)
    BY DEF NextIsSuccessor
  <1> DEFINE larger == {p \in registered : Less(o, p)}
             leaf == FirstLeaf(o)
  <1>0. registered # {}
    BY DEF TreeSound
  <1>1. /\ leaf \in registered /\ IsPrefix(o, leaf)
        /\ \A p \in registered : IsPrefix(o, p) => p = leaf \/ Less(leaf, p)
    BY <1>0, FirstLeafIsSmallest
  <1>2. FindNext(o) = CASE leaf # o                   -> leaf
                        [] leaf = o /\ Forks(o) # {}  -> AfterBranch(o)
                        [] OTHER                      -> <<>>
    BY NodesAreKnown DEF FindNext
  <1> HIDE DEF leaf
  <1>3. CASE leaf # o
    <2>1. /\ Less(o, leaf)
          /\ \A p \in registered : Less(o, p) => p = leaf \/ Less(leaf, p)
      BY <1>1, <1>3, InnerNodeGoesDown
    <2>2. FindNext(o) = leaf
      BY <1>2, <1>3
    <2>3. QED
      BY <1>1, <2>1, <2>2
  <1>4. CASE leaf = o /\ Forks(o) # {}
    <2>1. /\ AfterBranch(o) \in registered
          /\ Less(o, AfterBranch(o))
          /\ \A p \in registered :
                Less(o, p) => p = AfterBranch(o) \/ Less(AfterBranch(o), p)
      BY <1>1, <1>4, LeafGoesOn
    <2>2. FindNext(o) = AfterBranch(o)
      BY <1>2, <1>4
    <2>3. QED
      BY <2>1, <2>2
  <1>5. CASE leaf = o /\ Forks(o) = {}
    <2>1. larger = {}
      BY <1>1, <1>5, NoForkNoSuccessor
    <2>2. FindNext(o) = <<>>
      BY <1>2, <1>5
    <2>3. QED
      BY <2>1, <2>2
  <1>6. QED
    BY <1>3, <1>4, <1>5

\* GetNext on any OID of the tree, leaf or not, gives the smallest larger OID
\* that was registered, for any OIDs and any order they are registered in.
\* (snmp-data.cpp:127-170, 212-281)
THEOREM GetNextIsSuccessor == TreeSpec => []NextIsSuccessor
  <1>1. QED
    BY TreeInvariant, SuccessorsOfSound, PTL

\* Nothing a manager asks changes the tree.
LEMMA AgentGrowsTree == AgentSpec => TreeSpec
  <1>1. AgentInit => TreeInit
    BY DEF AgentInit
  <1>2. [AgentNext]_agentVars => [TreeNext]_treeVars
    BY DEF AgentNext, StartWalk, GetNext, agentVars
  <1>3. QED
    BY <1>1, <1>2, PTL DEF AgentSpec, TreeSpec

(***************************************************************************)
(* The agent answers from a tree like that, whatever its managers ask.     *)
(* (snmp-data.cpp:127-281, snmp.cpp:264-333)                               *)
(***************************************************************************)
THEOREM AgentServesSuccessors == AgentSpec => []NextIsSuccessor
  <1>1. QED
    BY AgentGrowsTree, GetNextIsSuccessor, PTL

-----------------------------------------------------------------------------
(* The codec of OIDs.  Its loops are functions defined by recursion: what   *)
(* is proved of them first is that there is such a function.                *)

\* The high groups of the numbers up to v, as in Groups.
HighGroups(h, v) ==
    h = [w \in 0..v |-> IF w = 0 THEN <<>>
                        ELSE Append(h[w \div 128], 128 + (w % 128))]

LEMMA Divided ==
    \A w \in Nat \ {0} : w \div 128 \in Nat /\ w \div 128 < w
  OBVIOUS

LEMMA HighGroupsExist ==
    ASSUME NEW v \in Nat
    PROVE  \E h : HighGroups(h, v)
  <1> DEFINE S == {n \in Nat : ~\E h : HighGroups(h, n)}
  <1>1. ASSUME S # {} PROVE FALSE
    <2>1. PICK m \in S : \A y \in S : m <= y
      BY <1>1, Smallest
    <2>2. m \in Nat /\ ~\E h : HighGroups(h, m)
      BY <2>1
    <2>3. CASE m = 0
      <3>1. HighGroups([w \in 0..0 |-> <<>>], 0)
        BY DEF HighGroups
      <3>2. QED
        BY <2>2, <2>3, <3>1
    <2>4. CASE m # 0
      <3>1. m - 1 \in Nat /\ m - 1 \notin S
        BY <2>1, <2>2, <2>4
      <3>2. PICK h : HighGroups(h, m - 1)
        BY <3>1
      <3> DEFINE g == [w \in 0..m |->
                         IF w = m THEN Append(h[m \div 128], 128 + (m % 128)) ELSE h[w]]
                 r == [w \in 0..m |-> IF w = 0 THEN <<>>
                         ELSE Append(g[w \div 128], 128 + (w % 128))]
      <3>3. ASSUME NEW w \in 0..m
            PROVE  g[w] = IF w = 0 THEN <<>>
                          ELSE Append(g[w \div 128], 128 + (w % 128))
        <4>1. w # 0 => w \div 128 \in 0..(m - 1)
          BY <2>2, <2>4, Divided
        <4>2. w # 0 => g[w \div 128] = h[w \div 128]
          BY <2>2, <4>1
        <4>3. CASE w = m
          BY <2>2, <2>4, <4>2, <4>3
        <4>4. CASE w # m
          <5>1. w \in 0..(m - 1) /\ g[w] = h[w]
            BY <2>2, <4>4
          <5>2. h[w] = IF w = 0 THEN <<>>
                       ELSE Append(h[w \div 128], 128 + (w % 128))
            BY <3>2, <5>1 DEF HighGroups
          <5>3. QED
            BY <4>2, <5>1, <5>2
        <4>5. QED
          BY <4>3, <4>4
      <3>4. g = r
        BY <3>3
      <3> HIDE DEF g
      <3>5. HighGroups(g, m)
        BY <3>4 DEF HighGroups
      <3>6. QED
        BY <2>2, <3>5
    <2>5. QED
      BY <2>3, <2>4
  <1>2. QED
    BY <1>1

LEMMA GroupsByHigh ==
    ASSUME NEW v \in Nat
    PROVE  \E h : HighGroups(h, v) /\ Groups(v) = Append(h[v \div 128], v % 128)
  <1> DEFINE high[w \in 0..v] == IF w = 0 THEN <<>>
                                 ELSE Append(high[w \div 128], 128 + (w % 128))
  <1>1. Groups(v) = Append(high[v \div 128], v % 128)
    BY DEF Groups
  <1>2. \E h : h = [w \in 0..v |-> IF w = 0 THEN <<>>
                                   ELSE Append(h[w \div 128], 128 + (w % 128))]
    BY HighGroupsExist DEF HighGroups
  <1>3. high = [w \in 0..v |-> IF w = 0 THEN <<>>
                               ELSE Append(high[w \div 128], 128 + (w % 128))]
    BY <1>2, Zenon
  <1> HIDE DEF high
  <1>4. HighGroups(high, v)
    BY <1>3, Zenon DEF HighGroups
  <1>5. QED
    BY <1>1, <1>4

\* What the loop of get_OID() has read after each byte, as in GetOid.
ReadSoFar(got, bytes) ==
    got = [i \in 0..Len(bytes) |->
              IF i = 0 THEN [oid |-> <<>>, v |-> 0]
                       ELSE Read(got[i - 1], bytes[i], i)]

LEMMA ReadSoFarExists ==
    ASSUME NEW bytes, Len(bytes) \in Nat
    PROVE  \E got : ReadSoFar(got, bytes)
  <1> DEFINE Upto(got, n) ==
                 got = [i \in 0..n |-> IF i = 0 THEN [oid |-> <<>>, v |-> 0]
                                       ELSE Read(got[i - 1], bytes[i], i)]
             S == {n \in Nat : ~\E got : Upto(got, n)}
  <1> HIDE DEF Upto
  <1>1. ASSUME S # {} PROVE FALSE
    <2>1. PICK m \in S : \A y \in S : m <= y
      BY <1>1, Smallest
    <2>2. m \in Nat /\ ~\E got : Upto(got, m)
      BY <2>1
    <2>3. CASE m = 0
      <3>1. Upto([i \in 0..0 |-> [oid |-> <<>>, v |-> 0]], 0)
        BY DEF Upto
      <3>2. QED
        BY <2>2, <2>3, <3>1
    <2>4. CASE m # 0
      <3>1. m - 1 \in Nat /\ m - 1 \notin S
        BY <2>1, <2>2, <2>4
      <3>2. PICK f : Upto(f, m - 1)
        BY <3>1
      <3> DEFINE g == [i \in 0..m |-> IF i = m THEN Read(f[m - 1], bytes[m], m) ELSE f[i]]
      <3>3. ASSUME NEW i \in 0..m
            PROVE  g[i] = IF i = 0 THEN [oid |-> <<>>, v |-> 0]
                          ELSE Read(g[i - 1], bytes[i], i)
        <4>1. i # 0 => i - 1 \in 0..(m - 1) /\ g[i - 1] = f[i - 1]
          BY <2>2, <2>4
        <4>2. CASE i = m
          BY <2>2, <2>4, <4>1, <4>2
        <4>3. CASE i # m
          <5>1. i \in 0..(m - 1) /\ g[i] = f[i]
            BY <2>2, <4>3
          <5>2. f[i] = IF i = 0 THEN [oid |-> <<>>, v |-> 0]
                       ELSE Read(f[i - 1], bytes[i], i)
            BY <3>2, <5>1 DEF Upto
          <5>3. QED
            BY <4>1, <5>1, <5>2
        <4>4. QED
          BY <4>2, <4>3
      <3>4. g = [i \in 0..m |-> IF i = 0 THEN [oid |-> <<>>, v |-> 0]
                                ELSE Read(g[i - 1], bytes[i], i)]
        BY <3>3
      <3> HIDE DEF g
      <3>5. Upto(g, m)
        BY <3>4 DEF Upto
      <3>6. QED
        BY <2>2, <3>5
    <2>5. QED
      BY <2>3, <2>4
  <1>2. \E got : Upto(got, Len(bytes))
    BY <1>1
  <1>3. QED
    BY <1>2 DEF Upto, ReadSoFar

LEMMA GetOidByReading ==
    ASSUME NEW bytes, Len(bytes) \in Nat
    PROVE  \E got : ReadSoFar(got, bytes) /\ GetOid(bytes) = got[Len(bytes)].oid
  <1> DEFINE got[i \in 0..Len(bytes)] ==
                 IF i = 0 THEN [oid |-> <<>>, v |-> 0]
                          ELSE Read(got[i - 1], bytes[i], i)
  <1>1. GetOid(bytes) = got[Len(bytes)].oid
    BY DEF GetOid
  <1>2. \E f : f = [i \in 0..Len(bytes) |->
                       IF i = 0 THEN [oid |-> <<>>, v |-> 0]
                                ELSE Read(f[i - 1], bytes[i], i)]
    BY ReadSoFarExists DEF ReadSoFar
  <1>3. got = [i \in 0..Len(bytes) |->
                  IF i = 0 THEN [oid |-> <<>>, v |-> 0]
                           ELSE Read(got[i - 1], bytes[i], i)]
    BY <1>2, Zenon
  <1> HIDE DEF got
  <1>4. ReadSoFar(got, bytes)
    BY <1>3, Zenon DEF ReadSoFar
  <1>5. QED
    BY <1>1, <1>4

-----------------------------------------------------------------------------
(* What get_OID() makes of the bytes of one number.                        *)

LEMMA HighGroupsStep ==
    ASSUME NEW v \in Nat, NEW h, HighGroups(h, v), NEW w \in 0..v
    PROVE  h[w] = IF w = 0 THEN <<>> ELSE Append(h[w \div 128], 128 + (w % 128))
  BY DEF HighGroups

LEMMA HighGroupsAreBytes ==
    ASSUME NEW v \in Nat, NEW h, HighGroups(h, v), NEW w \in 0..v
    PROVE  h[w] \in Seq(Nat)
  <1> DEFINE S == {n \in Nat : n <= v /\ h[n] \notin Seq(Nat)}
  <1>1. ASSUME S # {} PROVE FALSE
    <2>1. PICK m \in S : \A y \in S : m <= y
      BY <1>1, Smallest
    <2>0. m \in 0..v
      BY <2>1
    <2>2. m \in 0..v /\ h[m] = IF m = 0 THEN <<>>
                               ELSE Append(h[m \div 128], 128 + (m % 128))
      BY <2>0, HighGroupsStep
    <2>3. m # 0
      <3>1. <<>> \in Seq(Nat)
        OBVIOUS
      <3>2. QED
        BY <2>1, <2>2, <3>1
    <2>4. m \div 128 \in Nat /\ m \div 128 < m /\ 128 + (m % 128) \in Nat
      BY <2>2, <2>3, Divided
    <2>5. h[m \div 128] \in Seq(Nat)
      BY <2>1, <2>2, <2>4
    <2>6. h[m] \in Seq(Nat)
      BY <2>2, <2>3, <2>4, <2>5, AppendProperties
    <2>7. QED
      BY <2>1, <2>6
  <1>2. QED
    BY <1>1

LEMMA GroupsAreBytes ==
    ASSUME NEW v \in Nat
    PROVE  Groups(v) \in Seq(Nat) /\ Len(Groups(v)) \in Nat \ {0}
  <1>1. PICK h : HighGroups(h, v) /\ Groups(v) = Append(h[v \div 128], v % 128)
    BY GroupsByHigh
  <1>2. v \div 128 \in 0..v /\ v % 128 \in Nat
    OBVIOUS
  <1>3. h[v \div 128] \in Seq(Nat)
    BY <1>1, <1>2, HighGroupsAreBytes
  <1>4. QED
    BY <1>1, <1>2, <1>3, AppendProperties, LenProperties

\* From byte p + 1 the bytes are those of s.
Holds(bytes, p, s) ==
    /\ p + Len(s) <= Len(bytes)
    /\ \A j \in 1..Len(s) : bytes[p + j] = s[j]

LEMMA HoldsOfAppend ==
    ASSUME NEW bytes \in Seq(Nat), NEW p \in Nat, NEW s \in Seq(Nat), NEW b \in Nat,
           Holds(bytes, p, Append(s, b))
    PROVE  /\ Holds(bytes, p, s)
           /\ p + Len(s) + 1 <= Len(bytes)
           /\ bytes[p + Len(s) + 1] = b
           /\ Len(Append(s, b)) = Len(s) + 1
           /\ Len(s) \in Nat
  <1> DEFINE t == Append(s, b)
             l == Len(s)
  <1>1. Len(bytes) \in Nat /\ l \in Nat
    BY LenProperties
  <1>2. /\ Len(t) = l + 1
        /\ \A j \in 1..l : t[j] = s[j]
        /\ t[l + 1] = b
    BY AppendProperties
  <1>3. /\ p + Len(t) <= Len(bytes)
        /\ \A j \in 1..Len(t) : bytes[p + j] = t[j]
    BY DEF Holds
  <1> HIDE DEF t
  <1>4. ASSUME NEW j \in 1..l
        PROVE  bytes[p + j] = s[j]
    <2>1. j \in 1..Len(t)
      BY <1>1, <1>2
    <2>2. QED
      BY <1>2, <1>3, <2>1
  <1>5. l + 1 \in 1..Len(t) /\ p + (l + 1) = p + l + 1
    BY <1>1, <1>2
  <1>6. bytes[p + l + 1] = b
    BY <1>2, <1>3, <1>5
  <1>7. p + l + 1 <= Len(bytes) /\ p + l <= Len(bytes)
    BY <1>1, <1>2, <1>3
  <1>8. QED
    BY <1>1, <1>2, <1>4, <1>6, <1>7 DEF Holds, t

LEMMA ReadSoFarStep ==
    ASSUME NEW bytes \in Seq(Nat), NEW got, ReadSoFar(got, bytes),
           NEW p \in Nat, p + 1 <= Len(bytes)
    PROVE  got[p + 1] = Read(got[p], bytes[p + 1], p + 1)
  <1>1. Len(bytes) \in Nat
    BY LenProperties
  <1>2. p + 1 \in 0..Len(bytes) /\ p + 1 # 0 /\ (p + 1) - 1 = p
    BY <1>1
  <1>3. \A i \in 0..Len(bytes) :
            got[i] = IF i = 0 THEN [oid |-> <<>>, v |-> 0]
                     ELSE Read(got[i - 1], bytes[i], i)
    BY DEF ReadSoFar
  <1> HIDE DEF Read
  <1>4. got[p + 1] = IF p + 1 = 0 THEN [oid |-> <<>>, v |-> 0]
                     ELSE Read(got[(p + 1) - 1], bytes[p + 1], p + 1)
    BY <1>2, <1>3
  <1>5. QED
    BY <1>2, <1>4

LEMMA OneMoreRead ==
    ASSUME NEW bytes \in Seq(Nat), NEW got, ReadSoFar(got, bytes),
           NEW p \in Nat, NEW s \in Seq(Nat), NEW b \in Nat,
           Holds(bytes, p, Append(s, b)),
           NEW k, k = p + Len(s), NEW i, i = p + Len(Append(s, b))
    PROVE  i = k + 1 /\ k \in Nat /\ got[i] = Read(got[k], b, i)
  <1>1. /\ p + Len(s) + 1 <= Len(bytes)
        /\ bytes[p + Len(s) + 1] = b
        /\ Len(Append(s, b)) = Len(s) + 1
        /\ Len(s) \in Nat
    BY HoldsOfAppend
  <1>2. k \in Nat /\ i = k + 1 /\ k + 1 = p + Len(s) + 1
    BY <1>1
  <1>3. k + 1 <= Len(bytes) /\ bytes[k + 1] = b
    BY <1>1, <1>2
  <1>4. got[k + 1] = Read(got[k], bytes[k + 1], k + 1)
    BY <1>2, <1>3, ReadSoFarStep
  <1>5. QED
    BY <1>2, <1>3, <1>4

\* After byte i get_OID() has the text x and v of the next number.
After(got, i, x, v) == got[i] = [oid |-> x, v |-> v]

LEMMA HighGroupsRead ==
    ASSUME NEW bytes \in Seq(Nat), NEW got, ReadSoFar(got, bytes),
           NEW p \in Nat, NEW x, After(got, p, x, 0),
           NEW v \in Nat, NEW h, HighGroups(h, v),
           NEW w \in 0..v, Holds(bytes, p, h[w])
    PROVE  \A i : i = p + Len(h[w]) => After(got, i, x, w)
  <1> DEFINE Done(n) == Holds(bytes, p, h[n]) =>
                           \A i : i = p + Len(h[n]) => After(got, i, x, n)
             S == {n \in Nat : n <= v /\ ~Done(n)}
  <1>1. ASSUME NEW m \in 0..v, \A y \in Nat : y < m => Done(y)
        PROVE  Done(m)
    <2>1. h[m] = IF m = 0 THEN <<>> ELSE Append(h[m \div 128], 128 + (m % 128))
      BY HighGroupsStep
    <2>2. CASE m = 0
      <3>1. h[m] = <<>> /\ Len(h[m]) = 0
        BY <2>1, <2>2
      <3>2. QED
        BY <2>2, <3>1
    <2>3. CASE m # 0
      <3> DEFINE q == m \div 128
                 b == 128 + (m % 128)
      <3>1. q \in Nat /\ q < m /\ b \in Nat /\ q \in 0..v
        BY <2>3, Divided
      <3>2. b >= 128 /\ q * 128 + (b % 128) = m
        OBVIOUS
      <3>3. h[m] = Append(h[q], b)
        BY <2>1, <2>3
      <3> HIDE DEF q, b
      <3>4. h[q] \in Seq(Nat)
        BY <3>1, HighGroupsAreBytes
      <3>5. ASSUME Holds(bytes, p, Append(h[q], b)),
                   NEW i, i = p + Len(Append(h[q], b))
            PROVE  After(got, i, x, m)
        <4>1. Holds(bytes, p, h[q])
          BY <3>1, <3>4, <3>5, HoldsOfAppend
        <4> DEFINE k == p + Len(h[q])
        <4>2. After(got, k, x, q)
          BY <1>1, <3>1, <4>1
        <4>3. k = p + Len(h[q])
          OBVIOUS
        <4> HIDE DEF k
        <4>4. got[i] = Read(got[k], b, i)
          BY <3>1, <3>4, <3>5, <4>3, OneMoreRead
        <4>5. QED
          BY <3>2, <4>2, <4>4 DEF Read, After
      <3>6. QED
        BY <3>3, <3>5
    <2>4. QED
      BY <2>2, <2>3
  <1> HIDE DEF Done
  <1>2. ASSUME S # {} PROVE FALSE
    <2>1. PICK m \in S : \A y \in S : m <= y
      BY <1>2, Smallest
    <2>2. m \in 0..v /\ ~Done(m) /\ \A y \in Nat : y < m => y <= v /\ y \notin S
      BY <2>1
    <2>3. \A y \in Nat : y < m => Done(y)
      BY <2>2
    <2>4. QED
      BY <1>1, <2>2, <2>3
  <1>3. Done(w)
    BY <1>2
  <1>4. QED
    BY <1>3 DEF Done

\* What has been read after the bytes of a number w, the last of them byte i.
WithNumber(x, w, i) ==
    IF i = 1 /\ w = 43 THEN <<1, 3>>
    ELSE IF x = <<>> THEN <<Nameless, w>>
    ELSE Append(x, w)

LEMMA GroupsRead ==
    ASSUME NEW bytes \in Seq(Nat), NEW got, ReadSoFar(got, bytes),
           NEW p \in Nat, NEW x, After(got, p, x, 0),
           NEW w \in Nat, Holds(bytes, p, Groups(w)),
           NEW i, i = p + Len(Groups(w))
    PROVE  After(got, i, WithNumber(x, w, i), 0)
  <1>1. PICK h : HighGroups(h, w) /\ Groups(w) = Append(h[w \div 128], w % 128)
    BY GroupsByHigh
  <1> DEFINE q == w \div 128
             b == w % 128
             k == p + Len(h[q])
  <1>2. q \in 0..w /\ b \in Nat /\ q \in Nat
    OBVIOUS
  <1>3. ~(b >= 128) /\ q * 128 + (b % 128) = w
    OBVIOUS
  <1>4. Groups(w) = Append(h[q], b)
    BY <1>1
  <1> HIDE DEF q, b
  <1>5. h[q] \in Seq(Nat)
    BY <1>1, <1>2, HighGroupsAreBytes
  <1>6. Holds(bytes, p, Append(h[q], b))
    BY <1>4
  <1>7. Holds(bytes, p, h[q])
    BY <1>2, <1>5, <1>6, HoldsOfAppend
  <1>8. After(got, k, x, q)
    <2>1. \A l : l = p + Len(h[q]) => After(got, l, x, q)
      BY <1>1, <1>2, <1>7, HighGroupsRead
    <2>2. QED
      BY <2>1
  <1>9. got[i] = Read(got[k], b, i)
    <2>1. k = p + Len(h[q]) /\ i = p + Len(Append(h[q], b))
      BY <1>4
    <2> HIDE DEF k
    <2>2. QED
      BY <1>2, <1>5, <1>6, <2>1, OneMoreRead
  <1> HIDE DEF k
  <1>10. got[i] = Read([oid |-> x, v |-> q], b, i)
    BY <1>8, <1>9 DEF After
  <1>11. QED
    BY <1>3, <1>10 DEF Read, WithNumber, After

-----------------------------------------------------------------------------
(* What snmp_oid::snmp_oid() writes, number by number.                     *)

\* The bytes after each number of s, behind those of a, as in SnmpOid.
WrittenSoFar(w, a, s) ==
    w = [i \in 0..Len(s) |-> IF i = 0 THEN a ELSE w[i - 1] \o Groups(s[i])]

LEMMA WrittenSoFarExists ==
    ASSUME NEW a, NEW s, Len(s) \in Nat
    PROVE  \E w : WrittenSoFar(w, a, s)
  <1> DEFINE Upto(w, n) ==
                 w = [i \in 0..n |-> IF i = 0 THEN a ELSE w[i - 1] \o Groups(s[i])]
             S == {n \in Nat : ~\E w : Upto(w, n)}
  <1> HIDE DEF Upto
  <1>1. ASSUME S # {} PROVE FALSE
    <2>1. PICK m \in S : \A y \in S : m <= y
      BY <1>1, Smallest
    <2>2. m \in Nat /\ ~\E w : Upto(w, m)
      BY <2>1
    <2>3. CASE m = 0
      <3>1. Upto([i \in 0..0 |-> a], 0)
        BY DEF Upto
      <3>2. QED
        BY <2>2, <2>3, <3>1
    <2>4. CASE m # 0
      <3>1. m - 1 \in Nat /\ m - 1 \notin S
        BY <2>1, <2>2, <2>4
      <3>2. PICK f : Upto(f, m - 1)
        BY <3>1
      <3> DEFINE g == [i \in 0..m |-> IF i = m THEN f[m - 1] \o Groups(s[m]) ELSE f[i]]
      <3>3. ASSUME NEW i \in 0..m
            PROVE  g[i] = IF i = 0 THEN a ELSE g[i - 1] \o Groups(s[i])
        <4>1. i # 0 => i - 1 \in 0..(m - 1) /\ g[i - 1] = f[i - 1]
          BY <2>2, <2>4
        <4>2. CASE i = m
          BY <2>2, <2>4, <4>1, <4>2
        <4>3. CASE i # m
          <5>1. i \in 0..(m - 1) /\ g[i] = f[i]
            BY <2>2, <4>3
          <5>2. f[i] = IF i = 0 THEN a ELSE f[i - 1] \o Groups(s[i])
            BY <3>2, <5>1 DEF Upto
          <5>3. QED
            BY <4>1, <5>1, <5>2
        <4>4. QED
          BY <4>2, <4>3
      <3>4. g = [i \in 0..m |-> IF i = 0 THEN a ELSE g[i - 1] \o Groups(s[i])]
        BY <3>3
      <3> HIDE DEF g
      <3>5. Upto(g, m)
        BY <3>4 DEF Upto
      <3>6. QED
        BY <2>2, <3>5
    <2>5. QED
      BY <2>3, <2>4
  <1>2. \E w : Upto(w, Len(s))
    BY <1>1
  <1>3. QED
    BY <1>2 DEF Upto, WrittenSoFar

\* The OIDs of which "1.3." becomes one byte, what is left of them, and that byte.
Short(o) == Len(o) > 2 /\ Prefix(o, 2) = <<1, 3>>
Rest(o)  == IF Short(o) THEN SubSeq(o, 3, Len(o)) ELSE o
Lead(o)  == IF Short(o) THEN <<43>> ELSE <<>>

LEMMA SnmpOidByWriting ==
    ASSUME NEW o, Len(Rest(o)) \in Nat
    PROVE  \E w : WrittenSoFar(w, Lead(o), Rest(o)) /\ SnmpOid(o) = w[Len(Rest(o))]
  <1> DEFINE short == Len(o) > 2 /\ Prefix(o, 2) = <<1, 3>>
             rest == IF short THEN SubSeq(o, 3, Len(o)) ELSE o
             v[i \in 0..Len(rest)] ==
                 IF i = 0 THEN IF short THEN <<43>> ELSE <<>>
                          ELSE v[i - 1] \o Groups(rest[i])
  <1>1. SnmpOid(o) = v[Len(rest)]
    BY Zenon DEF SnmpOid
  <1>2. \E w : WrittenSoFar(w, Lead(o), Rest(o))
    BY WrittenSoFarExists
  <1>3. \E f : f = [i \in 0..Len(rest) |->
                       IF i = 0 THEN IF short THEN <<43>> ELSE <<>>
                                ELSE f[i - 1] \o Groups(rest[i])]
    BY <1>2 DEF WrittenSoFar, Lead, Rest, Short
  <1>4. v = [i \in 0..Len(rest) |->
                IF i = 0 THEN IF short THEN <<43>> ELSE <<>>
                         ELSE v[i - 1] \o Groups(rest[i])]
    BY <1>3, Zenon
  <1> HIDE DEF v
  <1>5. WrittenSoFar(v, Lead(o), Rest(o))
    BY <1>4 DEF WrittenSoFar, Lead, Rest, Short
  <1>6. Rest(o) = rest
    BY DEF Rest, Short
  <1>7. QED
    BY <1>1, <1>5, <1>6

\* The bytes of number i of s come behind those before.
Adds(w, s, i) == w[i] = w[i - 1] \o Groups(s[i])

LEMMA WrittenSoFarStep ==
    ASSUME NEW s \in Seq(Nat), NEW a, NEW w, WrittenSoFar(w, a, s),
           NEW i \in 1..Len(s)
    PROVE  Adds(w, s, i)
  <1>1. Len(s) \in Nat
    BY LenProperties
  <1>2. i \in 0..Len(s) /\ i # 0
    BY <1>1
  <1>3. \A k \in 0..Len(s) : w[k] = IF k = 0 THEN a ELSE w[k - 1] \o Groups(s[k])
    BY DEF WrittenSoFar
  <1>4. QED
    BY <1>2, <1>3 DEF Adds

LEMMA Joined ==
    ASSUME NEW s \in Seq(Nat), NEW t \in Seq(Nat)
    PROVE  /\ s \o t \in Seq(Nat)
           /\ Len(s) \in Nat /\ Len(t) \in Nat
           /\ Len(s \o t) = Len(s) + Len(t)
           /\ \A k \in 1..Len(s) : (s \o t)[k] = s[k]
           /\ \A k \in 1..Len(t) : (s \o t)[Len(s) + k] = t[k]
  <1> DEFINE u == s \o t
             l == Len(s)
             n == Len(t)
  <1>1. /\ u \in Seq(Nat)
        /\ Len(u) = l + n
        /\ \A i \in 1..(l + n) : u[i] = IF i <= l THEN s[i] ELSE t[i - l]
    BY ConcatProperties
  <1>2. l \in Nat /\ n \in Nat
    BY LenProperties
  <1> HIDE DEF u, l, n
  <1>3. ASSUME NEW k \in 1..l
        PROVE  u[k] = s[k]
    <2>1. k \in 1..(l + n) /\ k <= l
      BY <1>2
    <2>2. QED
      BY <1>1, <2>1
  <1>4. ASSUME NEW k \in 1..n
        PROVE  u[l + k] = t[k]
    <2>1. l + k \in 1..(l + n) /\ ~(l + k <= l) /\ (l + k) - l = k
      BY <1>2
    <2>2. u[l + k] = IF l + k <= l THEN s[l + k] ELSE t[(l + k) - l]
      BY <1>1, <2>1
    <2>3. QED
      BY <2>1, <2>2
  <1>5. QED
    BY <1>1, <1>2, <1>3, <1>4 DEF u, l, n

LEMMA WrittenAreBytes ==
    ASSUME NEW s \in Seq(Nat), NEW a \in Seq(Nat), NEW w, WrittenSoFar(w, a, s),
           NEW i \in 0..Len(s)
    PROVE  w[i] \in Seq(Nat) /\ Len(w[i]) \in Nat /\ Len(w[i]) >= Len(a) + i
  <1>0. Len(s) \in Nat /\ Len(a) \in Nat
    BY LenProperties
  <1> DEFINE Good(n) == w[n] \in Seq(Nat) /\ Len(w[n]) \in Nat /\ Len(w[n]) >= Len(a) + n
             S == {n \in Nat : n <= Len(s) /\ ~Good(n)}
  <1>1. Good(0)
    <2>1. 0 \in 0..Len(s)
      BY <1>0
    <2>2. w[0] = a
      BY <2>1 DEF WrittenSoFar
    <2>3. QED
      BY <1>0, <2>2
  <1>2. ASSUME NEW m \in 1..Len(s), Good(m - 1)
        PROVE  Good(m)
    <2>1. w[m] = w[m - 1] \o Groups(s[m])
      BY WrittenSoFarStep DEF Adds
    <2>2. s[m] \in Nat
      BY <1>0, ElementOfSeq
    <2>3. Groups(s[m]) \in Seq(Nat) /\ Len(Groups(s[m])) \in Nat \ {0}
      BY <2>2, GroupsAreBytes
    <2>4. /\ w[m] \in Seq(Nat)
          /\ Len(w[m]) = Len(w[m - 1]) + Len(Groups(s[m]))
      BY <1>2, <2>1, <2>3, Joined
    <2>5. Len(w[m - 1]) \in Nat /\ Len(w[m - 1]) >= Len(a) + (m - 1)
      BY <1>2
    <2> DEFINE l == Len(w[m - 1])
               n == Len(w[m])
               k == Len(Groups(s[m]))
    <2>6. n \in Nat /\ n >= Len(a) + m
      <3>1. /\ l \in Nat /\ l >= Len(a) + (m - 1)
            /\ k \in Nat /\ k >= 1 /\ n = l + k /\ m \in Nat
        BY <1>0, <2>3, <2>4, <2>5
      <3> HIDE DEF l, n, k
      <3>2. QED
        BY <1>0, <3>1
    <2>7. QED
      BY <2>4, <2>6
  <1> HIDE DEF Good
  <1>3. ASSUME S # {} PROVE FALSE
    <2>1. PICK m \in S : \A y \in S : m <= y
      BY <1>3, Smallest
    <2>2. m \in Nat /\ m <= Len(s) /\ ~Good(m)
      BY <2>1
    <2>3. m \in 1..Len(s) /\ m - 1 \in Nat /\ m - 1 <= Len(s) /\ ~(m <= m - 1)
      BY <1>0, <1>1, <2>2
    <2>4. Good(m - 1)
      BY <2>1, <2>3
    <2>5. QED
      BY <1>2, <2>2, <2>3, <2>4
  <1>4. Good(i)
    BY <1>0, <1>3
  <1>5. QED
    BY <1>4 DEF Good

\* What was written stays where it is.
LEMMA WrittenStays ==
    ASSUME NEW s \in Seq(Nat), NEW a \in Seq(Nat), NEW w, WrittenSoFar(w, a, s),
           NEW i \in 0..Len(s), NEW j \in i..Len(s)
    PROVE  Holds(w[j], 0, w[i])
  <1>0. Len(s) \in Nat
    BY LenProperties
  <1>1. \A k \in 0..Len(s) : w[k] \in Seq(Nat) /\ Len(w[k]) \in Nat
    BY WrittenAreBytes
  <1> DEFINE S == {n \in Nat : i <= n /\ n <= Len(s) /\ ~Holds(w[n], 0, w[i])}
  <1>2. Holds(w[i], 0, w[i])
    BY <1>1 DEF Holds
  <1>3. ASSUME NEW m \in (i + 1)..Len(s), Holds(w[m - 1], 0, w[i])
        PROVE  Holds(w[m], 0, w[i])
    <2>1. m \in 1..Len(s) /\ m - 1 \in 0..Len(s)
      BY <1>0
    <2>2. w[m] = w[m - 1] \o Groups(s[m])
      BY <2>1, WrittenSoFarStep DEF Adds
    <2>3. s[m] \in Nat
      BY <1>0, <2>1, ElementOfSeq
    <2>4. Groups(s[m]) \in Seq(Nat) /\ Len(Groups(s[m])) \in Nat
      BY <2>3, GroupsAreBytes
    <2>5. w[m - 1] \in Seq(Nat) /\ Len(w[m - 1]) \in Nat /\ Len(w[i]) \in Nat
      BY <1>1, <2>1
    <2> DEFINE g == Groups(s[m])
    <2>6. /\ Len(w[m]) = Len(w[m - 1]) + Len(g)
          /\ \A k \in 1..Len(w[m - 1]) : w[m][k] = w[m - 1][k]
      <3>1. g \in Seq(Nat)
        BY <2>4
      <3> HIDE DEF g
      <3>2. /\ Len(w[m - 1] \o g) = Len(w[m - 1]) + Len(g)
            /\ \A k \in 1..Len(w[m - 1]) : (w[m - 1] \o g)[k] = w[m - 1][k]
        BY <2>5, <3>1, Joined
      <3>3. QED
        BY <2>2, <3>2 DEF g
    <2> HIDE DEF g
    <2>7. /\ Len(w[i]) <= Len(w[m - 1])
          /\ \A k \in 1..Len(w[i]) : w[m - 1][k] = w[i][k]
      BY <1>3, <2>5 DEF Holds
    <2>8. Len(w[i]) <= Len(w[m])
      <3>1. Len(g) \in Nat
        BY <2>4 DEF g
      <3>2. QED
        BY <2>5, <2>6, <2>7, <3>1
    <2>9. ASSUME NEW k \in 1..Len(w[i])
          PROVE  w[m][0 + k] = w[i][k]
      <3>1. k \in 1..Len(w[m - 1]) /\ 0 + k = k
        BY <2>5, <2>7
      <3>2. QED
        BY <2>6, <2>7, <3>1
    <2>10. QED
      BY <2>5, <2>8, <2>9 DEF Holds
  <1>4. ASSUME S # {} PROVE FALSE
    <2>1. PICK m \in S : \A y \in S : m <= y
      BY <1>4, Smallest
    <2>2. m \in Nat /\ i <= m /\ m <= Len(s) /\ ~Holds(w[m], 0, w[i])
      BY <2>1
    <2>3. m # i
      BY <1>2, <2>2
    <2>4. m \in (i + 1)..Len(s) /\ m - 1 \in Nat /\ i <= m - 1 /\ m - 1 <= Len(s)
          /\ ~(m <= m - 1)
      BY <1>0, <2>2, <2>3
    <2>5. Holds(w[m - 1], 0, w[i])
      BY <2>1, <2>4
    <2>6. QED
      BY <1>3, <2>2, <2>4, <2>5
  <1>5. j \in Nat /\ i <= j /\ j <= Len(s)
    BY <1>0
  <1>6. QED
    BY <1>4, <1>5

\* get_OID() reads number i of s from the bytes that were written for it.
LEMMA NumberIsRead ==
    ASSUME NEW s \in Seq(Nat), NEW a \in Seq(Nat), NEW w, WrittenSoFar(w, a, s),
           NEW got, ReadSoFar(got, w[Len(s)]),
           NEW i \in 1..Len(s), NEW x, After(got, Len(w[i - 1]), x, 0)
    PROVE  After(got, Len(w[i]), WithNumber(x, s[i], Len(w[i])), 0)
  <1> DEFINE bytes == w[Len(s)]
             p == Len(w[i - 1])
             g == Groups(s[i])
             l == Len(w[i])
  <1>0. Len(s) \in Nat /\ i - 1 \in 0..Len(s) /\ i \in 0..Len(s)
       /\ Len(s) \in i..Len(s) /\ Len(s) \in 0..Len(s)
    BY LenProperties
  <1>1. /\ bytes \in Seq(Nat) /\ Len(bytes) \in Nat
        /\ w[i - 1] \in Seq(Nat) /\ p \in Nat
        /\ w[i] \in Seq(Nat) /\ l \in Nat
    BY <1>0, WrittenAreBytes
  <1>2. s[i] \in Nat
    BY <1>0, ElementOfSeq
  <1>3. g \in Seq(Nat) /\ Len(g) \in Nat
    BY <1>2, GroupsAreBytes
  <1>4. w[i] = w[i - 1] \o g
    BY WrittenSoFarStep DEF Adds, g
  <1>5. l = p + Len(g) /\ \A k \in 1..Len(g) : w[i][p + k] = g[k]
    <2>1. /\ Len(w[i - 1] \o g) = p + Len(g)
          /\ \A k \in 1..Len(g) : (w[i - 1] \o g)[p + k] = g[k]
      <3> HIDE DEF g
      <3>1. QED
        BY <1>1, <1>3, Joined
    <2>2. QED
      BY <1>4, <2>1
  <1>6. Holds(bytes, 0, w[i])
    BY <1>0, WrittenStays
  <1> HIDE DEF bytes, p, g, l
  <1>7. Holds(bytes, p, g)
    <2>1. l <= Len(bytes) /\ \A k \in 1..l : bytes[k] = w[i][k]
      BY <1>1, <1>6 DEF Holds, l
    <2>2. ASSUME NEW k \in 1..Len(g)
          PROVE  bytes[p + k] = g[k]
      <3>1. p + k \in 1..l
        BY <1>1, <1>3, <1>5
      <3>2. QED
        BY <1>5, <2>1, <3>1
    <2>3. QED
      BY <1>1, <1>3, <1>5, <2>1, <2>2 DEF Holds
  <1>8. After(got, l, WithNumber(x, s[i], l), 0)
    <2>1. ReadSoFar(got, bytes) /\ After(got, p, x, 0)
      BY DEF bytes, p
    <2>2. QED
      BY <1>1, <1>2, <1>5, <1>7, <2>1, GroupsRead DEF g
  <1>9. QED
    BY <1>8 DEF l

-----------------------------------------------------------------------------
(* What an OID has become when the agent or the manager reads it.          *)

LEMMA RestIsSequence ==
    ASSUME NEW o \in Seq(Nat)
    PROVE  /\ Lead(o) \in Seq(Nat) /\ Rest(o) \in Seq(Nat)
           /\ Len(Lead(o)) \in Nat /\ Len(Rest(o)) \in Nat
           /\ Short(o) => /\ Len(Rest(o)) = Len(o) - 2
                          /\ \A i \in 1..Len(Rest(o)) : Rest(o)[i] = o[i + 2]
  <1>1. Len(o) \in Nat
    BY LenProperties
  <1>2. Lead(o) \in Seq(Nat)
    BY DEF Lead
  <1>3. CASE Short(o)
    <2>1. Rest(o) = SubSeq(o, 3, Len(o)) /\ Len(o) > 2
      BY <1>3 DEF Rest, Short
    <2>2. \A i \in 3..Len(o) : i \in 1..Len(o)
      BY <1>1
    <2>3. /\ SubSeq(o, 3, Len(o)) \in Seq(Nat)
          /\ Len(SubSeq(o, 3, Len(o))) = Len(o) - 2
          /\ \A i \in 1..(Len(o) - 2) : SubSeq(o, 3, Len(o))[i] = o[i + 2]
      BY <1>1, <2>1, <2>2, SubSeqProperties
    <2>4. QED
      BY <1>1, <1>2, <1>3, <2>1, <2>3, LenProperties
  <1>4. CASE ~Short(o)
    BY <1>1, <1>2, <1>4, LenProperties DEF Rest
  <1>5. QED
    BY <1>3, <1>4

\* An OID under 1.3 arrives as it was sent.
LEMMA OverNetworkKeeps ==
    ASSUME NEW o \in Seq(Nat), Len(o) > 2, o[1] = 1, o[2] = 3
    PROVE  OverNetwork(o) = o
  <1>1. Len(o) \in Nat
    BY LenProperties
  <1>2. Short(o) /\ Prefix(o, 2) = <<1, 3>>
    <2>1. 2 \in 0..Len(o)
      BY <1>1
    <2>2. /\ Prefix(o, 2) \in Seq(Nat) /\ Len(Prefix(o, 2)) = 2
          /\ Prefix(o, 2)[1] = 1 /\ Prefix(o, 2)[2] = 3
      <3>1. /\ Prefix(o, 2) \in Seq(Nat) /\ Len(Prefix(o, 2)) = 2
            /\ \A j \in 1..2 : Prefix(o, 2)[j] = o[j]
        BY <2>1, PrefixProperties
      <3>2. 1 \in 1..2 /\ 2 \in 1..2
        OBVIOUS
      <3>3. QED
        BY <3>1, <3>2
    <2>3. Prefix(o, 2) = <<1, 3>>
      BY <2>2
    <2>4. QED
      BY <2>3 DEF Short
  <1> DEFINE s == Rest(o)
             a == Lead(o)
             n == Len(o) - 2
  <1>3. /\ s \in Seq(Nat) /\ Len(s) = n /\ \A i \in 1..n : s[i] = o[i + 2]
        /\ a = <<43>> /\ a \in Seq(Nat) /\ Len(a) = 1 /\ n \in Nat /\ n + 2 = Len(o)
    BY <1>1, <1>2, RestIsSequence DEF Lead
  <1>4. PICK w : WrittenSoFar(w, a, s) /\ SnmpOid(o) = w[n]
    BY <1>3, SnmpOidByWriting
  <1> HIDE DEF s, a, n
  <1>5. \A i \in 0..n : w[i] \in Seq(Nat) /\ Len(w[i]) \in Nat /\ Len(w[i]) >= i + 1
    <2>1. ASSUME NEW i \in 0..n
          PROVE  w[i] \in Seq(Nat) /\ Len(w[i]) \in Nat /\ Len(w[i]) >= i + 1
      <3>1. i \in 0..Len(s)
        BY <1>3
      <3>2. w[i] \in Seq(Nat) /\ Len(w[i]) \in Nat /\ Len(w[i]) >= Len(a) + i
        BY <1>3, <1>4, <3>1, WrittenAreBytes
      <3>3. QED
        BY <1>3, <3>2
    <2>2. QED
      BY <2>1
  <1>6. PICK got : ReadSoFar(got, w[n]) /\ GetOid(w[n]) = got[Len(w[n])].oid
    <2>1. Len(w[n]) \in Nat
      BY <1>3, <1>5
    <2>2. QED
      BY <2>1, GetOidByReading
  <1> DEFINE Good(i) == After(got, Len(w[i]), Prefix(o, i + 2), 0)
  <1>7. Good(0)
    <2>1. 0 \in 0..Len(s) /\ n \in 0..n
      BY <1>3
    <2>2. w[0] = <<43>> /\ Len(w[0]) = 1
      BY <1>3, <1>4, <2>1 DEF WrittenSoFar
    <2>3. Holds(w[n], 0, w[0])
      <3>1. n \in 0..Len(s)
        BY <1>3
      <3>2. QED
        BY <1>3, <1>4, <2>1, <3>1, WrittenStays
    <2>4. 1 <= Len(w[n]) /\ w[n][1] = 43 /\ w[n] \in Seq(Nat) /\ Len(w[n]) \in Nat
      <3>1. 0 + 1 <= Len(w[n]) /\ w[n][0 + 1] = w[0][1]
        BY <2>2, <2>3 DEF Holds
      <3>2. QED
        BY <1>5, <2>1, <2>2, <3>1
    <2>5. got[0] = [oid |-> <<>>, v |-> 0] /\ got[1] = Read(got[0], w[n][1], 1)
      BY <1>6, <2>4 DEF ReadSoFar
    <2>6. got[1] = Read([oid |-> <<>>, v |-> 0], 43, 1)
      BY <2>4, <2>5
    <2>7. got[1] = [oid |-> <<1, 3>>, v |-> 0]
      BY <2>6 DEF Read
    <2>8. QED
      BY <1>2, <2>2, <2>7 DEF After
  <1>8. ASSUME NEW i \in 1..n, Good(i - 1)
        PROVE  Good(i)
    <2> DEFINE x == Prefix(o, i + 1)
               l == Len(w[i])
    <2>1. After(got, Len(w[i - 1]), x, 0)
      <3>1. (i - 1) + 2 = i + 1
        BY <1>3
      <3>2. QED
        BY <1>8, <3>1
    <2>2. After(got, l, WithNumber(x, s[i], l), 0)
      <3> HIDE DEF x, Good
      <3>1. i \in 1..Len(s) /\ ReadSoFar(got, w[Len(s)])
        BY <1>3, <1>6
      <3>2. QED
        BY <1>3, <1>4, <2>1, <3>1, NumberIsRead
    <2>3. l # 1 /\ x # <<>>
      <3>1. i \in 0..n
        BY <1>3
      <3>2. l \in Nat /\ l >= i + 1
        BY <1>5, <3>1
      <3>3. i + 1 \in 0..Len(o) /\ i + 1 # 0
        BY <1>3
      <3>4. Len(x) # 0
        BY <3>3, PrefixProperties
      <3>5. x # <<>>
        BY <3>4
      <3> HIDE DEF l
      <3>6. QED
        BY <1>3, <3>2, <3>5
    <2>4. WithNumber(x, s[i], l) = Append(x, s[i])
      BY <2>3 DEF WithNumber
    <2>5. Prefix(o, i + 2) = Append(x, s[i])
      <3>1. i + 2 \in 1..Len(o) /\ (i + 2) - 1 = i + 1
        BY <1>3
      <3>2. Prefix(o, i + 2) = Append(Prefix(o, (i + 2) - 1), o[i + 2])
        BY <3>1, LongerPrefix
      <3>3. QED
        BY <1>3, <3>1, <3>2
    <2>6. QED
      BY <2>2, <2>4, <2>5
  <1> HIDE DEF Good
  <1> DEFINE S == {i \in Nat : i <= n /\ ~Good(i)}
  <1>9. ASSUME S # {} PROVE FALSE
    <2>1. PICK m \in S : \A y \in S : m <= y
      BY <1>9, Smallest
    <2>2. m \in Nat /\ m <= n /\ ~Good(m) /\ m # 0
      BY <1>7, <2>1
    <2>3. m \in 1..n /\ m - 1 \in Nat /\ m - 1 <= n /\ ~(m <= m - 1)
      BY <1>3, <2>2
    <2>4. Good(m - 1)
      BY <2>1, <2>3
    <2>5. QED
      BY <1>8, <2>2, <2>3, <2>4
  <1>10. Good(n)
    <2>1. n \in Nat /\ n <= n
      BY <1>3
    <2>2. S = {}
      BY <1>9
    <2>3. QED
      BY <2>1, <2>2
  <1>11. got[Len(w[n])] = [oid |-> Prefix(o, n + 2), v |-> 0]
    BY <1>10 DEF Good, After
  <1>12. got[Len(w[n])].oid = o
    BY <1>3, <1>11, PrefixOfAll
  <1>13. QED
    BY <1>4, <1>6, <1>12 DEF OverNetwork

\* Whatever is sent, numbers arrive.
LEMMA OverNetworkType ==
    ASSUME NEW o \in Seq(Nat)
    PROVE  OverNetwork(o) \in Seq(Int)
  <1> DEFINE s == Rest(o)
             a == Lead(o)
  <1>1. /\ s \in Seq(Nat) /\ Len(s) \in Nat /\ a \in Seq(Nat)
    BY RestIsSequence
  <1>2. PICK w : WrittenSoFar(w, a, s) /\ SnmpOid(o) = w[Len(s)]
    BY <1>1, SnmpOidByWriting
  <1> HIDE DEF s, a
  <1> DEFINE bytes == w[Len(s)]
             n == Len(bytes)
  <1>3. bytes \in Seq(Nat) /\ n \in Nat
    <2>1. Len(s) \in 0..Len(s)
      BY <1>1
    <2>2. QED
      BY <1>1, <1>2, <2>1, WrittenAreBytes
  <1>4. SnmpOid(o) = bytes
    BY <1>2
  <1> HIDE DEF bytes
  <1>5. PICK got : ReadSoFar(got, bytes) /\ GetOid(bytes) = got[n].oid
    BY <1>3, GetOidByReading
  <1> DEFINE Good(i) == \E x \in Seq(Int), v \in Nat : After(got, i, x, v)
  <1>6. Good(0)
    <2>1. 0 \in 0..n
      BY <1>3
    <2>2. got[0] = [oid |-> <<>>, v |-> 0]
      BY <1>5, <2>1 DEF ReadSoFar
    <2>3. <<>> \in Seq(Int) /\ 0 \in Nat
      OBVIOUS
    <2>4. QED
      BY <2>2, <2>3 DEF After
  <1>7. ASSUME NEW i \in Nat, i + 1 <= n, Good(i)
        PROVE  Good(i + 1)
    <2>1. PICK x \in Seq(Int), v \in Nat : After(got, i, x, v)
      BY <1>7
    <2> DEFINE b == bytes[i + 1]
               u == v * 128 + (b % 128)
    <2>2. b \in Nat
      <3>1. i + 1 \in 1..n
        BY <1>3, <1>7
      <3>2. QED
        BY <1>3, <3>1, ElementOfSeq
    <2>3. got[i + 1] = Read(got[i], b, i + 1)
      BY <1>3, <1>5, <1>7, ReadSoFarStep
    <2> HIDE DEF b
    <2>4. u \in Nat /\ u \in Int
      <3>1. v * 128 \in Nat /\ b % 128 \in Nat
        BY <2>2
      <3>2. QED
        BY <3>1
    <2>5. got[i + 1] = Read([oid |-> x, v |-> v], b, i + 1)
      BY <2>1, <2>3 DEF After
    <2>6. got[i + 1] = IF b >= 128 THEN [oid |-> x, v |-> u]
                       ELSE [oid |-> WithNumber(x, u, i + 1), v |-> 0]
      BY <2>5 DEF Read, WithNumber
    <2>7. WithNumber(x, u, i + 1) \in Seq(Int)
      <3>1. Append(x, u) \in Seq(Int)
        BY <2>4, AppendProperties
      <3>2. <<1, 3>> \in Seq(Int)
        OBVIOUS
      <3>3. <<Nameless, u>> \in Seq(Int)
        BY <2>4 DEF Nameless
      <3>4. QED
        BY <3>1, <3>2, <3>3 DEF WithNumber
    <2> HIDE DEF u
    <2>8. CASE b >= 128
      <3>1. After(got, i + 1, x, u)
        BY <2>6, <2>8 DEF After
      <3>2. QED
        BY <2>4, <3>1
    <2>9. CASE ~(b >= 128)
      <3>1. After(got, i + 1, WithNumber(x, u, i + 1), 0)
        BY <2>6, <2>9 DEF After
      <3>2. QED
        BY <2>7, <3>1
    <2>10. QED
      BY <2>8, <2>9
  <1> HIDE DEF Good
  <1> DEFINE S == {i \in Nat : i <= n /\ ~Good(i)}
  <1>8. ASSUME S # {} PROVE FALSE
    <2>1. PICK m \in S : \A y \in S : m <= y
      BY <1>8, Smallest
    <2>2. m \in Nat /\ m <= n /\ ~Good(m) /\ m # 0
      BY <1>6, <2>1
    <2>3. m - 1 \in Nat /\ m - 1 <= n /\ ~(m <= m - 1) /\ (m - 1) + 1 = m
      BY <1>3, <2>2
    <2>4. Good(m - 1)
      BY <2>1, <2>3
    <2>5. Good((m - 1) + 1)
      BY <1>7, <2>2, <2>3, <2>4
    <2>6. QED
      BY <2>2, <2>3, <2>5
  <1>9. PICK x \in Seq(Int), v \in Nat : After(got, n, x, v)
    BY <1>3, <1>8 DEF Good
  <1>10. got[n].oid = x
    BY <1>9 DEF After
  <1>11. QED
    BY <1>4, <1>5, <1>9, <1>10 DEF OverNetwork

\* The first numbers of an OID, when nothing follows them, arrive as an OID
\* the tree does not have.
LEMMA TopArrivesNameless ==
    ASSUME NEW o \in Seq(Nat), ~Short(o), o # <<>>, o[1] # 43
    PROVE  /\ Len(OverNetwork(o)) \in Nat \ {0}
           /\ OverNetwork(o)[1] = Nameless
  <1> DEFINE n == Len(o)
  <1>1. n \in Nat /\ n >= 1
    BY LenProperties, EmptySeq
  <1>2. Rest(o) = o /\ Lead(o) = <<>> /\ <<>> \in Seq(Nat) /\ Len(<<>>) = 0
    BY DEF Rest, Lead
  <1>3. PICK w : WrittenSoFar(w, <<>>, o) /\ SnmpOid(o) = w[n]
    BY <1>1, <1>2, SnmpOidByWriting
  <1> HIDE DEF n
  <1>4. \A i \in 0..n : w[i] \in Seq(Nat) /\ Len(w[i]) \in Nat /\ Len(w[i]) >= i
    <2>1. ASSUME NEW i \in 0..n
          PROVE  w[i] \in Seq(Nat) /\ Len(w[i]) \in Nat /\ Len(w[i]) >= i
      <3>1. i \in 0..Len(o)
        BY DEF n
      <3>2. w[i] \in Seq(Nat) /\ Len(w[i]) \in Nat /\ Len(w[i]) >= Len(<<>>) + i
        BY <1>2, <1>3, <3>1, WrittenAreBytes
      <3>3. QED
        BY <1>2, <3>2
    <2>2. QED
      BY <2>1
  <1>5. PICK got : ReadSoFar(got, w[n]) /\ GetOid(w[n]) = got[Len(w[n])].oid
    <2>1. Len(w[n]) \in Nat
      BY <1>1, <1>4
    <2>2. QED
      BY <2>1, GetOidByReading
  <1> DEFINE Named(x) == x \in Seq(Int) /\ Len(x) \in Nat \ {0} /\ x[1] = Nameless
             Good(i) == \E x : After(got, Len(w[i]), x, 0) /\ Named(x)
  <1>6. After(got, Len(w[0]), <<>>, 0)
    <2>1. 0 \in 0..Len(o)
      BY <1>1 DEF n
    <2>2. w[0] = <<>> /\ Len(w[0]) = 0
      BY <1>2, <1>3, <2>1 DEF WrittenSoFar
    <2>3. n \in 0..n
      BY <1>1
    <2>4. 0 \in 0..Len(w[n])
      BY <1>4, <2>3
    <2>5. got[0] = [oid |-> <<>>, v |-> 0]
      BY <1>5, <2>4 DEF ReadSoFar
    <2>6. QED
      BY <2>2, <2>5 DEF After
  <1>7. \A i \in 1..n : o[i] \in Nat
    BY <1>1, ElementOfSeq DEF n
  <1>8. ASSUME NEW i \in 1..n, NEW x, After(got, Len(w[i - 1]), x, 0)
        PROVE  After(got, Len(w[i]), WithNumber(x, o[i], Len(w[i])), 0)
    <2>1. i \in 1..Len(o) /\ ReadSoFar(got, w[Len(o)])
      BY <1>5 DEF n
    <2>2. QED
      BY <1>2, <1>3, <1>8, <2>1, NumberIsRead
  <1>9. Good(1)
    <2> DEFINE l == Len(w[1])
    <2>1. 1 \in 1..n /\ 1 - 1 = 0
      BY <1>1
    <2>2. After(got, l, WithNumber(<<>>, o[1], l), 0)
      BY <1>6, <1>8, <2>1
    <2>3. WithNumber(<<>>, o[1], l) = <<Nameless, o[1]>>
      BY DEF WithNumber
    <2>4. Named(<<Nameless, o[1]>>)
      <3>1. Nameless \in Int /\ o[1] \in Int
        BY <1>7, <2>1 DEF Nameless
      <3>2. QED
        BY <3>1
    <2>5. QED
      BY <2>2, <2>3, <2>4
  <1>10. ASSUME NEW i \in 2..n, Good(i - 1)
         PROVE  Good(i)
    <2>1. PICK x : After(got, Len(w[i - 1]), x, 0) /\ Named(x)
      BY <1>10
    <2>2. i \in 1..n /\ i \in 0..n
      BY <1>1
    <2> DEFINE l == Len(w[i])
    <2>3. After(got, l, WithNumber(x, o[i], l), 0)
      BY <1>8, <2>1, <2>2
    <2>4. l # 1
      <3>1. l \in Nat /\ l >= i
        BY <1>4, <2>2
      <3> HIDE DEF l
      <3>2. QED
        BY <3>1
    <2>5. x # <<>>
      BY <2>1
    <2>6. WithNumber(x, o[i], l) = Append(x, o[i])
      BY <2>4, <2>5 DEF WithNumber
    <2>7. Named(Append(x, o[i]))
      <3>1. o[i] \in Int
        BY <1>7, <2>2
      <3>2. /\ Append(x, o[i]) \in Seq(Int)
            /\ Len(Append(x, o[i])) = Len(x) + 1
            /\ \A k \in 1..Len(x) : Append(x, o[i])[k] = x[k]
        BY <2>1, <3>1, AppendProperties
      <3>3. 1 \in 1..Len(x)
        BY <2>1
      <3>4. QED
        BY <2>1, <3>2, <3>3
    <2>8. QED
      BY <2>3, <2>6, <2>7
  <1> HIDE DEF Good, Named
  <1> DEFINE S == {i \in Nat : 1 <= i /\ i <= n /\ ~Good(i)}
  <1>11. ASSUME S # {} PROVE FALSE
    <2>1. PICK m \in S : \A y \in S : m <= y
      BY <1>11, Smallest
    <2>2. m \in Nat /\ m <= n /\ ~Good(m) /\ m # 1 /\ 1 <= m
      BY <1>9, <2>1
    <2>3. m \in 2..n /\ m - 1 \in Nat /\ 1 <= m - 1 /\ m - 1 <= n /\ ~(m <= m - 1)
      BY <1>1, <2>2
    <2>4. Good(m - 1)
      BY <2>1, <2>3
    <2>5. QED
      BY <1>10, <2>2, <2>3, <2>4
  <1>12. Good(n)
    <2>1. n \in Nat /\ n <= n /\ 1 <= n
      BY <1>1
    <2>2. S = {}
      BY <1>11
    <2>3. QED
      BY <2>1, <2>2
  <1>13. PICK x : After(got, Len(w[n]), x, 0) /\ Named(x)
    BY <1>12 DEF Good
  <1>14. OverNetwork(o) = x
    BY <1>3, <1>5, <1>13 DEF After, OverNetwork
  <1>15. QED
    BY <1>13, <1>14 DEF Named

-----------------------------------------------------------------------------
(* The order of OIDs is a strict total order.                              *)

\* p is behind o from its number k on.
BehindFrom(o, p, k) ==
    /\ k \in 1..Len(p) /\ k <= Len(o) + 1
    /\ \A j \in 1..(k - 1) : o[j] = p[j]
    /\ k <= Len(o) => o[k] < p[k]

LEMMA LessFrom ==
    ASSUME NEW o \in Seq(Nat), NEW p \in Seq(Nat)
    PROVE  Less(o, p) <=> \E k \in Nat : BehindFrom(o, p, k)
  <1>0. Len(o) \in Nat /\ Len(p) \in Nat
    BY LenProperties
  <1>1. ASSUME IsStrictPrefix(o, p)
        PROVE  BehindFrom(o, p, Len(o) + 1)
    <2>1. Len(o) <= Len(p) /\ (\A j \in 1..Len(o) : o[j] = p[j]) /\ o # p
      BY <1>1, IsPrefixPointwise DEF IsStrictPrefix
    <2>2. Len(o) # Len(p)
      BY <2>1, SeqEqual
    <2>3. Len(o) + 1 \in 1..Len(p) /\ (Len(o) + 1) - 1 = Len(o) /\ ~(Len(o) + 1 <= Len(o))
      BY <1>0, <2>1, <2>2
    <2>4. QED
      BY <1>0, <2>1, <2>3 DEF BehindFrom
  <1>2. ASSUME NEW k \in 1..Len(o), k <= Len(p), \A j \in 1..(k - 1) : o[j] = p[j],
               o[k] < p[k]
        PROVE  BehindFrom(o, p, k)
    BY <1>0, <1>2 DEF BehindFrom
  <1>3. ASSUME NEW k \in Nat, BehindFrom(o, p, k), k <= Len(o)
        PROVE  Less(o, p)
    <2>1. k \in 1..Len(o) /\ k <= Len(p) /\ (\A j \in 1..(k - 1) : o[j] = p[j]) /\ o[k] < p[k]
      BY <1>0, <1>3 DEF BehindFrom
    <2>2. QED
      BY <2>1, LessPointwise
  <1>4. ASSUME NEW k \in Nat, BehindFrom(o, p, k), ~(k <= Len(o))
        PROVE  Less(o, p)
    <2>1. k = Len(o) + 1 /\ Len(o) < Len(p) /\ k - 1 = Len(o)
      BY <1>0, <1>4 DEF BehindFrom
    <2>2. \A j \in 1..Len(o) : o[j] = p[j]
      BY <1>4, <2>1 DEF BehindFrom
    <2>3. IsPrefix(o, p)
      <3>1. Len(o) <= Len(p)
        BY <1>0, <2>1
      <3>2. QED
        BY <2>2, <3>1, IsPrefixPointwise
    <2>4. o # p
      BY <1>0, <2>1
    <2>5. QED
      BY <2>3, <2>4, LessPointwise DEF IsStrictPrefix
  <1>5. ASSUME Less(o, p)
        PROVE  \E k \in Nat : BehindFrom(o, p, k)
    <2>1. \/ IsStrictPrefix(o, p)
          \/ \E k \in 1..Len(o) : /\ k <= Len(p)
                                  /\ \A j \in 1..(k - 1) : o[j] = p[j]
                                  /\ o[k] < p[k]
      BY <1>5, LessPointwise
    <2>2. Len(o) + 1 \in Nat /\ \A k \in 1..Len(o) : k \in Nat
      BY <1>0
    <2>3. QED
      BY <1>1, <1>2, <2>1, <2>2
  <1>6. QED
    BY <1>3, <1>4, <1>5

LEMMA LessIsTransitive ==
    ASSUME NEW o \in Seq(Nat), NEW p \in Seq(Nat), NEW q \in Seq(Nat),
           Less(o, p), Less(p, q)
    PROVE  Less(o, q)
  <1>0. Len(o) \in Nat /\ Len(p) \in Nat /\ Len(q) \in Nat
    BY LenProperties
  <1>1. PICK k \in Nat : BehindFrom(o, p, k)
    BY LessFrom
  <1>2. PICK l \in Nat : BehindFrom(p, q, l)
    BY LessFrom
  <1>3. /\ k \in 1..Len(p) /\ k <= Len(o) + 1
        /\ \A j \in 1..(k - 1) : o[j] = p[j]
        /\ k <= Len(o) => o[k] < p[k]
    BY <1>1 DEF BehindFrom
  <1>4. /\ l \in 1..Len(q) /\ l <= Len(p) + 1
        /\ \A j \in 1..(l - 1) : p[j] = q[j]
        /\ l <= Len(p) => p[l] < q[l]
    BY <1>2 DEF BehindFrom
  <1>5. CASE k <= l
    <2>1. k \in 1..Len(q) /\ k \in 1..Len(p)
      BY <1>0, <1>3, <1>4, <1>5
    <2>2. \A j \in 1..(k - 1) : o[j] = q[j]
      <3>1. \A j \in 1..(k - 1) : j \in 1..(l - 1)
        BY <1>3, <1>4, <1>5
      <3>2. QED
        BY <1>3, <1>4, <3>1
    <2>3. p[k] = q[k] \/ p[k] < q[k]
      <3>1. k \in 1..(l - 1) \/ (l = k /\ l <= Len(p))
        BY <1>0, <1>3, <1>4, <1>5
      <3>2. QED
        BY <1>4, <3>1
    <2>4. k <= Len(o) => o[k] < q[k]
      <3>1. ASSUME k <= Len(o)
            PROVE  o[k] < q[k]
        <4>1. k \in 1..Len(o)
          BY <1>0, <1>3, <3>1
        <4>2. o[k] \in Nat /\ p[k] \in Nat /\ q[k] \in Nat
          BY <1>0, <2>1, <4>1, ElementOfSeq
        <4>3. o[k] < p[k]
          BY <1>3, <3>1
        <4>4. CASE p[k] = q[k]
          BY <4>3, <4>4
        <4>5. CASE p[k] < q[k]
          BY <4>2, <4>3, <4>5
        <4>6. QED
          BY <2>3, <4>4, <4>5
      <3>2. QED
        BY <3>1
    <2>5. BehindFrom(o, q, k)
      BY <1>3, <2>1, <2>2, <2>4 DEF BehindFrom
    <2>6. QED
      BY <2>5, LessFrom
  <1>6. CASE l < k
    <2>1. l \in 1..(k - 1) /\ l <= Len(o) /\ l \in 1..Len(p) /\ l <= Len(p) /\ l <= Len(o) + 1
      <3>1. k \in 1..Len(p) /\ k <= Len(o) + 1 /\ l \in 1..Len(q)
        BY <1>3, <1>4
      <3>2. /\ k \in Nat /\ 1 <= k /\ k <= Len(p) /\ k <= Len(o) + 1
            /\ l \in Nat /\ 1 <= l
        BY <1>0, <3>1
      <3>3. l <= k - 1 /\ l <= Len(o) /\ l <= Len(p)
        BY <1>0, <1>6, <3>2
      <3>4. QED
        BY <1>0, <3>2, <3>3
    <2>2. o[l] < q[l]
      BY <1>3, <1>4, <2>1
    <2>3. \A j \in 1..(l - 1) : o[j] = q[j]
      <3>1. \A j \in 1..(l - 1) : j \in 1..(k - 1)
        BY <1>3, <1>4, <1>6
      <3>2. QED
        BY <1>3, <1>4, <3>1
    <2>4. BehindFrom(o, q, l)
      BY <1>4, <2>1, <2>2, <2>3 DEF BehindFrom
    <2>5. QED
      BY <2>4, LessFrom
  <1>7. QED
    BY <1>3, <1>4, <1>5, <1>6

LEMMA LessIsStrict ==
    ASSUME NEW o \in Seq(Nat)
    PROVE  ~Less(o, o)
  <1>0. Len(o) \in Nat /\ \A j \in 1..Len(o) : o[j] \in Nat
    BY LenProperties, ElementOfSeq
  <1>1. ASSUME NEW k \in Nat, BehindFrom(o, o, k)
        PROVE  FALSE
    <2>1. k \in 1..Len(o) /\ o[k] < o[k]
      BY <1>0, <1>1 DEF BehindFrom
    <2>2. QED
      BY <1>0, <2>1
  <1>2. QED
    BY <1>1, LessFrom

LEMMA LessIsTotal ==
    ASSUME NEW o \in Seq(Nat), NEW p \in Seq(Nat), o # p
    PROVE  Less(o, p) \/ Less(p, o)
  <1>0. Len(o) \in Nat /\ Len(p) \in Nat
    BY LenProperties
  <1>1. CASE IsPrefix(o, p)
    BY <1>1, LessPointwise DEF IsStrictPrefix
  <1>2. CASE IsPrefix(p, o)
    BY <1>2, LessPointwise DEF IsStrictPrefix
  <1>3. CASE ~IsPrefix(o, p) /\ ~IsPrefix(p, o)
    <2>1. PICK k \in 1..Len(o) : /\ k <= Len(p)
                                 /\ \A j \in 1..(k - 1) : o[j] = p[j]
                                 /\ o[k] # p[k]
      BY <1>3, FirstDifference
    <2>2. k \in 1..Len(p) /\ o[k] \in Nat /\ p[k] \in Nat
      BY <1>0, <2>1, ElementOfSeq
    <2>3. CASE o[k] < p[k]
      BY <2>1, <2>3, LessPointwise
    <2>4. CASE p[k] < o[k]
      <3>1. \A j \in 1..(k - 1) : p[j] = o[j]
        BY <2>1
      <3>2. k <= Len(o)
        BY <1>0
      <3>3. QED
        BY <2>2, <2>4, <3>1, <3>2, LessPointwise
    <2>5. o[k] < p[k] \/ p[k] < o[k]
      <3>1. o[k] # p[k]
        BY <2>1
      <3>2. QED
        BY <2>2, <3>1
    <2>6. QED
      BY <2>3, <2>4, <2>5
  <1>4. QED
    BY <1>1, <1>2, <1>3

-----------------------------------------------------------------------------
(* What the agent answers to a request that came over the network.         *)

LEMMA OidsUnderTop ==
    \A o \in Oids : /\ o \in Seq(Nat) /\ Len(o) \in Nat /\ Len(o) > 2
                    /\ o[1] = 1 /\ o[2] = 3
  BY AgentAssumption, OidsAreSequences

LEMMA StartsAreSequences ==
    \A o \in Starts : o \in Seq(Nat) /\ o # <<>>
  <1>1. 0..MaxNumber \subseteq Nat
    OBVIOUS
  <1>2. Seq(0..MaxNumber) \subseteq Seq(Nat)
    BY <1>1, SeqMonotonic
  <1>3. QED
    BY <1>2, AgentAssumption

LEMMA PrefixOfInts ==
    ASSUME NEW o \in Seq(Int)
    PROVE  /\ Len(o) \in Nat
           /\ Prefix(o, 0) = <<>>
           /\ \A k \in 1..Len(o) : Len(Prefix(o, k)) = k /\ Prefix(o, k)[1] = o[1]
  <1>1. Len(o) \in Nat
    BY LenProperties
  <1>2. ASSUME NEW k \in 0..Len(o)
        PROVE  /\ Prefix(o, k) \in Seq(Int)
               /\ Len(Prefix(o, k)) = k
               /\ \A j \in 1..k : Prefix(o, k)[j] = o[j]
    BY SubSeqProperties DEF Prefix
  <1>3. Prefix(o, 0) = <<>>
    BY <1>1, <1>2, EmptySeq
  <1>4. ASSUME NEW k \in 1..Len(o)
        PROVE  Len(Prefix(o, k)) = k /\ Prefix(o, k)[1] = o[1]
    <2>1. k \in 0..Len(o) /\ 1 \in 1..k
      BY <1>1
    <2>2. QED
      BY <1>2, <2>1
  <1>5. QED
    BY <1>1, <1>3, <1>4

\* What the tree has of an OID is a node of it, the top when it does not
\* even have its first number.
LEMMA KnownIsNode ==
    ASSUME TreeSound, NEW o \in Seq(Int)
    PROVE  /\ Known(o) \in Nodes
           /\ Len(o) # 0 /\ o[1] = Nameless => Known(o) = <<>>
  <1> DEFINE K == {k \in 0..Len(o) : Prefix(o, k) \in Nodes}
             m == Max(K)
  <1>1. /\ Len(o) \in Nat
        /\ Prefix(o, 0) = <<>>
        /\ \A k \in 1..Len(o) : Len(Prefix(o, k)) = k /\ Prefix(o, k)[1] = o[1]
    BY PrefixOfInts
  <1>2. 0 \in K /\ K \in SUBSET (0..Len(o))
    BY <1>1 DEF TreeSound
  <1>3. Known(o) = Prefix(o, m)
    BY DEF Known
  <1>4. m \in K
    <2> HIDE DEF K
    <2>1. K # {}
      BY <1>2
    <2>2. QED
      BY <1>1, <1>2, <2>1, MaxOfBounded
  <1> HIDE DEF m
  <1>5. Known(o) \in Nodes
    BY <1>3, <1>4
  <1>6. ASSUME Len(o) # 0, o[1] = Nameless, m # 0
        PROVE  FALSE
    <2>1. m \in 1..Len(o) /\ Prefix(o, m) \in Nodes
      BY <1>1, <1>4, <1>6
    <2> DEFINE n == Prefix(o, m)
    <2>2. Len(n) = m /\ n[1] = Nameless
      BY <1>1, <1>6, <2>1
    <2>3. n \in Seq(Nat)
      BY <2>1, NodesAreSequences
    <2> HIDE DEF n
    <2>4. n[1] \in Nat
      <3>1. 1 \in 1..Len(n)
        BY <1>1, <2>1, <2>2
      <3>2. QED
        BY <2>3, <3>1, ElementOfSeq
    <2>5. QED
      BY <2>2, <2>4 DEF Nameless
  <1>7. QED
    BY <1>1, <1>3, <1>5, <1>6

\* find_next_oid() of any OID gives a registered one, or nothing.
LEMMA NextIsRegistered ==
    ASSUME TreeSound, registered # {}, NEW o \in Seq(Int)
    PROVE  FindNext(o) \in registered \/ FindNext(o) = <<>>
  <1> DEFINE leaf == FirstLeaf(Known(o))
  <1>1. leaf \in registered
    BY KnownIsNode, FirstLeafIsSmallest
  <1>2. FindNext(o) = CASE leaf # o                   -> leaf
                        [] leaf = o /\ Forks(o) # {}  -> AfterBranch(o)
                        [] OTHER                      -> <<>>
    BY DEF FindNext
  <1> HIDE DEF leaf
  <1>3. CASE leaf # o
    BY <1>1, <1>2, <1>3
  <1>4. CASE leaf = o /\ Forks(o) # {}
    BY <1>1, <1>2, <1>4, LeafGoesOn
  <1>5. CASE leaf = o /\ Forks(o) = {}
    BY <1>2, <1>5
  <1>6. QED
    BY <1>3, <1>4, <1>5

\* The answer to an OID that arrives nameless is the first one of the tree.
LEMMA NamelessGoesFirst ==
    ASSUME TreeSound, registered # {}, NEW o \in Seq(Int),
           Len(o) # 0, o[1] = Nameless
    PROVE  /\ FindNext(o) \in registered
           /\ \A p \in registered : p = FindNext(o) \/ Less(FindNext(o), p)
  <1> DEFINE leaf == FirstLeaf(<<>>)
  <1>1. Known(o) = <<>>
    BY KnownIsNode
  <1>2. <<>> \in Nodes
    BY DEF TreeSound
  <1>3. /\ leaf \in registered
        /\ \A p \in registered : IsPrefix(<<>>, p) => p = leaf \/ Less(leaf, p)
    BY <1>2, FirstLeafIsSmallest
  <1>4. leaf # o
    <2>1. leaf \in Seq(Nat) /\ Len(leaf) > 2 /\ leaf[1] = 1
      BY <1>3, OidsUnderTop DEF TreeSound
    <2>2. QED
      BY <2>1 DEF Nameless
  <1>5. FindNext(o) = leaf
    BY <1>1, <1>4 DEF FindNext
  <1>6. ASSUME NEW p \in registered
        PROVE  IsPrefix(<<>>, p)
    <2>1. p \in Seq(Nat) /\ Len(p) \in Nat /\ <<>> \in Seq(Nat) /\ Len(<<>>) = 0
      BY OidsUnderTop DEF TreeSound
    <2>2. ASSUME NEW e \in Seq(Nat), Len(e) = 0
          PROVE  IsPrefix(e, p)
      <3>1. Len(e) <= Len(p) /\ \A j \in 1..Len(e) : e[j] = p[j]
        BY <2>1, <2>2
      <3>2. QED
        BY <2>1, <3>1, IsPrefixPointwise
    <2>3. QED
      BY <2>1, <2>2
  <1> HIDE DEF leaf
  <1>7. QED
    BY <1>3, <1>5, <1>6

\* Nothing, or the first registered OID behind o.
Answers(o, next) ==
    /\ next \in registered \/ next = <<>>
    /\ o \in Nodes =>
         \/ next = <<>> /\ \A p \in registered : ~Less(o, p)
         \/ /\ next \in registered /\ Less(o, next)
            /\ \A p \in registered : Less(o, p) => p = next \/ Less(next, p)

LEMMA NodeUnderTopAnswered ==
    ASSUME TreeSound, serving, NEW o \in Seq(Nat), Len(o) > 2, o[1] = 1, o[2] = 3
    PROVE  Answers(o, FindNext(OverNetwork(o)))
  <1>1. OverNetwork(o) = o
    BY OverNetworkKeeps
  <1> DEFINE next == FindNext(o)
             larger == {p \in registered : Less(o, p)}
  <1>2. next \in registered \/ next = <<>>
    <2>1. o \in Seq(Int)
      BY <1>1, OverNetworkType
    <2>2. registered # {}
      BY DEF TreeSound
    <2>3. QED
      BY <2>1, <2>2, NextIsRegistered
  <1>3. ASSUME o \in Nodes
        PROVE  IF larger = {} THEN next = <<>>
               ELSE next \in larger /\ \A p \in larger : p = next \/ Less(next, p)
    <2>1. o \in Nodes \ {<<>>}
      <3>1. o # <<>>
        OBVIOUS
      <3>2. QED
        BY <1>3, <3>1
    <2>2. NextIsSuccessor
      BY SuccessorsOfSound
    <2>3. QED
      BY <2>1, <2>2 DEF NextIsSuccessor
  <1> HIDE DEF next
  <1>4. Answers(o, next)
    BY <1>2, <1>3 DEF Answers
  <1>5. QED
    BY <1>1, <1>4 DEF next

LEMMA StartAnswered ==
    ASSUME TreeSound, serving, NEW o \in Starts
    PROVE  Answers(o, FindNext(OverNetwork(o)))
  <1> DEFINE sent == OverNetwork(o)
             next == FindNext(sent)
  <1>0. o \in Seq(Nat) /\ o # <<>> /\ Len(o) \in Nat /\ Len(o) # 0
    BY StartsAreSequences, LenProperties, EmptySeq
  <1>1. sent \in Seq(Int) /\ registered # {}
    BY <1>0, OverNetworkType DEF TreeSound
  <1>2. next \in registered \/ next = <<>>
    <2> HIDE DEF sent
    <2>1. QED
      BY <1>1, NextIsRegistered
  <1>3. ASSUME o \in Nodes
        PROVE  Answers(o, next)
    <2>1. PICK p \in registered : \E k \in 1..Len(p) : o = Prefix(p, k)
      BY <1>0, <1>3 DEF TreeSound
    <2>2. p \in Seq(Nat) /\ Len(p) \in Nat /\ Len(p) > 2 /\ p[1] = 1 /\ p[2] = 3
      BY OidsUnderTop DEF TreeSound
    <2>3. PICK k \in 1..Len(p) : o = Prefix(p, k)
      BY <2>1
    <2>4. Len(o) = k /\ \A j \in 1..k : o[j] = p[j]
      <3>1. k \in 0..Len(p)
        BY <2>2
      <3>2. QED
        BY <2>2, <2>3, <3>1, PrefixProperties
    <2>5. o[1] = 1 /\ (k >= 2 => o[2] = 3)
      <3>1. 1 \in 1..k /\ (k >= 2 => 2 \in 1..k)
        BY <2>2
      <3>2. QED
        BY <2>2, <2>4, <3>1
    <2>6. CASE Len(o) > 2
      <3>1. o[2] = 3
        BY <2>2, <2>4, <2>5, <2>6
      <3>2. QED
        BY <1>0, <2>5, <2>6, <3>1, NodeUnderTopAnswered
    <2>7. CASE ~(Len(o) > 2)
      <3>1. ~Short(o) /\ o[1] # 43
        BY <2>5, <2>7 DEF Short
      <3>2. Len(sent) # 0 /\ sent[1] = Nameless
        BY <1>0, <3>1, TopArrivesNameless
      <3> HIDE DEF sent
      <3>3. /\ next \in registered
            /\ \A r \in registered : r = next \/ Less(next, r)
        BY <1>1, <3>2, NamelessGoesFirst
      <3>4. ASSUME NEW r \in registered
            PROVE  Less(o, r)
        <4>1. r \in Seq(Nat) /\ Len(r) \in Nat /\ Len(r) > 2 /\ r[1] = 1 /\ r[2] = 3
          BY OidsUnderTop DEF TreeSound
        <4>2. \A j \in 1..Len(o) : o[j] = r[j]
          <5>1. \A j \in 1..Len(o) : j = 1 \/ (j = 2 /\ k >= 2)
            BY <1>0, <2>2, <2>4, <2>7
          <5>2. QED
            BY <2>5, <4>1, <5>1
        <4>3. Len(o) <= Len(r) /\ o # r
          <5>1. Len(o) < Len(r)
            BY <1>0, <2>7, <4>1
          <5>2. QED
            BY <1>0, <4>1, <5>1
        <4>4. IsPrefix(o, r)
          BY <1>0, <4>1, <4>2, <4>3, IsPrefixPointwise
        <4>5. IsStrictPrefix(o, r)
          BY <4>3, <4>4 DEF IsStrictPrefix
        <4>6. QED
          BY <1>0, <4>1, <4>5, LessPointwise
      <3> HIDE DEF next
      <3>5. QED
        BY <3>3, <3>4 DEF Answers
    <2>8. QED
      BY <2>6, <2>7
  <1>4. QED
    <2> HIDE DEF next
    <2>1. Answers(o, next)
      BY <1>2, <1>3 DEF Answers
    <2>2. QED
      BY <2>1 DEF next

-----------------------------------------------------------------------------
(* A walk, request by request.                                             *)

\* The bindings a walk from o gets up to the OID p, and all of them.
Passed(o, p) == {r \in registered : Less(o, r) /\ (r = p \/ Less(r, p))}
Bindings(S)  == {<<o, <<"value of", o>>>> : o \in S}
AllBehind(o) == {p \in registered : Less(o, p)}

(***************************************************************************)
(* The manager asks from where it started or from an OID it was given, and *)
(* when it started in the tree it has every binding up to there.           *)
(***************************************************************************)
WalkSound ==
    /\ walk \in {"idle", "walking", "done"}
    /\ ~back
    /\ walk # "idle" =>
          /\ serving /\ from \in Starts
          /\ \/ cur = from /\ (walk = "walking" => visited = {})
             \/ /\ cur \in registered
                /\ from \in Nodes /\ walk = "walking" =>
                      Less(from, cur) /\ visited = Bindings(Passed(from, cur))
    /\ walk = "done" /\ from \in Nodes => visited = Bindings(AllBehind(from))

LEMMA WalkSoundInit == AgentInit => WalkSound
  BY DEF AgentInit, WalkSound

\* An answer that is the first one behind p is the only one between p and it.
LEMMA PassedGrows ==
    ASSUME registered \subseteq Seq(Nat), NEW o \in Seq(Nat), NEW p \in registered,
           Less(o, p), NEW q \in registered, Less(p, q),
           \A r \in registered : Less(p, r) => r = q \/ Less(q, r)
    PROVE  Less(o, q) /\ Passed(o, q) = Passed(o, p) \cup {q}
  <1>0. p \in Seq(Nat) /\ q \in Seq(Nat)
    OBVIOUS
  <1>1. Less(o, q)
    BY <1>0, LessIsTransitive
  <1>2. ASSUME NEW r \in registered, Less(o, r), r = p \/ Less(r, p)
        PROVE  Less(r, q)
    <2>1. r \in Seq(Nat)
      OBVIOUS
    <2>2. CASE r = p
      BY <2>2
    <2>3. CASE Less(r, p)
      BY <1>0, <2>1, <2>3, LessIsTransitive
    <2>4. QED
      BY <1>2, <2>2, <2>3
  <1>3. ASSUME NEW r \in registered, Less(r, q)
        PROVE  r = p \/ Less(r, p)
    <2>1. r \in Seq(Nat)
      OBVIOUS
    <2>2. ASSUME Less(p, r)
          PROVE  FALSE
      <3>1. r = q \/ Less(q, r)
        BY <2>2
      <3>2. Less(q, q)
        BY <1>0, <1>3, <2>1, <3>1, LessIsTransitive
      <3>3. QED
        BY <1>0, <3>2, LessIsStrict
    <2>3. QED
      BY <1>0, <2>1, <2>2, LessIsTotal
  <1>4. QED
    BY <1>1, <1>2, <1>3 DEF Passed

LEMMA PassedBegins ==
    ASSUME registered \subseteq Seq(Nat), NEW o \in Seq(Nat),
           NEW q \in registered, Less(o, q),
           \A r \in registered : Less(o, r) => r = q \/ Less(q, r)
    PROVE  Passed(o, q) = {q}
  <1>1. ASSUME NEW r \in registered, Less(o, r), Less(r, q)
        PROVE  r = q
    <2>1. r \in Seq(Nat) /\ q \in Seq(Nat)
      OBVIOUS
    <2>2. ASSUME Less(q, r)
          PROVE  FALSE
      <3>1. Less(q, q)
        BY <1>1, <2>1, <2>2, LessIsTransitive
      <3>2. QED
        BY <2>1, <3>1, LessIsStrict
    <2>3. QED
      BY <1>1, <2>2
  <1>2. QED
    BY <1>1 DEF Passed

\* With nothing behind p the bindings up to p are all.
LEMMA PassedAll ==
    ASSUME registered \subseteq Seq(Nat), NEW o, NEW p \in registered,
           \A r \in registered : ~Less(p, r)
    PROVE  Passed(o, p) = AllBehind(o)
  <1>1. ASSUME NEW r \in registered
        PROVE  r = p \/ Less(r, p)
    <2>1. r \in Seq(Nat) /\ p \in Seq(Nat)
      OBVIOUS
    <2>2. QED
      BY <2>1, LessIsTotal
  <1>2. QED
    BY <1>1 DEF Passed, AllBehind

LEMMA WalkSoundGetNext ==
    ASSUME TreeSound, WalkSound, GetNext
    PROVE  WalkSound'
  <1> DEFINE next == FindNext(OverNetwork(cur))
  <1>1. /\ walk = "walking" /\ ~back /\ serving /\ from \in Starts
        /\ UNCHANGED <<kids, registered, serving, from>>
        /\ \/ cur = from /\ visited = {}
           \/ /\ cur \in registered
              /\ from \in Nodes => Less(from, cur) /\ visited = Bindings(Passed(from, cur))
    BY DEF WalkSound, GetNext, treeVars
  <1>2. /\ registered # {} /\ registered \subseteq Seq(Nat)
        /\ \A o \in registered : /\ o \in Nodes /\ o \in Seq(Nat) /\ Len(o) > 2
                                 /\ o[1] = 1 /\ o[2] = 3 /\ o # <<>>
    <2>1. registered \subseteq Oids /\ registered # {}
      BY <1>1 DEF TreeSound
    <2>2. ASSUME NEW o \in registered
          PROVE  /\ o \in Nodes /\ o \in Seq(Nat) /\ Len(o) > 2
                 /\ o[1] = 1 /\ o[2] = 3 /\ o # <<>>
      <3>1. o \in Seq(Nat) /\ Len(o) \in Nat /\ Len(o) > 2 /\ o[1] = 1 /\ o[2] = 3
        BY <2>1, OidsUnderTop
      <3>2. Len(o) \in 1..Len(o) /\ Prefix(o, Len(o)) = o
        BY <3>1, PrefixOfAll
      <3>3. o \in Nodes
        BY <3>2 DEF TreeSound
      <3>4. QED
        BY <3>1, <3>3
    <2>3. QED
      BY <2>1, <2>2
  <1>3. from \in Seq(Nat)
    BY <1>1, StartsAreSequences
  <1>4. Answers(cur, next)
    <2>1. CASE cur = from
      BY <1>1, <2>1, StartAnswered
    <2>2. CASE cur \in registered
      BY <1>1, <1>2, <2>2, NodeUnderTopAnswered
    <2>3. QED
      BY <1>1, <2>1, <2>2
  <1>5. \/ next = <<>> /\ walk' = "done" /\ UNCHANGED <<cur, visited, back>>
        \/ /\ next # <<>>
           /\ cur' = OverNetwork(next)
           /\ visited' = visited \cup {<<cur', Data(next)>>}
           /\ back' = (back \/ (cur \in Nodes /\ ~Less(cur, cur')))
           /\ UNCHANGED walk
    BY DEF GetNext
  <1> HIDE DEF next
  <1>6. /\ \A o, p : Passed(o, p)' = Passed(o', p')
        /\ \A o : AllBehind(o)' = AllBehind(o')
        /\ Nodes' = Nodes
    BY <1>1 DEF Passed, AllBehind, Nodes
  <1>7. CASE next = <<>>
    <2>1. walk' = "done" /\ UNCHANGED <<cur, visited, back>>
      BY <1>5, <1>7
    <2>2. ASSUME from \in Nodes
          PROVE  visited = Bindings(AllBehind(from))
      <3>1. CASE cur = from /\ visited = {}
        <4>1. AllBehind(from) = {}
          BY <1>2, <1>4, <1>7, <2>2, <3>1 DEF Answers, AllBehind
        <4>2. QED
          BY <3>1, <4>1 DEF Bindings
      <3>2. CASE cur \in registered /\ visited = Bindings(Passed(from, cur))
        <4>1. \A r \in registered : ~Less(cur, r)
          BY <1>2, <1>4, <1>7, <3>2 DEF Answers
        <4>2. Passed(from, cur) = AllBehind(from)
          BY <1>2, <3>2, <4>1, PassedAll
        <4>3. QED
          BY <3>2, <4>2
      <3>3. QED
        BY <1>1, <2>2, <3>1, <3>2
    <2>3. /\ (walk \in {"idle", "walking", "done"})' /\ ~back'
          /\ serving' /\ (from \in Starts)'
          /\ \/ (cur = from)'
             \/ (cur \in registered)'
          /\ walk' # "walking"
          /\ (from \in Nodes)' => (visited = Bindings(AllBehind(from)))'
      BY <1>1, <1>6, <2>1, <2>2 DEF AllBehind
    <2>4. QED
      BY <2>3 DEF WalkSound
  <1>8. CASE next # <<>>
    <2>1. next \in registered
      BY <1>4, <1>8 DEF Answers
    <2>2. OverNetwork(next) = next
      BY <1>2, <2>1, OverNetworkKeeps
    <2>3. Data(next) = <<"value of", next>>
      <3>1. kids[next] = <<>>
        BY <1>2, <2>1, LeavesAreRegistered
      <3>2. QED
        BY <3>1 DEF Data
    <2>4. /\ walk' = "walking" /\ cur' = next
          /\ visited' = visited \cup {<<next, <<"value of", next>>>>}
          /\ back' = (back \/ (cur \in Nodes /\ ~Less(cur, next)))
      BY <1>1, <1>5, <1>8, <2>2, <2>3
    <2>5. cur \in Nodes => /\ Less(cur, next)
                           /\ \A r \in registered : Less(cur, r) => r = next \/ Less(next, r)
      BY <1>4, <1>8 DEF Answers
    <2>6. ASSUME from \in Nodes
          PROVE  Less(from, next) /\ visited' = Bindings(Passed(from, next))
      <3>1. CASE cur = from /\ visited = {}
        <4>1. Less(from, next) /\ Passed(from, next) = {next}
          BY <1>2, <1>3, <2>1, <2>5, <2>6, <3>1, PassedBegins
        <4>2. QED
          BY <2>4, <3>1, <4>1 DEF Bindings
      <3>2. CASE cur \in registered /\ Less(from, cur)
                 /\ visited = Bindings(Passed(from, cur))
        <4>1. cur \in Nodes
          BY <1>2, <3>2
        <4>2. Less(from, next) /\ Passed(from, next) = Passed(from, cur) \cup {next}
          BY <1>2, <1>3, <2>1, <2>5, <3>2, <4>1, PassedGrows
        <4>3. QED
          BY <2>4, <3>2, <4>2 DEF Bindings
      <3>3. QED
        BY <1>1, <2>6, <3>1, <3>2
    <2>7. /\ walk' = "walking" /\ ~back' /\ serving' /\ (from \in Starts)'
          /\ (cur \in registered)'
          /\ (from \in Nodes)' => (Less(from, cur) /\ visited = Bindings(Passed(from, cur)))'
      <3>1. from' = from /\ Nodes' = Nodes /\ registered' = registered
        BY <1>1, <1>6
      <3>2. Passed(from, cur)' = Passed(from, next)
        BY <2>4, <3>1 DEF Passed
      <3>3. Less(from, cur)' <=> Less(from, next)
        BY <2>4, <3>1
      <3>4. QED
        BY <1>1, <2>1, <2>4, <2>5, <2>6, <3>1, <3>2, <3>3 DEF Bindings
    <2>8. QED
      BY <2>7 DEF WalkSound
  <1>9. QED
    BY <1>7, <1>8

LEMMA WalkSoundNext == TreeSound /\ WalkSound /\ [AgentNext]_agentVars => WalkSound'
  <1> SUFFICES ASSUME TreeSound, WalkSound, [AgentNext]_agentVars
               PROVE  WalkSound'
    OBVIOUS
  <1>1. CASE TreeNext /\ UNCHANGED <<walk, from, cur, visited, back>>
    <2>1. ~serving
      BY <1>1 DEF TreeNext, Register, Serve
    <2>2. walk = "idle"
      BY <2>1 DEF WalkSound
    <2>3. QED
      BY <1>1, <2>2 DEF WalkSound
  <1>2. CASE StartWalk
    BY <1>2 DEF StartWalk, WalkSound, treeVars
  <1>3. CASE GetNext
    BY <1>3, WalkSoundGetNext
  <1>4. CASE UNCHANGED agentVars
    <2>1. /\ walk' = walk /\ from' = from /\ cur' = cur /\ visited' = visited
          /\ back' = back /\ registered' = registered /\ serving' = serving
          /\ kids' = kids
      BY <1>4 DEF agentVars, treeVars
    <2>2. QED
      BY <2>1 DEF WalkSound, Nodes, Passed, AllBehind, Bindings
  <1>5. QED
    BY <1>1, <1>2, <1>3, <1>4 DEF AgentNext

(***************************************************************************)
(* A walk that came to its end has seen each OID behind its start once, in *)
(* ascending order and with its value, for any OIDs under 1.3 and walks    *)
(* from anywhere, whatever their numbers take in BER.                      *)
(* (snmp-data.cpp:180-281, snmp.cpp:62-93, 264-333, snmp-elem.cpp:174-218) *)
(***************************************************************************)
THEOREM WalksAreComplete == AgentSpec => []WalkIsComplete
  <1>1. AgentSpec => []TreeSound
    BY AgentGrowsTree, TreeInvariant, PTL
  <1>2. WalkSound => WalkIsComplete
    BY DEF WalkSound, WalkIsComplete, Bindings, AllBehind
  <1>3. QED
    BY <1>1, <1>2, WalkSoundInit, WalkSoundNext, PTL DEF AgentSpec
=============================================================================

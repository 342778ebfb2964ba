------------------------------ MODULE KissProofs ------------------------------
(***************************************************************************)
(* For any frames, size of the buffer, number of frames and of failures:   *)
(* what is damaged harms no other frame, and without damage the line is    *)
(* the channel it is meant to be.                                          *)
(*                                                                         *)
(* The argument is about what the bytes on the line are going to become: a *)
(* run of the reader over all of them.  A step of the reader does not      *)
(* change the end of that run, and a frame that is written goes on from    *)
(* there.                                                                  *)
(***************************************************************************)
EXTENDS Kiss, SequenceTheorems, WellFoundedInduction, TLAPS

-----------------------------------------------------------------------------
\* Every set of natural numbers has a smallest element.
LEMMA Smallest ==
    ASSUME NEW T \in SUBSET Nat, T # {}
    PROVE  \E x \in T : \A y \in T : x <= y
  <1>1. PICK x \in T : \A y \in T : ~(<<y, x>> \in OpToRel(<, Nat))
    BY NatLessThanWellFounded, WFMin
  <1>2. \A y \in T : ~(y < x)
    BY <1>1 DEF OpToRel
  <1>3. QED
    BY <1>2

-----------------------------------------------------------------------------
(* The reader as a function of what it has and the byte it reads.          *)

States == {s \in [packet : Seq(Bytes), escape : BOOLEAN, out : Seq(Seq(Bytes))] :
              Len(s.packet) <= MaxPacketSize}

Special == {"FEND", "FESC"}

\* The reader in state s, which has queued s.out, reads c.
Taken(s, c) ==
    IF Len(s.packet) = MaxPacketSize /\ (s.escape \/ c \notin Special)
    THEN [packet |-> <<>>, escape |-> FALSE, out |-> s.out]
    ELSE IF s.escape
    THEN [packet |-> s.packet \o Unescaped(c), escape |-> FALSE, out |-> s.out]
    ELSE IF c = "FESC"
    THEN [packet |-> s.packet, escape |-> TRUE, out |-> s.out]
    ELSE IF c = "FEND"
    THEN IF s.packet = <<>> THEN s
         ELSE [packet |-> <<>>, escape |-> FALSE, out |-> Append(s.out, Tail(s.packet))]
    ELSE [packet |-> Append(s.packet, c), escape |-> FALSE, out |-> s.out]

\* s begins with all of r.
Extends(s, r) == Len(r) <= Len(s) /\ \A i \in 1..Len(r) : s[i] = r[i]

LEMMA StateParts ==
    ASSUME NEW s \in States
    PROVE  /\ s.packet \in Seq(Bytes) /\ Len(s.packet) \in Nat
           /\ Len(s.packet) <= MaxPacketSize
           /\ s.escape \in BOOLEAN
           /\ s.out \in Seq(Seq(Bytes))
           /\ s = [packet |-> s.packet, escape |-> s.escape, out |-> s.out]
  <1>1. s \in [packet : Seq(Bytes), escape : BOOLEAN, out : Seq(Seq(Bytes))]
        /\ Len(s.packet) <= MaxPacketSize
    BY DEF States
  <1>2. s.packet \in Seq(Bytes) /\ s.escape \in BOOLEAN /\ s.out \in Seq(Seq(Bytes))
    BY <1>1
  <1>3. Len(s.packet) \in Nat
    BY <1>2, LenProperties
  <1>4. QED
    BY <1>1, <1>2, <1>3

LEMMA StateOf ==
    ASSUME NEW p \in Seq(Bytes), Len(p) <= MaxPacketSize, NEW e \in BOOLEAN,
           NEW o \in Seq(Seq(Bytes))
    PROVE  [packet |-> p, escape |-> e, out |-> o] \in States
  BY DEF States

LEMMA NothingIsAState ==
    ASSUME NEW e \in BOOLEAN, NEW o \in Seq(Seq(Bytes))
    PROVE  [packet |-> <<>>, escape |-> e, out |-> o] \in States
  <1>1. <<>> \in Seq(Bytes) /\ Len(<<>>) <= MaxPacketSize
    BY KissAssumption
  <1>2. QED
    BY <1>1, StateOf

LEMMA ExtendsReflexive ==
    ASSUME NEW S, NEW r \in Seq(S)
    PROVE  Extends(r, r)
  <1>1. Len(r) \in Nat
    BY LenProperties
  <1>2. QED
    BY <1>1 DEF Extends

LEMMA ExtendsTransitive ==
    ASSUME NEW S, NEW r \in Seq(S), NEW s \in Seq(S), NEW t \in Seq(S),
           Extends(s, r), Extends(t, s)
    PROVE  Extends(t, r)
  <1>1. Len(r) \in Nat /\ Len(s) \in Nat /\ Len(t) \in Nat
    BY LenProperties
  <1>2. Len(r) <= Len(s) /\ Len(s) <= Len(t)
    BY DEF Extends
  <1>3. ASSUME NEW i \in 1..Len(r)
        PROVE  t[i] = r[i]
    <2>1. i \in 1..Len(s)
      BY <1>1, <1>2
    <2>2. QED
      BY <2>1 DEF Extends
  <1>4. QED
    BY <1>1, <1>2, <1>3 DEF Extends

LEMMA AppendExtends ==
    ASSUME NEW S, NEW r \in Seq(S), NEW x \in S
    PROVE  Append(r, x) \in Seq(S) /\ Extends(Append(r, x), r)
  <1>1. /\ Append(r, x) \in Seq(S)
        /\ Len(Append(r, x)) = Len(r) + 1
        /\ \A i \in 1..Len(r) : Append(r, x)[i] = r[i]
    BY AppendProperties
  <1>2. Len(r) \in Nat
    BY LenProperties
  <1>3. QED
    BY <1>1, <1>2 DEF Extends

\* What reading one byte does, but for the packet.
LEMMA TakenProperties ==
    ASSUME NEW s \in States, NEW c \in Bytes
    PROVE  /\ Taken(s, c) \in States
           /\ Taken(s, c).escape <=> ~s.escape /\ c = "FESC"
           /\ Extends(Taken(s, c).out, s.out)
  <1>0. MaxPacketSize \in Nat \ {0}
    BY KissAssumption
  <1>1. /\ s.packet \in Seq(Bytes) /\ Len(s.packet) \in Nat
        /\ Len(s.packet) <= MaxPacketSize
        /\ s.escape \in BOOLEAN
        /\ s.out \in Seq(Seq(Bytes))
    BY StateParts
  <1>2. Extends(s.out, s.out)
    BY <1>1, ExtendsReflexive
  <1>3. CASE Len(s.packet) = MaxPacketSize /\ (s.escape \/ c \notin Special)
    <2>1. Taken(s, c) = [packet |-> <<>>, escape |-> FALSE, out |-> s.out]
      BY <1>3 DEF Taken
    <2>2. [packet |-> <<>>, escape |-> FALSE, out |-> s.out] \in States
      BY <1>1, NothingIsAState
    <2>3. ~(~s.escape /\ c = "FESC")
      BY <1>3 DEF Special
    <2>4. Taken(s, c).escape = FALSE /\ Taken(s, c).out = s.out
      BY <2>1
    <2>5. QED
      BY <1>2, <2>1, <2>2, <2>3, <2>4, Zenon
  <1>4. CASE /\ s.escape
             /\ ~(Len(s.packet) = MaxPacketSize /\ (s.escape \/ c \notin Special))
    <2>1. Taken(s, c) = [packet |-> s.packet \o Unescaped(c), escape |-> FALSE, out |-> s.out]
      BY <1>4 DEF Taken
    <2>2. Unescaped(c) \in Seq(Bytes) /\ Len(Unescaped(c)) <= 1 /\ Len(Unescaped(c)) \in Nat
      <3>1. Unescaped(c) \in {<<"FEND">>, <<"FESC">>, <<>>}
        BY DEF Unescaped
      <3>2. <<"FEND">> \in Seq(Bytes) /\ <<"FESC">> \in Seq(Bytes) /\ <<>> \in Seq(Bytes)
        BY DEF Bytes
      <3>3. /\ Len(<<"FEND">>) <= 1 /\ Len(<<"FEND">>) \in Nat
            /\ Len(<<"FESC">>) <= 1 /\ Len(<<"FESC">>) \in Nat
            /\ Len(<<>>) <= 1 /\ Len(<<>>) \in Nat
        OBVIOUS
      <3>4. \A x \in {<<"FEND">>, <<"FESC">>, <<>>} :
               x \in Seq(Bytes) /\ Len(x) <= 1 /\ Len(x) \in Nat
        BY <3>2, <3>3, Zenon
      <3>5. QED
        BY <3>1, <3>4, Zenon
    <2> DEFINE u == Unescaped(c)
    <2> HIDE DEF u
    <2>3. s.packet \o u \in Seq(Bytes) /\ Len(s.packet \o u) = Len(s.packet) + Len(u)
      BY <1>1, <2>2, ConcatProperties DEF u
    <2>4. Len(s.packet \o u) <= MaxPacketSize
      BY <1>0, <1>1, <1>4, <2>2, <2>3 DEF u
    <2>5. [packet |-> s.packet \o u, escape |-> FALSE, out |-> s.out] \in States
      BY <1>1, <2>3, <2>4, StateOf
    <2>6. Taken(s, c) = [packet |-> s.packet \o u, escape |-> FALSE, out |-> s.out]
      BY <2>1 DEF u
    <2>7. Taken(s, c).escape = FALSE /\ Taken(s, c).out = s.out
      BY <2>6
    <2>8. QED
      BY <1>2, <1>4, <2>5, <2>6, <2>7, Zenon
  <1>5. CASE ~s.escape /\ c = "FESC"
    <2>1. Taken(s, c) = [packet |-> s.packet, escape |-> TRUE, out |-> s.out]
      BY <1>5 DEF Taken, Special
    <2>2. [packet |-> s.packet, escape |-> TRUE, out |-> s.out] \in States
      BY <1>1, StateOf
    <2>3. Taken(s, c).escape = TRUE /\ Taken(s, c).out = s.out
      BY <2>1
    <2>4. QED
      BY <1>2, <1>5, <2>1, <2>2, <2>3, Zenon
  <1>6. CASE ~s.escape /\ c = "FEND" /\ s.packet = <<>>
    <2>1. Taken(s, c) = s
      BY <1>6 DEF Taken, Special
    <2>2. c # "FESC"
      BY <1>6
    <2>3. QED
      BY <1>2, <1>6, <2>1, <2>2, Zenon
  <1>7. CASE ~s.escape /\ c = "FEND" /\ s.packet # <<>>
    <2>1. Taken(s, c) = [packet |-> <<>>, escape |-> FALSE,
                         out |-> Append(s.out, Tail(s.packet))]
      BY <1>7 DEF Taken, Special
    <2>2. Tail(s.packet) \in Seq(Bytes)
      BY <1>1, <1>7, HeadTailProperties
    <2> DEFINE o == Append(s.out, Tail(s.packet))
    <2>3. o \in Seq(Seq(Bytes)) /\ Extends(o, s.out)
      BY <1>1, <2>2, AppendExtends
    <2> HIDE DEF o
    <2>4. [packet |-> <<>>, escape |-> FALSE, out |-> o] \in States
      BY <2>3, NothingIsAState
    <2>5. Taken(s, c) = [packet |-> <<>>, escape |-> FALSE, out |-> o]
      BY <2>1 DEF o
    <2>6. Taken(s, c).escape = FALSE /\ Taken(s, c).out = o /\ c # "FESC"
      BY <1>7, <2>5
    <2>7. QED
      BY <2>3, <2>4, <2>5, <2>6, Zenon
  <1>8. CASE ~s.escape /\ c \notin Special /\ Len(s.packet) # MaxPacketSize
    <2>1. Taken(s, c) = [packet |-> Append(s.packet, c), escape |-> FALSE, out |-> s.out]
      BY <1>8 DEF Taken, Special
    <2> DEFINE p == Append(s.packet, c)
    <2>2. p \in Seq(Bytes) /\ Len(p) = Len(s.packet) + 1
      BY <1>1, AppendProperties
    <2> HIDE DEF p
    <2>3. Len(p) <= MaxPacketSize
      BY <1>0, <1>1, <1>8, <2>2
    <2>4. [packet |-> p, escape |-> FALSE, out |-> s.out] \in States
      BY <1>1, <2>2, <2>3, StateOf
    <2>5. Taken(s, c) = [packet |-> p, escape |-> FALSE, out |-> s.out]
      BY <2>1 DEF p
    <2>6. Taken(s, c).escape = FALSE /\ Taken(s, c).out = s.out /\ c # "FESC"
      BY <1>8, <2>5 DEF Special
    <2>7. QED
      BY <1>2, <2>4, <2>5, <2>6, Zenon
  <1>9. QED
    BY <1>1, <1>3, <1>4, <1>5, <1>6, <1>7, <1>8 DEF Special

-----------------------------------------------------------------------------
(* A run of the reader over the bytes b.                                   *)

IsRun(r, s, b) ==
    /\ r \in [0..Len(b) -> States]
    /\ r[0] = s
    /\ \A i \in 1..Len(b) : r[i] = Taken(r[i - 1], b[i])

LEMMA RunExists ==
    ASSUME NEW s \in States, NEW b \in Seq(Bytes)
    PROVE  \E r : IsRun(r, s, b)
  <1>0. Len(b) \in Nat /\ \A i \in 1..Len(b) : b[i] \in Bytes
    BY LenProperties, ElementOfSeq
  <1> DEFINE UpTo(r, k) == /\ r \in [0..k -> States] /\ r[0] = s
                           /\ \A i \in 1..k : r[i] = Taken(r[i - 1], b[i])
             T == {k \in 0..Len(b) : ~\E r : UpTo(r, k)}
  <1>1. ASSUME T # {}
        PROVE  FALSE
    <2>1. T \in SUBSET Nat
      BY <1>0
    <2>2. PICK k \in T : \A j \in T : k <= j
      BY <1>1, <2>1, Smallest
    <2>3. k # 0
      <3>1. UpTo([i \in 0..0 |-> s], 0)
        OBVIOUS
      <3>2. QED
        BY <2>2, <3>1
    <2>4. k \in 1..Len(b) /\ k - 1 \in 0..Len(b) /\ ~(k <= k - 1)
      BY <1>0, <2>2, <2>3
    <2>5. PICK r : UpTo(r, k - 1)
      BY <2>2, <2>4
    <2>6. k - 1 \in 0..(k - 1) /\ r[k - 1] \in States
      BY <2>4, <2>5
    <2> DEFINE n == Taken(r[k - 1], b[k])
    <2>7. n \in States
      BY <1>0, <2>4, <2>6, TakenProperties
    <2> HIDE DEF n
    <2> DEFINE q == [i \in 0..k |-> IF i = k THEN n ELSE r[i]]
    <2>8. q \in [0..k -> States]
      <3>1. \A i \in 0..k : i # k => i \in 0..(k - 1)
        BY <2>4
      <3>2. QED
        BY <2>5, <2>7, <3>1
    <2>9. q[0] = s
      BY <2>4, <2>5
    <2>10. ASSUME NEW i \in 1..k
           PROVE  q[i] = Taken(q[i - 1], b[i])
      <3>1. i \in 0..k /\ i - 1 \in 0..k /\ i - 1 # k
        BY <2>4
      <3>2. CASE i = k
        BY <3>1, <3>2 DEF n
      <3>3. CASE i # k
        <4>1. i \in 1..(k - 1)
          BY <2>4, <3>3
        <4>2. QED
          BY <2>5, <3>1, <3>3, <4>1
      <3>4. QED
        BY <3>2, <3>3
    <2>11. UpTo(q, k)
      BY <2>8, <2>9, <2>10
    <2>12. QED
      BY <2>2, <2>11
  <1>2. PICK r : UpTo(r, Len(b))
    <2>1. Len(b) \in 0..Len(b) /\ Len(b) \notin T
      BY <1>0, <1>1
    <2>2. QED
      BY <2>1
  <1>3. QED
    BY <1>2 DEF IsRun

\* A run over a and one that goes on over b make one over both.
LEMMA RunsJoin ==
    ASSUME NEW a \in Seq(Bytes), NEW b \in Seq(Bytes), NEW s, NEW r, NEW q,
           IsRun(r, s, a), IsRun(q, r[Len(a)], b)
    PROVE  \E t : IsRun(t, s, a \o b) /\ t[Len(a \o b)] = q[Len(b)]
  <1>0. Len(a) \in Nat /\ Len(b) \in Nat
    BY LenProperties
  <1>1. /\ Len(a \o b) = Len(a) + Len(b)
        /\ \A i \in 1..(Len(a) + Len(b)) :
              (a \o b)[i] = IF i <= Len(a) THEN a[i] ELSE b[i - Len(a)]
    BY ConcatProperties
  <1> DEFINE m == Len(a)
             n == Len(b)
             t == [i \in 0..(m + n) |-> IF i <= m THEN r[i] ELSE q[i - m]]
             ab == a \o b
  <1>2. /\ r \in [0..m -> States] /\ r[0] = s
        /\ \A i \in 1..m : r[i] = Taken(r[i - 1], a[i])
        /\ q \in [0..n -> States] /\ q[0] = r[m]
        /\ \A i \in 1..n : q[i] = Taken(q[i - 1], b[i])
    BY DEF IsRun
  <1>3. /\ m \in Nat /\ n \in Nat /\ Len(ab) = m + n
        /\ \A i \in 1..(m + n) : ab[i] = IF i <= m THEN a[i] ELSE b[i - m]
    BY <1>0, <1>1
  <1> HIDE DEF m, n, ab
  <1>4. t \in [0..(m + n) -> States]
    <2>1. ASSUME NEW i \in 0..(m + n)
          PROVE  t[i] \in States
      <3>1. CASE i <= m
        <4>1. i \in 0..m
          BY <1>3, <3>1
        <4>2. QED
          BY <1>2, <3>1, <4>1
      <3>2. CASE ~(i <= m)
        <4>1. i - m \in 0..n
          BY <1>3, <3>2
        <4>2. QED
          BY <1>2, <3>2, <4>1
      <3>3. QED
        BY <3>1, <3>2
    <2>2. QED
      BY <2>1
  <1>5. t[0] = s
    BY <1>2, <1>3
  <1>6. ASSUME NEW i \in 1..(m + n)
        PROVE  t[i] = Taken(t[i - 1], ab[i])
    <2>0. i \in 0..(m + n) /\ i - 1 \in 0..(m + n)
      BY <1>3
    <2>1. CASE i <= m
      <3>1. i \in 1..m /\ i - 1 <= m
        BY <1>3, <2>1
      <3>2. QED
        BY <1>2, <1>3, <2>0, <2>1, <3>1
    <2>2. CASE i = m + 1
      <3>1. 1 \in 1..n /\ i - 1 = m /\ i - m = 1 /\ ~(i <= m) /\ m <= m
        BY <1>3, <2>2
      <3>2. t[i - 1] = r[m] /\ t[i] = q[1] /\ ab[i] = b[1]
        BY <1>3, <2>0, <3>1
      <3>3. q[1] = Taken(q[1 - 1], b[1]) /\ 1 - 1 = 0
        BY <1>2, <3>1
      <3>4. QED
        BY <1>2, <3>2, <3>3
    <2>3. CASE i > m + 1
      <3>1. i - m \in 1..n /\ (i - 1) - m = (i - m) - 1 /\ ~(i <= m) /\ ~(i - 1 <= m)
        BY <1>3, <2>3
      <3>2. t[i - 1] = q[(i - m) - 1] /\ t[i] = q[i - m] /\ ab[i] = b[i - m]
        BY <1>3, <2>0, <3>1
      <3>3. QED
        BY <1>2, <3>1, <3>2
    <2>4. QED
      BY <1>3, <2>1, <2>2, <2>3
  <1>7. t[m + n] = q[n]
    <2>1. CASE n = 0
      BY <1>2, <1>3, <2>1
    <2>2. CASE n # 0
      <3>1. m + n \in 0..(m + n) /\ ~(m + n <= m) /\ (m + n) - m = n
        BY <1>3, <2>2
      <3>2. QED
        BY <3>1
    <2>3. QED
      BY <2>1, <2>2
  <1> HIDE DEF t
  <1>8. IsRun(t, s, ab) /\ t[Len(ab)] = q[n]
    BY <1>3, <1>4, <1>5, <1>6, <1>7 DEF IsRun
  <1>9. QED
    BY <1>8 DEF ab, n

\* The reader takes the first byte of a run.
LEMMA RunGoesOn ==
    ASSUME NEW b \in Seq(Bytes), b # <<>>, NEW s, NEW r, IsRun(r, s, b)
    PROVE  \E t : /\ IsRun(t, Taken(s, Head(b)), Tail(b))
                  /\ t[Len(Tail(b))] = r[Len(b)]
  <1>0. Len(b) \in Nat /\ Len(b) # 0
    BY LenProperties, EmptySeq
  <1>1. /\ Len(Tail(b)) = Len(b) - 1
        /\ \A i \in 1..(Len(b) - 1) : Tail(b)[i] = b[i + 1]
        /\ Head(b) = b[1]
    BY HeadTailProperties
  <1> DEFINE n == Len(b) - 1
             t == [i \in 0..n |-> r[i + 1]]
  <1>2. /\ r \in [0..Len(b) -> States] /\ r[0] = s
        /\ \A i \in 1..Len(b) : r[i] = Taken(r[i - 1], b[i])
    BY DEF IsRun
  <1>3. \A i \in 0..n : i + 1 \in 1..Len(b) /\ i + 1 \in 0..Len(b) /\ (i + 1) - 1 = i
    BY <1>0
  <1>4. t \in [0..n -> States]
    BY <1>2, <1>3
  <1>5. t[0] = Taken(s, b[1])
    <2>1. 0 \in 0..n /\ 0 + 1 = 1 /\ 1 \in 1..Len(b) /\ 1 - 1 = 0
      BY <1>0
    <2>2. t[0] = r[1] /\ r[1] = Taken(r[0], b[1])
      BY <1>2, <2>1
    <2>3. QED
      BY <1>2, <2>2
  <1>6. ASSUME NEW i \in 1..n
        PROVE  t[i] = Taken(t[i - 1], Tail(b)[i])
    <2>1. i \in 0..n /\ i - 1 \in 0..n /\ (i - 1) + 1 = i
      BY <1>0
    <2>2. t[i] = r[i + 1] /\ t[i - 1] = r[i] /\ Tail(b)[i] = b[i + 1]
      BY <1>1, <2>1
    <2>3. r[i + 1] = Taken(r[(i + 1) - 1], b[i + 1]) /\ (i + 1) - 1 = i
      BY <1>2, <1>3, <2>1
    <2>4. QED
      BY <2>2, <2>3
  <1>7. t[n] = r[Len(b)]
    <2>1. n \in 0..n /\ n + 1 = Len(b)
      BY <1>0
    <2>2. QED
      BY <2>1
  <1> HIDE DEF t
  <1>8. IsRun(t, Taken(s, Head(b)), Tail(b)) /\ t[Len(Tail(b))] = r[Len(b)]
    BY <1>1, <1>4, <1>5, <1>6, <1>7 DEF IsRun
  <1>9. QED
    BY <1>8

\* Nothing that was queued is lost.
LEMMA RunExtends ==
    ASSUME NEW b \in Seq(Bytes), NEW s \in States, NEW r, IsRun(r, s, b)
    PROVE  r[Len(b)] \in States /\ Extends(r[Len(b)].out, s.out)
  <1>0. Len(b) \in Nat /\ \A i \in 1..Len(b) : b[i] \in Bytes
    BY LenProperties, ElementOfSeq
  <1>1. /\ r \in [0..Len(b) -> States] /\ r[0] = s
        /\ \A i \in 1..Len(b) : r[i] = Taken(r[i - 1], b[i])
    BY DEF IsRun
  <1> DEFINE T == {k \in 0..Len(b) : ~Extends(r[k].out, s.out)}
  <1>2. ASSUME T # {}
        PROVE  FALSE
    <2>1. T \in SUBSET Nat
      BY <1>0
    <2>2. PICK k \in T : \A j \in T : k <= j
      BY <1>2, <2>1, Smallest
    <2>3. k # 0
      BY <1>1, <2>2, StateParts, ExtendsReflexive
    <2>4. k \in 1..Len(b) /\ k - 1 \in 0..Len(b) /\ ~(k <= k - 1)
      BY <1>0, <2>2, <2>3
    <2>5. Extends(r[k - 1].out, s.out)
      BY <2>2, <2>4
    <2>6. r[k - 1] \in States /\ r[k] \in States /\ b[k] \in Bytes
      BY <1>0, <1>1, <2>2, <2>4
    <2>7. Extends(r[k].out, r[k - 1].out)
      BY <1>1, <2>4, <2>6, TakenProperties
    <2>8. s.out \in Seq(Seq(Bytes)) /\ r[k - 1].out \in Seq(Seq(Bytes))
          /\ r[k].out \in Seq(Seq(Bytes))
      BY <2>6, StateParts
    <2>9. Extends(r[k].out, s.out)
      BY <2>5, <2>7, <2>8, ExtendsTransitive
    <2>10. QED
      BY <2>2, <2>9
  <1>3. Len(b) \in 0..Len(b) /\ Len(b) \notin T
    BY <1>0, <1>2
  <1>4. QED
    BY <1>1, <1>3

-----------------------------------------------------------------------------
(* What send_mkiss() writes, byte by byte.                                 *)

\* The bytes so far, which FlattenSeq defines by recursion.
BytesSoFar(f, parts, n) ==
    f = [i \in 1..n |-> IF i = 1 THEN parts[i] ELSE f[i - 1] \o parts[i]]

LEMMA BytesExist ==
    ASSUME NEW parts, NEW n \in Nat
    PROVE  \E f : BytesSoFar(f, parts, n)
  <1> DEFINE T == {k \in Nat : ~\E f : BytesSoFar(f, parts, k)}
  <1> SUFFICES ASSUME T # {} PROVE FALSE
    OBVIOUS
  <1>1. PICK k \in T : \A j \in T : k <= j
    BY Smallest
  <1>2. k # 0
    <2>1. BytesSoFar(<<>>, parts, 0)
      BY DEF BytesSoFar
    <2>2. QED
      BY <1>1, <2>1
  <1>3. k - 1 \in Nat /\ k - 1 \notin T
    BY <1>1, <1>2
  <1>4. PICK f : BytesSoFar(f, parts, k - 1)
    BY <1>3
  <1> DEFINE g == [i \in 1..k |-> IF i = k
                       THEN IF k = 1 THEN parts[k] ELSE f[k - 1] \o parts[k]
                       ELSE f[i]]
  <1>5. BytesSoFar(g, parts, k)
    <2>1. ASSUME NEW i \in 1..k
          PROVE  g[i] = IF i = 1 THEN parts[i] ELSE g[i - 1] \o parts[i]
      <3>1. CASE i = k
        BY <1>1, <1>2, <3>1
      <3>2. CASE i # k
        <4>1. i \in 1..(k - 1) /\ (i # 1 => i - 1 \in 1..k /\ i - 1 # k)
          BY <1>1, <3>2
        <4>2. f[i] = IF i = 1 THEN parts[i] ELSE f[i - 1] \o parts[i]
          BY <1>4, <4>1 DEF BytesSoFar
        <4>3. QED
          BY <3>2, <4>1, <4>2
      <3>3. QED
        BY <3>1, <3>2
    <2>2. QED
      BY <2>1 DEF BytesSoFar
  <1>6. QED
    BY <1>1, <1>5

\* The parts of a sequence of parts come one behind the other.
LEMMA FlattenPartByPart ==
    ASSUME NEW S, NEW parts \in Seq(Seq(S)), parts # <<>>
    PROVE  \E g \in [0..Len(parts) -> Seq(S)] :
              /\ g[0] = <<>>
              /\ g[Len(parts)] = FlattenSeq(parts)
              /\ \A i \in 1..Len(parts) : g[i] = g[i - 1] \o parts[i]
  <1>0. /\ Len(parts) \in Nat /\ Len(parts) >= 1
        /\ \A i \in 1..Len(parts) : parts[i] \in Seq(S)
    BY LenProperties, ElementOfSeq, EmptySeq
  <1> DEFINE G == CHOOSE f : BytesSoFar(f, parts, Len(parts))
  <1>1. BytesSoFar(G, parts, Len(parts))
    BY <1>0, BytesExist
  <1>2. FlattenSeq(parts) = G[Len(parts)]
    BY <1>0 DEF FlattenSeq, BytesSoFar
  <1> HIDE DEF G
  <1>3. ASSUME NEW i \in 1..Len(parts)
        PROVE  G[i] = IF i = 1 THEN parts[i] ELSE G[i - 1] \o parts[i]
    BY <1>1, <1>3 DEF BytesSoFar
  <1> DEFINE g == [i \in 0..Len(parts) |-> IF i = 0 THEN <<>> ELSE G[i]]
             T == {i \in 0..Len(parts) : g[i] \notin Seq(S)}
  <1>4. ASSUME NEW i \in 1..Len(parts)
        PROVE  g[i] = g[i - 1] \o parts[i]
    <2>1. i \in 0..Len(parts) /\ i - 1 \in 0..Len(parts) /\ i # 0
      BY <1>0
    <2>2. CASE i = 1
      <3>1. <<>> \o parts[i] = parts[i]
        BY <1>0, ConcatEmptySeq
      <3>2. g[i - 1] = <<>> /\ g[i] = parts[i]
        BY <1>3, <2>1, <2>2
      <3>3. QED
        BY <3>1, <3>2
    <2>3. CASE i # 1
      <3>1. i - 1 # 0
        BY <2>3
      <3>2. g[i - 1] = G[i - 1] /\ g[i] = G[i]
        BY <2>1, <3>1
      <3>3. QED
        BY <1>3, <2>3, <3>2
    <2>4. QED
      BY <2>2, <2>3
  <1>5. g[0] = <<>> /\ g[Len(parts)] = FlattenSeq(parts)
    BY <1>0, <1>2
  <1> HIDE DEF g
  <1>6. ASSUME T # {}
        PROVE  FALSE
    <2>1. T \in SUBSET Nat
      BY <1>0
    <2>2. PICK i \in T : \A j \in T : i <= j
      BY <1>6, <2>1, Smallest
    <2>3. i # 0
      <3>1. <<>> \in Seq(S)
        OBVIOUS
      <3>2. QED
        BY <1>5, <2>2, <3>1
    <2>4. i \in 1..Len(parts) /\ i - 1 \in 0..Len(parts) /\ ~(i <= i - 1)
      BY <1>0, <2>2, <2>3
    <2>5. g[i - 1] \in Seq(S)
      BY <2>2, <2>4
    <2>6. g[i - 1] \o parts[i] \in Seq(S)
      BY <1>0, <2>4, <2>5, ConcatProperties
    <2>7. g[i] \in Seq(S)
      BY <1>4, <2>4, <2>6
    <2>8. QED
      BY <2>2, <2>7
  <1>7. g \in [0..Len(parts) -> Seq(S)]
    BY <1>6 DEF g
  <1>8. QED
    BY <1>4, <1>5, <1>7

\* The command byte and the payload, each byte as it is written.
Parts(p) == [i \in 1..(Len(p) + 1) |-> Escaped(IF i = 1 THEN "NUL" ELSE p[i - 1])]

\* One byte as it is written.
IsPart(e, c) ==
    \/ c = "FEND" /\ e = <<"FESC", "TFEND">>
    \/ c = "FESC" /\ e = <<"FESC", "TFESC">>
    \/ c \notin Special /\ e = <<c>>

LEMMA PartsOfFrame ==
    ASSUME NEW p \in Seq(Bytes)
    PROVE  /\ Parts(p) \in Seq(Seq(Bytes)) /\ Len(Parts(p)) = Len(p) + 1
           /\ IsPart(Parts(p)[1], "NUL")
           /\ \A i \in 1..Len(p) : IsPart(Parts(p)[i + 1], p[i])
           /\ Encoded(p) = <<"FEND">> \o FlattenSeq(Parts(p)) \o <<"FEND">>
  <1>0. Len(p) \in Nat /\ \A i \in 1..Len(p) : p[i] \in Bytes
    BY LenProperties, ElementOfSeq
  <1>1. ASSUME NEW c \in Bytes
        PROVE  Escaped(c) \in Seq(Bytes) /\ IsPart(Escaped(c), c)
    <2>1. CASE c = "FEND"
      BY <2>1 DEF Escaped, IsPart, Bytes
    <2>2. CASE c = "FESC"
      BY <2>2 DEF Escaped, IsPart, Bytes
    <2>3. CASE c \notin Special
      <3>1. Escaped(c) = <<c>>
        BY <2>3 DEF Escaped, Special
      <3>2. <<c>> \in Seq(Bytes)
        OBVIOUS
      <3>3. QED
        BY <2>3, <3>1, <3>2 DEF IsPart
    <2>4. QED
      BY <2>1, <2>2, <2>3 DEF Special
  <1> DEFINE b(i) == IF i = 1 THEN "NUL" ELSE p[i - 1]
  <1>2. \A i \in 1..(Len(p) + 1) : b(i) \in Bytes
    <2>1. \A i \in 1..(Len(p) + 1) : i # 1 => i - 1 \in 1..Len(p)
      BY <1>0
    <2>2. "NUL" \in Bytes
      BY DEF Bytes
    <2>3. QED
      BY <1>0, <2>1, <2>2
  <1>3. Parts(p) = [i \in 1..(Len(p) + 1) |-> Escaped(b(i))]
    BY DEF Parts
  <1>4. b(1) = "NUL" /\ \A i \in 1..Len(p) : b(i + 1) = p[i]
    BY <1>0
  <1> HIDE DEF b
  <1>5. Parts(p) \in Seq(Seq(Bytes)) /\ Len(Parts(p)) = Len(p) + 1
    <2>1. \A i \in 1..(Len(p) + 1) : Escaped(b(i)) \in Seq(Bytes)
      BY <1>1, <1>2
    <2>2. QED
      BY <1>0, <1>3, <2>1
  <1>6. IsPart(Parts(p)[1], "NUL")
    <2>1. 1 \in 1..(Len(p) + 1)
      BY <1>0
    <2>2. QED
      BY <1>1, <1>2, <1>3, <1>4, <2>1
  <1>7. ASSUME NEW i \in 1..Len(p)
        PROVE  IsPart(Parts(p)[i + 1], p[i])
    <2>1. i + 1 \in 1..(Len(p) + 1)
      BY <1>0
    <2>2. QED
      BY <1>1, <1>2, <1>3, <1>4, <2>1
  <1>8. QED
    BY <1>5, <1>6, <1>7 DEF Encoded, Parts

-----------------------------------------------------------------------------
(* A FESC has a byte behind it, which is not one.                          *)

Closed(x) == \A k \in 1..Len(x) : x[k] = "FESC" => k + 1 \in 1..Len(x) /\ x[k + 1] # "FESC"

LEMMA ClosedJoin ==
    ASSUME NEW a \in Seq(Bytes), NEW b \in Seq(Bytes), Closed(a), Closed(b)
    PROVE  a \o b \in Seq(Bytes) /\ Closed(a \o b)
  <1> DEFINE m == Len(a)
             n == Len(b)
             t == a \o b
  <1>0. m \in Nat /\ n \in Nat
    BY LenProperties
  <1>1. /\ t \in Seq(Bytes) /\ Len(t) = m + n
        /\ \A i \in 1..(m + n) : t[i] = IF i <= m THEN a[i] ELSE b[i - m]
    BY ConcatProperties
  <1>2. /\ \A k \in 1..m : a[k] = "FESC" => k + 1 \in 1..m /\ a[k + 1] # "FESC"
        /\ \A k \in 1..n : b[k] = "FESC" => k + 1 \in 1..n /\ b[k + 1] # "FESC"
    BY DEF Closed
  <1> HIDE DEF m, n, t
  <1>3. ASSUME NEW k \in 1..(m + n), t[k] = "FESC"
        PROVE  k + 1 \in 1..(m + n) /\ t[k + 1] # "FESC"
    <2>1. CASE k <= m
      <3>1. k \in 1..m /\ a[k] = "FESC"
        BY <1>0, <1>1, <1>3, <2>1
      <3>2. k + 1 \in 1..m /\ a[k + 1] # "FESC"
        BY <1>2, <3>1
      <3>3. k + 1 \in 1..(m + n) /\ k + 1 <= m
        BY <1>0, <3>2
      <3>4. QED
        BY <1>1, <3>2, <3>3
    <2>2. CASE ~(k <= m)
      <3>1. k - m \in 1..n /\ b[k - m] = "FESC"
        BY <1>0, <1>1, <1>3, <2>2
      <3>2. (k - m) + 1 \in 1..n /\ b[(k - m) + 1] # "FESC"
        BY <1>2, <3>1
      <3>3. k + 1 \in 1..(m + n) /\ ~(k + 1 <= m) /\ (k + 1) - m = (k - m) + 1
        BY <1>0, <2>2, <3>2
      <3>4. QED
        BY <1>1, <3>2, <3>3
    <2>3. QED
      BY <2>1, <2>2
  <1>4. QED
    BY <1>1, <1>3 DEF Closed, t

LEMMA PartIsClosed ==
    ASSUME NEW e, NEW c, IsPart(e, c)
    PROVE  Closed(e)
  <1>1. ASSUME NEW x \in {"TFEND", "TFESC"}, e = <<"FESC", x>>
        PROVE  Closed(e)
    <2>1. Len(e) = 2 /\ e[2] = x /\ x # "FESC"
      BY <1>1
    <2>2. \A k \in 1..2 : k = 1 \/ (k = 2 /\ e[k] # "FESC")
      BY <2>1
    <2>3. 1 + 1 \in 1..2 /\ 1 + 1 = 2
      OBVIOUS
    <2>4. QED
      BY <2>1, <2>2, <2>3 DEF Closed
  <1>2. ASSUME c \notin Special, e = <<c>>
        PROVE  Closed(e)
    <2>1. Len(e) = 1 /\ e[1] = c /\ c # "FESC"
      BY <1>2 DEF Special
    <2>2. QED
      BY <2>1 DEF Closed
  <1>3. QED
    BY <1>1, <1>2 DEF IsPart

LEMMA FendIsClosed == Closed(<<"FEND">>) /\ <<"FEND">> \in Seq(Bytes)
  BY DEF Closed, Bytes

\* The frame between its two FENDs, part by part; its first byte is no FESC,
\* and neither is its last.
LEMMA FrameShape ==
    ASSUME NEW p \in Seq(Bytes)
    PROVE  /\ Encoded(p) \in Seq(Bytes)
           /\ Closed(Encoded(p))
           /\ \E g \in [0..(Len(p) + 1) -> Seq(Bytes)] :
                 /\ g[0] = <<>>
                 /\ \A i \in 1..(Len(p) + 1) : g[i] = g[i - 1] \o Parts(p)[i]
                 /\ Len(Encoded(p)) = Len(g[Len(p) + 1]) + 2
                 /\ Encoded(p)[1] = "FEND"
                 /\ \A j \in 1..Len(g[Len(p) + 1]) : Encoded(p)[j + 1] = g[Len(p) + 1][j]
                 /\ Encoded(p)[Len(g[Len(p) + 1]) + 2] = "FEND"
  <1> DEFINE n == Len(p) + 1
             parts == Parts(p)
  <1>0. Len(p) \in Nat /\ n \in Nat /\ n >= 1
    BY LenProperties
  <1>1. /\ parts \in Seq(Seq(Bytes)) /\ Len(parts) = n
        /\ IsPart(parts[1], "NUL")
        /\ \A i \in 1..Len(p) : IsPart(parts[i + 1], p[i])
        /\ Encoded(p) = <<"FEND">> \o FlattenSeq(parts) \o <<"FEND">>
    BY PartsOfFrame
  <1>2. ASSUME NEW i \in 1..n
        PROVE  parts[i] \in Seq(Bytes) /\ Closed(parts[i])
    <2>1. parts[i] \in Seq(Bytes)
      BY <1>1, ElementOfSeq
    <2>2. CASE i = 1
      BY <1>1, <2>1, <2>2, PartIsClosed
    <2>3. CASE i # 1
      <3>1. i - 1 \in 1..Len(p) /\ (i - 1) + 1 = i
        BY <1>0, <2>3
      <3>2. IsPart(parts[i], p[i - 1])
        BY <1>1, <3>1
      <3>3. QED
        BY <2>1, <3>2, PartIsClosed
    <2>4. QED
      BY <2>2, <2>3
  <1> HIDE DEF parts
  <1>3. parts # <<>>
    BY <1>0, <1>1
  <1>4. PICK g \in [0..n -> Seq(Bytes)] :
           /\ g[0] = <<>>
           /\ g[n] = FlattenSeq(parts)
           /\ \A i \in 1..n : g[i] = g[i - 1] \o parts[i]
    <2>1. \E g \in [0..Len(parts) -> Seq(Bytes)] :
             /\ g[0] = <<>>
             /\ g[Len(parts)] = FlattenSeq(parts)
             /\ \A i \in 1..Len(parts) : g[i] = g[i - 1] \o parts[i]
      <3>1. parts \in Seq(Seq(Bytes))
        BY <1>1
      <3>2. QED
        BY <1>3, <3>1, FlattenPartByPart
    <2>2. Len(parts) = n
      BY <1>1
    <2> HIDE DEF n
    <2>3. QED
      BY <2>1, <2>2
  <1> HIDE DEF n
  <1>5. Closed(g[n])
    <2> DEFINE T == {i \in 0..n : ~Closed(g[i])}
    <2>1. ASSUME T # {}
          PROVE  FALSE
      <3>1. T \in SUBSET Nat
        OBVIOUS
      <3>2. PICK i \in T : \A j \in T : i <= j
        BY <2>1, <3>1, Smallest
      <3>3. i # 0
        <4>1. Closed(<<>>)
          BY DEF Closed
        <4>2. QED
          BY <1>4, <3>2, <4>1
      <3>4. i \in 1..n /\ i - 1 \in 0..n /\ ~(i <= i - 1)
        BY <1>0, <3>2, <3>3
      <3>5. g[i - 1] \in Seq(Bytes) /\ Closed(g[i - 1])
        BY <3>2, <3>4
      <3>6. Closed(g[i - 1] \o parts[i])
        BY <1>2, <3>4, <3>5, ClosedJoin
      <3>7. g[i] = g[i - 1] \o parts[i]
        BY <1>4, <3>4
      <3>8. QED
        BY <3>2, <3>6, <3>7
    <2>2. n \in 0..n
      BY <1>0
    <2>3. QED
      BY <2>1, <2>2
  <1> DEFINE F == g[n]
             fend == <<"FEND">>
             l == Len(F)
             a == fend \o F
             e == a \o fend
  <1>6. F \in Seq(Bytes) /\ l \in Nat /\ Closed(F)
    BY <1>0, <1>4, <1>5, LenProperties
  <1>7. Encoded(p) = e
    BY <1>1, <1>4
  <1>8. fend \in Seq(Bytes) /\ Len(fend) = 1 /\ fend[1] = "FEND" /\ Closed(fend)
    BY FendIsClosed
  <1> HIDE DEF F, fend, l
  <1>9. a \in Seq(Bytes) /\ Closed(a)
    BY <1>6, <1>8, ClosedJoin
  <1>10. /\ Len(a) = 1 + l
         /\ \A i \in 1..(1 + l) : a[i] = IF i <= 1 THEN fend[i] ELSE F[i - 1]
    <2>1. /\ Len(fend \o F) = Len(fend) + Len(F)
          /\ \A i \in 1..(Len(fend) + Len(F)) :
                (fend \o F)[i] = IF i <= Len(fend) THEN fend[i] ELSE F[i - Len(fend)]
      BY <1>6, <1>8, ConcatProperties
    <2>2. Len(fend) = 1 /\ Len(F) = l
      BY <1>8 DEF l
    <2>3. QED
      BY <2>1, <2>2
  <1> HIDE DEF a
  <1>11. e \in Seq(Bytes) /\ Closed(e)
    BY <1>8, <1>9, ClosedJoin
  <1>12. /\ Len(e) = (1 + l) + 1
         /\ \A i \in 1..((1 + l) + 1) : e[i] = IF i <= 1 + l THEN a[i] ELSE fend[i - (1 + l)]
    <2>1. /\ Len(a \o fend) = Len(a) + Len(fend)
          /\ \A i \in 1..(Len(a) + Len(fend)) :
                (a \o fend)[i] = IF i <= Len(a) THEN a[i] ELSE fend[i - Len(a)]
      BY <1>8, <1>9, ConcatProperties
    <2>2. Len(fend) = 1 /\ Len(a) = 1 + l
      BY <1>8, <1>10
    <2>3. QED
      BY <2>1, <2>2
  <1> HIDE DEF e
  <1>13. Len(e) = l + 2
    BY <1>6, <1>12
  <1>14. e[1] = "FEND"
    <2>1. 1 \in 1..((1 + l) + 1) /\ 1 <= 1 + l /\ 1 \in 1..(1 + l)
      BY <1>6
    <2>2. e[1] = a[1] /\ a[1] = fend[1]
      BY <1>10, <1>12, <2>1
    <2>3. QED
      BY <1>8, <2>2
  <1>15. ASSUME NEW j \in 1..l
         PROVE  e[j + 1] = F[j]
    <2>1. /\ j + 1 \in 1..((1 + l) + 1) /\ j + 1 <= 1 + l /\ j + 1 \in 1..(1 + l)
          /\ ~(j + 1 <= 1) /\ (j + 1) - 1 = j
      BY <1>6
    <2>2. e[j + 1] = a[j + 1] /\ a[j + 1] = F[(j + 1) - 1]
      BY <1>10, <1>12, <2>1
    <2>3. QED
      BY <2>1, <2>2
  <1>16. e[l + 2] = "FEND"
    <2>1. /\ l + 2 \in 1..((1 + l) + 1) /\ ~(l + 2 <= 1 + l)
          /\ (l + 2) - (1 + l) = 1
      BY <1>6
    <2>2. e[l + 2] = fend[1]
      BY <1>12, <2>1
    <2>3. QED
      BY <1>8, <2>2
  <1>17. QED
    <2>1. Encoded(p) \in Seq(Bytes) /\ Closed(Encoded(p))
      BY <1>7, <1>11
    <2>2. /\ Len(Encoded(p)) = Len(g[n]) + 2
          /\ Encoded(p)[1] = "FEND"
          /\ \A j \in 1..Len(g[n]) : Encoded(p)[j + 1] = g[n][j]
          /\ Encoded(p)[Len(g[n]) + 2] = "FEND"
      BY <1>7, <1>13, <1>14, <1>15, <1>16 DEF F, l
    <2>3. QED
      BY <1>4, <2>1, <2>2 DEF n, parts

-----------------------------------------------------------------------------
(* What the reader makes of a frame.                                       *)

\* Within a frame the reader is behind a FESC just if one was read last,
\* however it was when the frame began.
LEMMA EscapeWithinFrame ==
    ASSUME NEW p \in Seq(Bytes), NEW n \in 1..Len(Encoded(p)),
           NEW s \in States, NEW r, IsRun(r, s, SubSeq(Encoded(p), 1, n))
    PROVE  /\ SubSeq(Encoded(p), 1, n) \in Seq(Bytes)
           /\ Len(SubSeq(Encoded(p), 1, n)) = n
           /\ r[n].escape <=> Encoded(p)[n] = "FESC"
  <1> DEFINE e == Encoded(p)
             b == SubSeq(e, 1, n)
  <1>1. e \in Seq(Bytes) /\ Closed(e) /\ e[1] = "FEND"
    BY FrameShape
  <1>2. Len(e) \in Nat /\ n \in 1..Len(e) /\ \A i \in 1..Len(e) : e[i] \in Bytes
    BY <1>1, LenProperties, ElementOfSeq
  <1>3. IsRun(r, s, b)
    OBVIOUS
  <1> HIDE DEF e
  <1>4. b \in Seq(Bytes) /\ Len(b) = n /\ \A i \in 1..n : b[i] = e[i]
    BY <1>2, SubSeqProperties
  <1> HIDE DEF b
  <1>5. /\ r \in [0..n -> States] /\ r[0] = s
        /\ \A i \in 1..n : r[i] = Taken(r[i - 1], e[i])
    BY <1>3, <1>4 DEF IsRun
  <1>6. ASSUME NEW i \in 1..n
        PROVE  r[i].escape <=> ~r[i - 1].escape /\ e[i] = "FESC"
    <2>1. i - 1 \in 0..n /\ i \in 1..Len(e)
      BY <1>2
    <2>2. r[i - 1] \in States /\ e[i] \in Bytes
      BY <1>2, <1>5, <2>1
    <2>3. QED
      BY <1>5, <2>2, TakenProperties
  <1>7. ASSUME e[n] = "FESC"
        PROVE  ~r[n - 1].escape
    <2>1. n # 1
      BY <1>1, <1>7
    <2>2. n - 1 \in 1..n /\ n - 1 \in 1..Len(e) /\ (n - 1) + 1 = n
      BY <1>2, <2>1
    <2>3. e[n - 1] # "FESC"
      BY <1>1, <1>7, <2>2 DEF Closed
    <2>4. QED
      BY <1>6, <2>2, <2>3
  <1>8. n \in 1..n
    BY <1>2
  <1>9. r[n].escape <=> e[n] = "FESC"
    BY <1>6, <1>7, <1>8
  <1>10. QED
    BY <1>4, <1>9 DEF e, b

\* A byte of a frame goes into the packet, escaped or not.
LEMMA PartIsRead ==
    ASSUME NEW t \in States, ~t.escape, Len(t.packet) < MaxPacketSize,
           NEW c \in Bytes, NEW e, IsPart(e, c)
    PROVE  \/ /\ Len(e) = 1
              /\ Taken(t, e[1])
                    = [packet |-> Append(t.packet, c), escape |-> FALSE, out |-> t.out]
           \/ /\ Len(e) = 2
              /\ Taken(Taken(t, e[1]), e[2])
                    = [packet |-> Append(t.packet, c), escape |-> FALSE, out |-> t.out]
  <1>0. /\ t.packet \in Seq(Bytes) /\ Len(t.packet) \in Nat
        /\ MaxPacketSize \in Nat
    BY StateParts, KissAssumption
  <1>1. Len(t.packet) # MaxPacketSize
    BY <1>0
  <1>2. ASSUME c \notin Special, e = <<c>>
        PROVE  /\ Len(e) = 1
               /\ Taken(t, e[1])
                    = [packet |-> Append(t.packet, c), escape |-> FALSE, out |-> t.out]
    <2>1. Len(e) = 1 /\ e[1] = c /\ c # "FESC" /\ c # "FEND"
      BY <1>2 DEF Special
    <2>2. QED
      BY <1>1, <2>1 DEF Taken
  <1>3. ASSUME NEW x, Unescaped(x) = <<c>>, e = <<"FESC", x>>
        PROVE  /\ Len(e) = 2
               /\ Taken(Taken(t, e[1]), e[2])
                    = [packet |-> Append(t.packet, c), escape |-> FALSE, out |-> t.out]
    <2>1. Len(e) = 2 /\ e[1] = "FESC" /\ e[2] = x
      BY <1>3
    <2>2. Taken(t, "FESC") = [packet |-> t.packet, escape |-> TRUE, out |-> t.out]
      BY <1>1 DEF Taken, Special
    <2> DEFINE u == Taken(t, "FESC")
    <2>3. u.packet = t.packet /\ u.escape = TRUE /\ u.out = t.out
      BY <2>2
    <2> HIDE DEF u
    <2>4. Taken(u, x) = [packet |-> t.packet \o Unescaped(x), escape |-> FALSE, out |-> t.out]
      BY <1>1, <2>3 DEF Taken
    <2>5. t.packet \o <<c>> = Append(t.packet, c)
      BY <1>0, AppendIsConcat
    <2>6. QED
      BY <1>3, <2>1, <2>4, <2>5 DEF u
  <1>4. Unescaped("TFEND") = <<"FEND">> /\ Unescaped("TFESC") = <<"FESC">>
    BY DEF Unescaped
  <1>5. CASE c = "FEND" /\ e = <<"FESC", "TFEND">>
    BY <1>3, <1>4, <1>5
  <1>6. CASE c = "FESC" /\ e = <<"FESC", "TFESC">>
    BY <1>3, <1>4, <1>6
  <1>7. QED
    BY <1>2, <1>5, <1>6 DEF IsPart

\* The reader makes a frame that fits out of what is written for it; what was
\* left over from before becomes a frame of its own, if it was anything.
LEMMA FrameComesOut ==
    ASSUME NEW p \in Seq(Bytes), Len(p) < MaxPacketSize,
           NEW s \in States, ~s.escape, NEW q, IsRun(q, s, Encoded(p))
    PROVE  LET last == q[Len(Encoded(p))]
           IN  /\ last.packet = <<>> /\ ~last.escape
               /\ \E o \in Seq(Seq(Bytes)) : /\ Extends(o, s.out)
                                             /\ s.packet = <<>> => o = s.out
                                             /\ last.out = Append(o, p)
  <1> DEFINE e == Encoded(p)
             n == Len(p) + 1
  <1>0. Len(p) \in Nat /\ n \in Nat /\ n >= 1 /\ MaxPacketSize \in Nat /\ n <= MaxPacketSize
    BY LenProperties, KissAssumption
  <1>1. e \in Seq(Bytes)
    BY FrameShape
  <1>2. PICK g \in [0..n -> Seq(Bytes)] :
           /\ g[0] = <<>>
           /\ \A i \in 1..n : g[i] = g[i - 1] \o Parts(p)[i]
           /\ Len(e) = Len(g[n]) + 2
           /\ e[1] = "FEND"
           /\ \A j \in 1..Len(g[n]) : e[j + 1] = g[n][j]
           /\ e[Len(g[n]) + 2] = "FEND"
    BY FrameShape
  <1>3. /\ q \in [0..Len(e) -> States] /\ q[0] = s
        /\ \A i \in 1..Len(e) : q[i] = Taken(q[i - 1], e[i])
    BY DEF IsRun
  <1>4. /\ Parts(p) \in Seq(Seq(Bytes)) /\ Len(Parts(p)) = n
        /\ IsPart(Parts(p)[1], "NUL")
        /\ \A i \in 1..Len(p) : IsPart(Parts(p)[i + 1], p[i])
    BY PartsOfFrame
  <1> DEFINE w(i) == IF i = 1 THEN "NUL" ELSE p[i - 1]
             part(i) == Parts(p)[i]
  <1>5. ASSUME NEW i \in 1..n
        PROVE  w(i) \in Bytes /\ IsPart(part(i), w(i)) /\ part(i) \in Seq(Bytes)
    <2>1. part(i) \in Seq(Bytes)
      BY <1>4, ElementOfSeq
    <2>2. CASE i = 1
      <3>1. "NUL" \in Bytes
        BY DEF Bytes
      <3>2. QED
        BY <1>4, <2>1, <2>2, <3>1
    <2>3. CASE i # 1
      <3>1. i - 1 \in 1..Len(p) /\ (i - 1) + 1 = i
        BY <1>0, <2>3
      <3>2. p[i - 1] \in Bytes
        BY <3>1, ElementOfSeq
      <3>3. IsPart(part(i), p[i - 1])
        BY <1>4, <3>1
      <3>4. QED
        BY <2>1, <2>3, <3>2, <3>3
    <2>4. QED
      BY <2>2, <2>3
  <1> HIDE DEF e, n, w, part
  <1>6. \A i \in 0..n : g[i] \in Seq(Bytes) /\ Len(g[i]) \in Nat
    BY <1>2, LenProperties
  <1>7. ASSUME NEW i \in 1..n
        PROVE  /\ Len(g[i]) = Len(g[i - 1]) + Len(part(i))
               /\ Extends(g[i], g[i - 1])
               /\ \A j \in 1..Len(part(i)) : g[i][Len(g[i - 1]) + j] = part(i)[j]
    <2>1. i \in 0..n /\ i - 1 \in 0..n
      BY <1>0
    <2> DEFINE a == g[i - 1]
               b == part(i)
    <2>2. a \in Seq(Bytes) /\ Len(a) \in Nat /\ b \in Seq(Bytes) /\ Len(b) \in Nat
      BY <1>5, <1>6, <2>1, LenProperties
    <2>3. g[i] = a \o b
      BY <1>2 DEF part
    <2> HIDE DEF a, b
    <2>4. /\ Len(a \o b) = Len(a) + Len(b)
          /\ \A j \in 1..(Len(a) + Len(b)) :
                (a \o b)[j] = IF j <= Len(a) THEN a[j] ELSE b[j - Len(a)]
      BY <2>2, ConcatProperties
    <2>5. Extends(a \o b, a)
      <3>1. \A j \in 1..Len(a) : j \in 1..(Len(a) + Len(b)) /\ j <= Len(a)
        BY <2>2
      <3>2. QED
        BY <2>2, <2>4, <3>1 DEF Extends
    <2>6. ASSUME NEW j \in 1..Len(b)
          PROVE  (a \o b)[Len(a) + j] = b[j]
      <3>1. /\ Len(a) + j \in 1..(Len(a) + Len(b)) /\ ~(Len(a) + j <= Len(a))
            /\ (Len(a) + j) - Len(a) = j
        BY <2>2
      <3>2. QED
        BY <2>4, <3>1
    <2>7. QED
      BY <2>3, <2>4, <2>5, <2>6 DEF a, b
  <1>8. \A i \in 0..n : Extends(g[n], g[i])
    <2> DEFINE T == {d \in 0..n : ~Extends(g[n], g[n - d])}
    <2>1. ASSUME T # {}
          PROVE  FALSE
      <3>1. T \in SUBSET Nat
        OBVIOUS
      <3>2. PICK d \in T : \A c \in T : d <= c
        BY <2>1, <3>1, Smallest
      <3>3. d # 0
        <4>1. g[n] \in Seq(Bytes) /\ n - 0 = n
          BY <1>0, <1>6
        <4>2. QED
          BY <3>2, <4>1, ExtendsReflexive
      <3>4. /\ d - 1 \in 0..n /\ ~(d <= d - 1) /\ n - (d - 1) \in 1..n
            /\ (n - (d - 1)) - 1 = n - d /\ n - (d - 1) \in 0..n /\ n - d \in 0..n /\ n \in 0..n
        BY <1>0, <3>2, <3>3
      <3>5. Extends(g[n], g[n - (d - 1)])
        BY <3>2, <3>4
      <3>6. Extends(g[n - (d - 1)], g[n - d])
        BY <1>7, <3>4
      <3>7. g[n] \in Seq(Bytes) /\ g[n - (d - 1)] \in Seq(Bytes) /\ g[n - d] \in Seq(Bytes)
        BY <1>6, <3>4
      <3>8. QED
        BY <3>2, <3>5, <3>6, <3>7, ExtendsTransitive
    <2>2. ASSUME NEW i \in 0..n
          PROVE  Extends(g[n], g[i])
      <3>1. n - i \in 0..n /\ n - (n - i) = i
        BY <1>0
      <3>2. n - i \notin T
        BY <2>1
      <3>3. QED
        BY <3>1, <3>2
    <2>3. QED
      BY <2>2
  <1> DEFINE at(i) == 1 + Len(g[i])
             f == q[1]
  <1>9. /\ n \in 0..n
        /\ \A i \in 0..n : at(i) \in 1..(Len(e) - 1) /\ at(i) \in 0..Len(e)
        /\ 0 \in 0..Len(e) /\ 1 \in 1..Len(e) /\ 1 \in 0..Len(e) /\ Len(e) \in 1..Len(e)
        /\ Len(e) \in 0..Len(e) /\ at(n) = Len(e) - 1 /\ Len(e) \in Nat
    <2>1. n \in 0..n /\ Len(g[n]) \in Nat /\ Len(e) = Len(g[n]) + 2
      BY <1>0, <1>2, <1>6
    <2>2. \A i \in 0..n : Len(g[i]) \in Nat /\ Len(g[i]) <= Len(g[n])
      BY <1>6, <1>8 DEF Extends
    <2>3. QED
      BY <2>1, <2>2
  <1>10. ASSUME NEW i \in 1..n, NEW j \in 1..Len(part(i))
         PROVE  /\ e[at(i - 1) + j] = part(i)[j]
                /\ at(i - 1) + j \in 1..Len(e)
                /\ at(i) = at(i - 1) + Len(part(i))
    <2>1. i \in 0..n /\ i - 1 \in 0..n /\ part(i) \in Seq(Bytes)
      BY <1>0, <1>5
    <2>2. Len(g[i - 1]) \in Nat /\ Len(g[i]) \in Nat /\ Len(part(i)) \in Nat
          /\ Len(g[n]) \in Nat
      BY <1>6, <1>9, <2>1, LenProperties
    <2>3. Len(g[i - 1]) + j \in 1..Len(g[i])
      BY <1>7, <2>2
    <2>4. Len(g[i]) <= Len(g[n]) /\ g[n][Len(g[i - 1]) + j] = g[i][Len(g[i - 1]) + j]
      BY <1>8, <2>1, <2>3 DEF Extends
    <2>5. Len(g[i - 1]) + j \in 1..Len(g[n])
      BY <2>2, <2>3, <2>4
    <2>6. e[(Len(g[i - 1]) + j) + 1] = part(i)[j]
      BY <1>2, <1>7, <2>4, <2>5
    <2>7. (Len(g[i - 1]) + j) + 1 = at(i - 1) + j
      BY <2>2
    <2>8. at(i - 1) + j \in 1..Len(e)
      BY <1>2, <2>2, <2>5, <2>7
    <2>9. at(i) = at(i - 1) + Len(part(i))
      <3>1. Len(g[i]) = Len(g[i - 1]) + Len(part(i))
        BY <1>7
      <3> DEFINE x == Len(g[i])
                 y == Len(g[i - 1])
                 z == Len(part(i))
      <3>2. x = y + z /\ x \in Nat /\ y \in Nat /\ z \in Nat
        BY <2>2, <3>1
      <3> HIDE DEF x, y, z
      <3>3. 1 + x = (1 + y) + z
        BY <3>2
      <3>4. QED
        BY <3>3 DEF x, y, z
    <2>10. QED
      BY <2>6, <2>7, <2>8, <2>9
  \* The first FEND.
  <1>11. /\ f \in States /\ f.packet = <<>> /\ ~f.escape
         /\ f.out \in Seq(Seq(Bytes)) /\ Extends(f.out, s.out)
         /\ s.packet = <<>> => f.out = s.out
    <2>1. f = Taken(s, "FEND") /\ f \in States
      <3>1. 1 \in 1..Len(e) /\ 1 \in 0..Len(e) /\ 1 - 1 = 0
        BY <1>9
      <3>2. q[1] = Taken(q[1 - 1], e[1])
        BY <1>3, <3>1
      <3>3. q[1] \in States
        BY <1>3, <3>1
      <3>4. e[1] = "FEND" /\ q[0] = s
        BY <1>2, <1>3
      <3>5. QED
        BY <3>1, <3>2, <3>3, <3>4
    <2> HIDE DEF f
    <2>2. "FEND" \in Bytes /\ "FEND" \in Special /\ "FEND" # "FESC"
      BY DEF Bytes, Special
    <2>3. ~f.escape /\ Extends(f.out, s.out)
      BY <2>1, <2>2, TakenProperties
    <2>4. f.packet = <<>> /\ (s.packet = <<>> => f.out = s.out)
      BY <2>1, <2>2 DEF Taken
    <2>5. f.out \in Seq(Seq(Bytes))
      BY <2>1, StateParts
    <2>6. QED
      BY <2>1, <2>3, <2>4, <2>5
  <1> DEFINE Good(i) ==
                /\ q[at(i)].escape = FALSE
                /\ q[at(i)].out = f.out
                /\ Len(q[at(i)].packet) = i
                /\ \A j \in 1..i : q[at(i)].packet[j] = w(j)
             T == {i \in 0..n : ~Good(i)}
  <1>12. ASSUME T # {}
         PROVE  FALSE
    <2>1. T \in SUBSET Nat
      OBVIOUS
    <2>2. PICK i \in T : \A j \in T : i <= j
      BY <1>12, <2>1, Smallest
    <2>3. i # 0
      <3>1. at(0) = 1
        BY <1>2
      <3>2. f.escape = FALSE
        BY <1>11, StateParts
      <3>3. Good(0)
        BY <1>11, <3>1, <3>2
      <3>4. QED
        BY <2>2, <3>3
    <2>4. i \in 1..n /\ i - 1 \in 0..n /\ ~(i <= i - 1) /\ i \in 0..n
      BY <1>0, <2>2, <2>3
    <2>5. Good(i - 1)
      BY <2>2, <2>4
    <2> DEFINE t == q[at(i - 1)]
               x == at(i - 1)
               c == w(i)
               d == part(i)
    <2>6. t \in States /\ x \in Nat
      BY <1>3, <1>9, <2>4
    <2>7. /\ t.escape = FALSE /\ t.out = f.out /\ Len(t.packet) = i - 1
          /\ \A j \in 1..(i - 1) : t.packet[j] = w(j)
      BY <2>5
    <2>8. c \in Bytes /\ IsPart(d, c) /\ d \in Seq(Bytes) /\ Len(d) \in Nat
      BY <1>5, <2>4, LenProperties
    <2>9. /\ \A j \in 1..Len(d) : e[x + j] = d[j] /\ x + j \in 1..Len(e)
          /\ Len(d) # 0 => at(i) = x + Len(d)
      <3>1. \A j \in 1..Len(d) : e[x + j] = d[j] /\ x + j \in 1..Len(e) /\ at(i) = x + Len(d)
        BY <1>10, <2>4
      <3>2. Len(d) # 0 => 1 \in 1..Len(d)
        BY <2>8
      <3>3. QED
        BY <3>1, <3>2
    <2>10. Len(t.packet) < MaxPacketSize
      BY <1>0, <2>4, <2>7
    <2> DEFINE u == [packet |-> Append(t.packet, c), escape |-> FALSE, out |-> t.out]
    <2> HIDE DEF at, t, x, c, d, Good
    <2>11. \/ Len(d) = 1 /\ Taken(t, d[1]) = u
           \/ Len(d) = 2 /\ Taken(Taken(t, d[1]), d[2]) = u
      BY <2>6, <2>7, <2>8, <2>10, PartIsRead
    <2> HIDE DEF u
    <2>12. q[x] = t
      BY DEF t, x
    <2>13. q[at(i)] = u
      <3>1. ASSUME Len(d) = 1, Taken(t, d[1]) = u
            PROVE  q[at(i)] = u
        <4>1. 1 \in 1..Len(d) /\ at(i) = x + 1
          BY <2>9, <3>1
        <4>2. e[x + 1] = d[1] /\ x + 1 \in 1..Len(e) /\ (x + 1) - 1 = x
          BY <2>6, <2>9, <4>1
        <4>3. q[x + 1] = Taken(q[(x + 1) - 1], e[x + 1])
          BY <1>3, <4>2
        <4>4. QED
          BY <2>12, <3>1, <4>1, <4>2, <4>3
      <3>2. ASSUME Len(d) = 2, Taken(Taken(t, d[1]), d[2]) = u
            PROVE  q[at(i)] = u
        <4>1. 1 \in 1..Len(d) /\ 2 \in 1..Len(d) /\ at(i) = x + 2
          BY <2>9, <3>2
        <4>2. /\ e[x + 1] = d[1] /\ x + 1 \in 1..Len(e) /\ (x + 1) - 1 = x
              /\ e[x + 2] = d[2] /\ x + 2 \in 1..Len(e) /\ (x + 2) - 1 = x + 1
          BY <2>6, <2>9, <4>1
        <4>3. q[x + 1] = Taken(q[(x + 1) - 1], e[x + 1])
          BY <1>3, <4>2
        <4>4. q[x + 2] = Taken(q[(x + 2) - 1], e[x + 2])
          BY <1>3, <4>2
        <4>5. QED
          BY <2>12, <3>2, <4>1, <4>2, <4>3, <4>4
      <3>3. QED
        BY <2>11, <3>1, <3>2
    <2>14. t.packet \in Seq(Bytes)
      BY <2>6, StateParts
    <2> DEFINE y == Append(t.packet, c)
    <2>15. /\ Len(y) = Len(t.packet) + 1
           /\ \A j \in 1..Len(t.packet) : y[j] = t.packet[j]
           /\ y[Len(t.packet) + 1] = c
      BY <2>8, <2>14, AppendProperties
    <2>16. u.packet = y /\ u.escape = FALSE /\ u.out = t.out
      BY DEF u
    <2> HIDE DEF y
    <2>17. Len(y) = i /\ y[i] = w(i) /\ \A j \in 1..(i - 1) : y[j] = w(j)
      <3>1. (i - 1) + 1 = i
        BY <2>4
      <3>2. QED
        BY <2>7, <2>15, <3>1 DEF c
    <2>18. \A j \in 1..i : y[j] = w(j)
      <3>1. \A j \in 1..i : j = i \/ j \in 1..(i - 1)
        BY <2>4
      <3>2. QED
        BY <2>17, <3>1
    <2>19. Good(i)
      BY <2>7, <2>13, <2>16, <2>17, <2>18 DEF Good
    <2>20. QED
      BY <2>2, <2>19
  \* The last FEND.
  <1>13. Good(n)
    BY <1>9, <1>12
  <1> DEFINE t == q[at(n)]
  <1>14. t \in States /\ t.packet \in Seq(Bytes)
    BY <1>3, <1>9, StateParts
  <1>15. /\ t.escape = FALSE /\ t.out = f.out /\ Len(t.packet) = n
         /\ \A j \in 1..n : t.packet[j] = w(j)
    BY <1>13
  <1>16. q[Len(e)] = Taken(t, "FEND")
    <2>1. q[Len(e)] = Taken(q[Len(e) - 1], e[Len(e)])
      BY <1>3, <1>9
    <2>2. e[Len(e)] = "FEND" /\ Len(e) - 1 = at(n)
      BY <1>2, <1>9
    <2>3. QED
      BY <2>1, <2>2
  <1> HIDE DEF t, f
  <1>17. t.packet # <<>>
    BY <1>0, <1>15
  <1>18. Taken(t, "FEND") = [packet |-> <<>>, escape |-> FALSE,
                             out |-> Append(f.out, Tail(t.packet))]
    BY <1>15, <1>17 DEF Taken, Special
  <1>19. Tail(t.packet) = p
    <2>1. /\ Tail(t.packet) \in Seq(Bytes)
          /\ Len(Tail(t.packet)) = Len(t.packet) - 1
          /\ \A j \in 1..Len(Tail(t.packet)) : Tail(t.packet)[j] = t.packet[j + 1]
      BY <1>14, <1>17, HeadTailProperties
    <2>2. Len(Tail(t.packet)) = Len(p)
      BY <1>0, <1>15, <2>1 DEF n
    <2>3. ASSUME NEW j \in 1..Len(p)
          PROVE  Tail(t.packet)[j] = p[j]
      <3>1. j + 1 \in 1..n /\ j + 1 # 1 /\ (j + 1) - 1 = j
        BY <1>0 DEF n
      <3>2. w(j + 1) = p[j]
        BY <3>1 DEF w
      <3>3. QED
        BY <1>15, <2>1, <2>2, <3>1, <3>2
    <2>4. QED
      BY <2>1, <2>2, <2>3, SeqEqual
  <1>20. q[Len(e)] = [packet |-> <<>>, escape |-> FALSE, out |-> Append(f.out, p)]
    BY <1>16, <1>18, <1>19
  <1>21. QED
    <2>1. /\ q[Len(e)].packet = <<>> /\ ~q[Len(e)].escape
          /\ q[Len(e)].out = Append(f.out, p)
      BY <1>20
    <2>2. QED
      BY <1>11, <2>1 DEF e

\* The last byte of a frame is no FESC.
LEMMA FrameEnds ==
    ASSUME NEW p \in Seq(Bytes), NEW s \in States, NEW q, IsRun(q, s, Encoded(p))
    PROVE  ~q[Len(Encoded(p))].escape
  <1> DEFINE e == Encoded(p)
             n == Len(e)
  <1>1. e \in Seq(Bytes)
    BY FrameShape
  <1>2. n \in 1..n /\ e[n] = "FEND" /\ n \in Nat
    <2>1. PICK g \in [0..(Len(p) + 1) -> Seq(Bytes)] :
             Len(e) = Len(g[Len(p) + 1]) + 2 /\ e[Len(g[Len(p) + 1]) + 2] = "FEND"
      BY FrameShape
    <2>2. Len(g[Len(p) + 1]) \in Nat
      <3>1. Len(p) + 1 \in 0..(Len(p) + 1)
        BY LenProperties
      <3>2. QED
        BY <3>1, LenProperties
    <2>3. QED
      BY <2>1, <2>2
  <1>3. SubSeq(e, 1, n) = e
    <2>1. /\ SubSeq(e, 1, n) \in Seq(Bytes) /\ Len(SubSeq(e, 1, n)) = n
          /\ \A i \in 1..n : SubSeq(e, 1, n)[i] = e[i]
      BY <1>1, <1>2, SubSeqProperties
    <2>2. QED
      BY <1>1, <2>1, SeqEqual
  <1>4. IsRun(q, s, SubSeq(e, 1, n))
    BY <1>3
  <1>5. q[n].escape <=> e[n] = "FESC"
    BY <1>2, <1>4, EscapeWithinFrame
  <1>6. QED
    BY <1>2, <1>5

-----------------------------------------------------------------------------
(* The places of the frames that fit.                                      *)

LEMMA FittingStay ==
    ASSUME NEW s, NEW S, NEW r \in Seq(S), NEW t \in Seq(S), Extends(t, r),
           AllFitting(s, r)
    PROVE  AllFitting(s, t)
  <1>1. PICK at \in [{i \in DOMAIN s : Fits(s[i])} -> DOMAIN r] :
           /\ \A i \in DOMAIN at : r[at[i]] = s[i].payload
           /\ \A i, j \in DOMAIN at : i < j => at[i] < at[j]
    BY DEF AllFitting
  <1>2. /\ DOMAIN r = 1..Len(r) /\ DOMAIN t = 1..Len(t)
        /\ Len(r) \in Nat /\ Len(t) \in Nat
    BY LenProperties
  <1>3. \A k \in DOMAIN r : k \in DOMAIN t /\ t[k] = r[k]
    BY <1>2 DEF Extends
  <1>4. at \in [{i \in DOMAIN s : Fits(s[i])} -> DOMAIN t]
    BY <1>1, <1>3
  <1>5. \A i \in DOMAIN at : t[at[i]] = s[i].payload
    BY <1>1, <1>3
  <1>6. QED
    BY <1>1, <1>4, <1>5 DEF AllFitting

LEMMA OneMore ==
    ASSUME NEW R, NEW s \in Seq(R), NEW x \in R
    PROVE  /\ DOMAIN s = 1..Len(s) /\ Len(s) \in Nat
           /\ DOMAIN Append(s, x) = 1..(Len(s) + 1)
           /\ \A i \in DOMAIN s : Append(s, x)[i] = s[i] /\ i # Len(s) + 1
           /\ Append(s, x)[Len(s) + 1] = x
           /\ \A i \in 1..(Len(s) + 1) : i \in DOMAIN s \/ i = Len(s) + 1
           /\ \A i \in DOMAIN s : i \in 1..(Len(s) + 1)
           /\ Len(s) + 1 \in 1..(Len(s) + 1)
           /\ Len(s) + 1 \notin DOMAIN s
  <1>1. /\ Append(s, x) \in Seq(R)
        /\ Len(Append(s, x)) = Len(s) + 1
        /\ \A i \in 1..Len(s) : Append(s, x)[i] = s[i]
        /\ Append(s, x)[Len(s) + 1] = x
    BY AppendProperties
  <1>2. Len(s) \in Nat /\ DOMAIN s = 1..Len(s)
    BY LenProperties
  <1>3. DOMAIN Append(s, x) = 1..(Len(s) + 1)
    <2>1. DOMAIN Append(s, x) = 1..Len(Append(s, x))
      BY <1>1, LenProperties
    <2>2. QED
      BY <1>1, <2>1
  <1>4. QED
    BY <1>1, <1>2, <1>3

\* A frame that does not fit needs no place.
LEMMA FittingSkip ==
    ASSUME NEW R, NEW s \in Seq(R), NEW x \in R, ~Fits(x), NEW r, AllFitting(s, r)
    PROVE  AllFitting(Append(s, x), r)
  <1> DEFINE t == Append(s, x)
  <1>1. /\ DOMAIN t = 1..(Len(s) + 1)
        /\ \A i \in DOMAIN s : t[i] = s[i] /\ i \in 1..(Len(s) + 1)
        /\ t[Len(s) + 1] = x
        /\ \A i \in 1..(Len(s) + 1) : i \in DOMAIN s \/ i = Len(s) + 1
    BY OneMore
  <1> HIDE DEF t
  <1>2. {i \in DOMAIN t : Fits(t[i])} = {i \in DOMAIN s : Fits(s[i])}
    <2>1. ASSUME NEW i \in DOMAIN t, Fits(t[i])
          PROVE  i \in DOMAIN s /\ Fits(s[i])
      <3>1. i # Len(s) + 1
        BY <1>1, <2>1
      <3>2. i \in DOMAIN s /\ t[i] = s[i]
        BY <1>1, <3>1
      <3>3. QED
        BY <2>1, <3>2
    <2>2. ASSUME NEW i \in DOMAIN s, Fits(s[i])
          PROVE  i \in DOMAIN t /\ Fits(t[i])
      <3>1. i \in DOMAIN t /\ t[i] = s[i]
        BY <1>1
      <3>2. QED
        BY <2>2, <3>1
    <2>3. QED
      BY <2>1, <2>2
  <1>3. PICK at \in [{i \in DOMAIN s : Fits(s[i])} -> DOMAIN r] :
           /\ \A i \in DOMAIN at : r[at[i]] = s[i].payload
           /\ \A i, j \in DOMAIN at : i < j => at[i] < at[j]
    BY DEF AllFitting
  <1>4. \A i \in DOMAIN at : r[at[i]] = t[i].payload
    <2>1. \A i \in DOMAIN at : i \in DOMAIN s
      BY <1>3
    <2>2. QED
      BY <1>1, <1>3, <2>1
  <1>5. AllFitting(t, r)
    BY <1>2, <1>3, <1>4 DEF AllFitting
  <1>6. QED
    BY <1>5 DEF t

\* One that fits gets the last place.
LEMMA FittingAppend ==
    ASSUME NEW R, NEW s \in Seq(R), NEW x \in R,
           NEW S, NEW r \in Seq(S), x.payload \in S, AllFitting(s, r)
    PROVE  AllFitting(Append(s, x), Append(r, x.payload))
  <1> DEFINE t == Append(s, x)
             y == x.payload
             u == Append(r, y)
             m == Len(s) + 1
             n == Len(r) + 1
  <1>1. /\ DOMAIN t = 1..m /\ m \in Nat /\ DOMAIN s = 1..(m - 1)
        /\ \A i \in DOMAIN s : t[i] = s[i] /\ i \in 1..m
        /\ t[m] = x
        /\ \A i \in 1..m : i \in DOMAIN s \/ i = m
    <2>1. Len(s) = m - 1
      BY OneMore
    <2>2. QED
      BY <2>1, OneMore
  <1>2. /\ DOMAIN u = 1..n /\ n \in Nat /\ n >= 1 /\ DOMAIN r = 1..(n - 1)
        /\ \A i \in DOMAIN r : u[i] = r[i] /\ i \in 1..n /\ i # n
        /\ u[n] = y /\ n \in 1..n
    <2>1. Len(r) = n - 1
      BY OneMore
    <2>2. y \in S
      OBVIOUS
    <2>3. QED
      BY <2>1, <2>2, OneMore
  <1> HIDE DEF t, u, m, n
  <1>3. PICK at \in [{i \in DOMAIN s : Fits(s[i])} -> DOMAIN r] :
           /\ \A i \in DOMAIN at : r[at[i]] = s[i].payload
           /\ \A i, j \in DOMAIN at : i < j => at[i] < at[j]
    BY DEF AllFitting
  <1> DEFINE D == {i \in DOMAIN t : Fits(t[i])}
             new == [i \in D |-> IF i = m THEN n ELSE at[i]]
  <1>4. ASSUME NEW i \in D, i # m
        PROVE  /\ i \in DOMAIN at /\ i \in DOMAIN s /\ at[i] \in DOMAIN r
               /\ new[i] = at[i] /\ t[i] = s[i]
    <2>1. i \in DOMAIN s /\ t[i] = s[i]
      BY <1>1, <1>4
    <2>2. i \in DOMAIN at
      BY <1>3, <2>1
    <2>3. QED
      BY <1>3, <1>4, <2>1, <2>2
  <1>5. new \in [D -> DOMAIN u]
    BY <1>2, <1>4
  <1>6. ASSUME NEW i \in D
        PROVE  u[new[i]] = t[i].payload
    <2>1. CASE i = m
      BY <1>1, <1>2, <2>1
    <2>2. CASE i # m
      <3>1. u[new[i]] = r[at[i]] /\ r[at[i]] = s[i].payload
        BY <1>2, <1>3, <1>4, <2>2
      <3>2. QED
        BY <1>4, <2>2, <3>1
    <2>3. QED
      BY <2>1, <2>2
  <1>7. ASSUME NEW i \in D, NEW j \in D, i < j
        PROVE  new[i] < new[j]
    <2>1. i \in 1..m /\ j \in 1..m
      BY <1>1
    <2>2. i # m
      BY <1>1, <1>7, <2>1
    <2>3. new[i] = at[i] /\ at[i] \in 1..(n - 1)
      BY <1>2, <1>4, <2>2
    <2>4. CASE j = m
      <3>1. new[j] = n
        BY <2>4
      <3>2. QED
        BY <1>2, <2>3, <3>1
    <2>5. CASE j # m
      <3>1. new[j] = at[j] /\ i \in DOMAIN at /\ j \in DOMAIN at
        BY <1>4, <2>2, <2>5
      <3>2. at[i] < at[j]
        BY <1>3, <1>7, <3>1
      <3>3. QED
        BY <2>3, <3>1, <3>2
    <2>6. QED
      BY <2>4, <2>5
  <1>8. AllFitting(t, u)
    <2>1. DOMAIN new = D
      OBVIOUS
    <2> HIDE DEF new
    <2>2. QED
      BY <1>5, <1>6, <1>7, <2>1 DEF AllFitting
  <1>9. QED
    BY <1>8 DEF t, u

-----------------------------------------------------------------------------
(* The invariant.                                                          *)

Now == [packet |-> packet, escape |-> escape, out |-> received]

\* What the reader is to end with, once it has read all of the line.
Expected(end) ==
    /\ end.escape <=> cut
    /\ AllFitting(sent, end.out)
    /\ trouble = "closing" => end.packet = <<>> /\ end.out = SentPayloads

\* The thread still takes what comes out of the line: the frame it is in, once
\* it was told to stop, and no other.
Listening == ~hung_up /\ (terminate => reader \in {"looking", "reading"})

\* The line works and there is a thread.
Up == ~hung_up /\ reader # "done"

KInv ==
    /\ TypeOK
    /\ hung_up => trouble = "closing" /\ line = <<>>
    /\ trouble = "closing" => ~cut
    /\ Listening => \E r : IsRun(r, Now, line) /\ Expected(r[Len(line)])

ByteStep == \/ Overflow \/ TakeEscaped \/ TakeFesc \/ TakeByte
            \/ FirstFend \/ LastFend

LEMMA NowIsAState ==
    ASSUME TypeOK
    PROVE  Now \in States
  BY DEF TypeOK, Now, States

LEMMA StateIsNow ==
    ASSUME Now' \in States
    PROVE  /\ packet' \in Seq(Bytes) /\ Len(packet') <= MaxPacketSize
           /\ escape' \in BOOLEAN /\ received' \in Seq(Seq(Bytes))
  <1>1. Now' = [packet |-> packet', escape |-> escape', out |-> received']
    BY DEF Now
  <1>2. Now'.packet = packet' /\ Now'.escape = escape' /\ Now'.out = received'
    BY <1>1
  <1>3. QED
    BY <1>2, StateParts

\* A byte of the line, or the NUL read behind its end, is taken.
LEMMA ByteIsTaken ==
    ASSUME TypeOK, ByteStep
    PROVE  \E c \in Bytes : Byte(c) /\ Now' = Taken(Now, c)
  <1>0. /\ Now.packet = packet /\ Now.escape = escape /\ Now.out = received
        /\ Now' = [packet |-> packet', escape |-> escape', out |-> received']
    BY DEF Now
  <1>b. "FEND" \in Bytes /\ "FESC" \in Bytes
    BY DEF Bytes
  <1>1. CASE Overflow
    <2>1. PICK c \in Bytes : Byte(c) /\ Full /\ (escape \/ c \notin {"FEND", "FESC"})
      BY <1>1 DEF Overflow
    <2>2. Taken(Now, c) = [packet |-> <<>>, escape |-> FALSE, out |-> received]
      BY <1>0, <2>1 DEF Taken, Full, Special
    <2>3. packet' = <<>> /\ escape' = FALSE /\ received' = received
      BY <1>1 DEF Overflow, Leave
    <2>4. Now' = Taken(Now, c)
      BY <1>0, <2>2, <2>3, Zenon
    <2>5. QED
      BY <2>1, <2>4
  <1>2. CASE TakeEscaped
    <2>1. PICK c \in Bytes : Byte(c) /\ packet' = packet \o Unescaped(c)
      BY <1>2 DEF TakeEscaped
    <2>2. Taken(Now, c) = [packet |-> packet \o Unescaped(c), escape |-> FALSE,
                           out |-> received]
      BY <1>0, <1>2 DEF Taken, Full, TakeEscaped
    <2>3. escape' = FALSE /\ received' = received
      BY <1>2 DEF TakeEscaped
    <2>4. Now' = Taken(Now, c)
      BY <1>0, <2>1, <2>2, <2>3, Zenon
    <2>5. QED
      BY <2>1, <2>4
  <1>3. CASE TakeFesc
    <2>1. Taken(Now, "FESC") = [packet |-> packet, escape |-> TRUE, out |-> received]
      BY <1>0, <1>3 DEF Taken, Special, TakeFesc
    <2>2. packet' = packet /\ escape' = TRUE /\ received' = received /\ Byte("FESC")
      BY <1>3 DEF TakeFesc
    <2>3. Now' = Taken(Now, "FESC")
      BY <1>0, <2>1, <2>2, Zenon
    <2>4. QED
      BY <1>b, <2>2, <2>3
  <1>4. CASE TakeByte
    <2>1. PICK c \in Bytes \ {"FEND", "FESC"} : Byte(c) /\ packet' = Append(packet, c)
      BY <1>4 DEF TakeByte
    <2>2. ~escape /\ ~Full /\ escape' = escape /\ received' = received
      BY <1>4 DEF TakeByte
    <2>3. escape = FALSE
      BY <2>2 DEF TypeOK
    <2>4. Taken(Now, c) = [packet |-> Append(packet, c), escape |-> FALSE,
                           out |-> received]
      BY <1>0, <2>1, <2>2 DEF Taken, Full
    <2>5. Now' = Taken(Now, c)
      BY <1>0, <2>1, <2>2, <2>3, <2>4, Zenon
    <2>6. QED
      BY <2>1, <2>5
  <1>5. CASE FirstFend
    <2>1. Taken(Now, "FEND") = Now
      BY <1>0, <1>5 DEF Taken, Special, FirstFend
    <2>2. packet' = packet /\ escape' = escape /\ received' = received /\ Byte("FEND")
      BY <1>5 DEF FirstFend
    <2>3. Now' = Now
      BY <2>2 DEF Now
    <2>4. QED
      BY <1>b, <2>1, <2>2, <2>3
  <1>6. CASE LastFend
    <2>1. Taken(Now, "FEND") = [packet |-> <<>>, escape |-> FALSE,
                                out |-> Append(received, Tail(packet))]
      BY <1>0, <1>6 DEF Taken, Special, LastFend
    <2>2. /\ packet' = <<>> /\ escape' = FALSE /\ Byte("FEND")
          /\ received' = Append(received, Tail(packet))
      BY <1>6 DEF LastFend, Leave
    <2>3. Now' = Taken(Now, "FEND")
      BY <1>0, <2>1, <2>2, Zenon
    <2>4. QED
      BY <1>b, <2>2, <2>3
  <1>7. QED
    BY <1>1, <1>2, <1>3, <1>4, <1>5, <1>6 DEF ByteStep

LEMMA TypeInit ==
    ASSUME Init
    PROVE  TypeOK
  <1>1. \A S : <<>> \in Seq(S)
    OBVIOUS
  <1>2. <<>> \in Seq([payload : Payloads, cut : BOOLEAN])
    BY <1>1, Zenon
  <1>3. Len(<<>>) <= MaxPacketSize /\ 0 \in 0..MaxFailures
    BY KissAssumption
  <1>4. QED
    BY <1>1, <1>2, <1>3 DEF Init, TypeOK

LEMMA TypeStep ==
    ASSUME TypeOK, [Next]_vars
    PROVE  TypeOK'
  <1>0. \A p \in Payloads : p \in Seq(Bytes) /\ Encoded(p) \in Seq(Bytes)
    BY KissAssumption, FrameShape
  <1>1. CASE Send
    <2>1. PICK p \in Payloads : /\ line' = line \o Encoded(p)
                                /\ sent' = Append(sent, [payload |-> p, cut |-> cut])
      BY <1>1 DEF Send
    <2>2. line' \in Seq(Bytes)
      BY <1>0, <2>1, ConcatProperties DEF TypeOK
    <2>3. sent' \in Seq([payload : Payloads, cut : BOOLEAN])
      <3> DEFINE R == [payload : Payloads, cut : BOOLEAN]
                 x == [payload |-> p, cut |-> cut]
      <3>1. x \in R /\ sent \in Seq(R)
        BY DEF TypeOK
      <3> HIDE DEF x, R
      <3>2. Append(sent, x) \in Seq(R)
        BY <3>1, AppendProperties
      <3>3. QED
        BY <2>1, <3>2 DEF x, R
    <2>4. QED
      BY <1>1, <2>2, <2>3 DEF Send, TypeOK
  <1>2. CASE SendFails
    <2>0. PICK p \in Payloads : \E n \in 1..(Len(Encoded(p)) - 1) :
             /\ line' = line \o SubSeq(Encoded(p), 1, n)
             /\ cut' = (Encoded(p)[n] = "FESC")
      BY <1>2 DEF SendFails
    <2>1. PICK n \in 1..(Len(Encoded(p)) - 1) :
             /\ line' = line \o SubSeq(Encoded(p), 1, n)
             /\ cut' = (Encoded(p)[n] = "FESC")
      BY <2>0
    <2>2. SubSeq(Encoded(p), 1, n) \in Seq(Bytes)
      <3>1. Encoded(p) \in Seq(Bytes) /\ Len(Encoded(p)) \in Nat
        BY <1>0, LenProperties
      <3>2. n \in 1..Len(Encoded(p))
        BY <3>1
      <3>3. 1 \in Int /\ n \in Int /\ \A i \in 1..n : i \in 1..Len(Encoded(p))
        BY <3>1, <3>2
      <3>4. QED
        BY <3>1, <3>2, <3>3, SubSeqProperties
    <2>3. line' \in Seq(Bytes)
      BY <2>1, <2>2, ConcatProperties DEF TypeOK
    <2>4. cut' \in BOOLEAN
      BY <2>1
    <2>5. failures' \in 0..MaxFailures
      BY <1>2, KissAssumption DEF SendFails, TypeOK
    <2>6. QED
      BY <1>2, <2>3, <2>4, <2>5 DEF SendFails, TypeOK
  <1>3. CASE HangUp
    BY <1>3 DEF HangUp, TypeOK
  <1>4. CASE Poll
    BY <1>4 DEF Poll, Stays, TypeOK
  <1>5. CASE PollFails \/ Look \/ ReadFails
    <2>1. <<>> \in Seq(Bytes) /\ Len(<<>>) <= MaxPacketSize
      BY KissAssumption
    <2>2. CASE PollFails
      BY <2>2 DEF PollFails, Stays, TypeOK
    <2>3. CASE Look
      BY <2>1, <2>3 DEF Look, Leave, Stays, TypeOK
    <2>4. CASE ReadFails
      BY <2>1, <2>4 DEF ReadFails, Leave, Stays, TypeOK
    <2>5. QED
      BY <1>5, <2>2, <2>3, <2>4
  <1>6. CASE ByteStep
    <2>1. PICK c \in Bytes : Byte(c) /\ Now' = Taken(Now, c)
      BY <1>6, ByteIsTaken
    <2>2. Now' \in States
      BY <2>1, NowIsAState, TakenProperties
    <2>3. line' \in Seq(Bytes)
      BY <2>1, HeadTailProperties DEF Byte, TypeOK
    <2>4. reader = "reading" /\ Stays
      BY <2>1 DEF Byte
    <2>5. reader' = "looking" \/ (reader' = "polling" /\ packet' = <<>> /\ escape' = FALSE)
      BY <1>6, <2>4 DEF ByteStep, Overflow, TakeEscaped, TakeFesc, TakeByte, FirstFend,
                        LastFend, Leave
    <2>6. /\ packet' \in Seq(Bytes) /\ Len(packet') <= MaxPacketSize
          /\ escape' \in BOOLEAN /\ received' \in Seq(Seq(Bytes))
      BY <2>2, StateIsNow
    <2>7. QED
      BY <2>3, <2>4, <2>5, <2>6 DEF Stays, TypeOK
  <1>7. CASE Stop
    BY <1>7 DEF Stop, TypeOK
  <1>8. CASE UNCHANGED vars
    BY <1>8 DEF vars, TypeOK
  <1>9. QED
    BY <1>1, <1>2, <1>3, <1>4, <1>5, <1>6, <1>7, <1>8 DEF Next, Reader, ByteStep

LEMMA SentPayloadsAreFrames ==
    ASSUME TypeOK
    PROVE  SentPayloads \in Seq(Seq(Bytes)) /\ Len(SentPayloads) = Len(sent)
  <1> DEFINE R == [payload : Payloads, cut : BOOLEAN]
  <1>1. sent \in Seq(R)
    BY DEF TypeOK
  <1>2. Len(sent) \in Nat /\ DOMAIN sent = 1..Len(sent)
    BY <1>1, LenProperties
  <1>3. \A i \in 1..Len(sent) : sent[i].payload \in Seq(Bytes)
    <2>1. \A i \in 1..Len(sent) : sent[i] \in R
      BY <1>1, ElementOfSeq
    <2>2. QED
      BY <2>1, KissAssumption
  <1>4. SentPayloads = [i \in 1..Len(sent) |-> sent[i].payload]
    BY <1>2 DEF SentPayloads
  <1>5. QED
    BY <1>2, <1>3, <1>4

LEMMA SendAppends ==
    ASSUME TypeOK, NEW p \in Payloads,
           sent' = Append(sent, [payload |-> p, cut |-> cut])
    PROVE  SentPayloads' = Append(SentPayloads, p)
  <1> DEFINE R == [payload : Payloads, cut : BOOLEAN]
             x == [payload |-> p, cut |-> cut]
             l == Len(sent)
             t == Append(sent, x)
  <1>1. sent \in Seq(R) /\ x \in R
    BY DEF TypeOK
  <1>2. x.payload = p
    OBVIOUS
  <1>3. sent' = t
    OBVIOUS
  <1> HIDE DEF x, R
  <1>4. /\ DOMAIN sent = 1..l /\ l \in Nat /\ DOMAIN t = 1..(l + 1)
        /\ \A i \in DOMAIN sent : t[i] = sent[i] /\ i # l + 1
        /\ t[l + 1] = x
        /\ \A i \in 1..(l + 1) : i \in DOMAIN sent \/ i = l + 1
    BY <1>1, OneMore
  <1>5. SentPayloads' = [i \in 1..(l + 1) |-> t[i].payload]
    BY <1>3, <1>4 DEF SentPayloads
  <1>6. SentPayloads = [i \in 1..l |-> sent[i].payload]
    BY <1>4 DEF SentPayloads
  <1> DEFINE s == SentPayloads
             u == Append(s, p)
  <1>7. s \in Seq(Seq(Bytes)) /\ p \in Seq(Bytes) /\ Len(s) = l
    BY SentPayloadsAreFrames, KissAssumption
  <1>8. /\ u \in Seq(Seq(Bytes)) /\ Len(u) = l + 1
        /\ \A i \in 1..l : u[i] = s[i]
        /\ u[l + 1] = p
    <2>1. /\ u \in Seq(Seq(Bytes)) /\ Len(u) = Len(s) + 1
          /\ \A i \in 1..Len(s) : u[i] = s[i]
          /\ u[Len(s) + 1] = p
      <3> HIDE DEF s
      <3>1. QED
        BY <1>7, AppendProperties
    <2> HIDE DEF s, u
    <2>2. QED
      BY <1>7, <2>1
  <1>9. u = [i \in 1..(l + 1) |-> u[i]]
    <2> HIDE DEF u
    <2>1. u \in [1..Len(u) -> Seq(Bytes)]
      BY <1>8, LenProperties
    <2>2. QED
      BY <1>8, <2>1
  <1>10. \A i \in 1..(l + 1) : u[i] = t[i].payload
    <2>1. ASSUME NEW i \in 1..(l + 1)
          PROVE  u[i] = t[i].payload
      <3>1. CASE i = l + 1
        BY <1>2, <1>4, <1>8, <3>1
      <3>2. CASE i # l + 1
        <4>1. i \in 1..l
          BY <1>4, <3>2
        <4>2. u[i] = s[i] /\ s[i] = sent[i].payload
          BY <1>6, <1>8, <4>1
        <4>3. t[i] = sent[i]
          BY <1>4, <4>1
        <4>4. QED
          BY <4>2, <4>3
      <3>3. QED
        BY <3>1, <3>2
    <2>2. QED
      BY <2>1
  <1> HIDE DEF u, t
  <1>11. SentPayloads' = u
    BY <1>5, <1>9, <1>10
  <1>12. QED
    BY <1>11 DEF u

LEMMA InvInit ==
    ASSUME Init
    PROVE  KInv
  <1>1. TypeOK
    BY TypeInit
  <1>2. Now \in States
    BY <1>1, NowIsAState
  <1>3. \E r : IsRun(r, Now, <<>>)
    <2>1. <<>> \in Seq(Bytes)
      OBVIOUS
    <2>2. QED
      BY <1>2, <2>1, RunExists
  <1>4. PICK r : IsRun(r, Now, <<>>)
    BY <1>3
  <1>5. r[Len(<<>>)] = Now
    BY <1>4 DEF IsRun
  <1>6. Now.escape = FALSE /\ Now.packet = <<>> /\ Now.out = <<>>
    BY DEF Init, Now
  <1>7. AllFitting(sent, <<>>)
    <2>1. sent = <<>> /\ DOMAIN <<>> = {}
      BY DEF Init
    <2> DEFINE at == <<>>
    <2>2. DOMAIN at = {} /\ {i \in DOMAIN sent : Fits(sent[i])} = {}
      BY <2>1
    <2>3. at \in [{i \in DOMAIN sent : Fits(sent[i])} -> DOMAIN <<>>]
      BY <2>1, <2>2
    <2>4. QED
      BY <2>2, <2>3 DEF AllFitting
  <1>8. SentPayloads = <<>>
    BY DEF Init, SentPayloads
  <1>9. Expected(r[Len(<<>>)])
    BY <1>5, <1>6, <1>7, <1>8 DEF Expected, Init
  <1>10. IsRun(r, Now, line) /\ Expected(r[Len(line)])
    BY <1>4, <1>9 DEF Init
  <1>11. QED
    BY <1>1, <1>10 DEF KInv, Init

\* What send_mkiss() writes, or begins to write, the reader goes on with.
LEMMA WhatIsWritten ==
    ASSUME KInv, Listening, NEW b \in Seq(Bytes)
    PROVE  \E end \in States : \E t, q :
              /\ Expected(end)
              /\ IsRun(q, end, b)
              /\ IsRun(t, Now, line \o b)
              /\ t[Len(line \o b)] = q[Len(b)]
  <1>1. PICK r : IsRun(r, Now, line) /\ Expected(r[Len(line)])
    BY DEF KInv
  <1>2. line \in Seq(Bytes) /\ Now \in States
    BY NowIsAState DEF KInv, TypeOK
  <1>3. r[Len(line)] \in States
    BY <1>1, <1>2, RunExtends
  <1>4. PICK q : IsRun(q, r[Len(line)], b)
    BY <1>3, RunExists
  <1>5. \E t : IsRun(t, Now, line \o b) /\ t[Len(line \o b)] = q[Len(b)]
    BY <1>1, <1>2, <1>4, RunsJoin
  <1>6. QED
    BY <1>1, <1>3, <1>4, <1>5

LEMMA SendKeeps ==
    ASSUME KInv, Send, Listening
    PROVE  (\E r : IsRun(r, Now, line) /\ Expected(r[Len(line)]))'
  <1>1. PICK p \in Payloads : /\ trouble = "damage" \/ Len(p) < MaxPacketSize
                              /\ line' = line \o Encoded(p)
                              /\ sent' = Append(sent, [payload |-> p, cut |-> cut])
    BY DEF Send
  <1> DEFINE e == Encoded(p)
             x == [payload |-> p, cut |-> cut]
             R == [payload : Payloads, cut : BOOLEAN]
  <1>2. p \in Seq(Bytes) /\ e \in Seq(Bytes)
    BY KissAssumption, FrameShape
  <1>3. \E end \in States : \E t, q :
              /\ Expected(end)
              /\ IsRun(q, end, e)
              /\ IsRun(t, Now, line \o e)
              /\ t[Len(line \o e)] = q[Len(e)]
    BY <1>2, WhatIsWritten
  <1>4. PICK end \in States : \E t, q :
              /\ Expected(end)
              /\ IsRun(q, end, e)
              /\ IsRun(t, Now, line \o e)
              /\ t[Len(line \o e)] = q[Len(e)]
    BY <1>3
  <1>5. PICK t, q : /\ Expected(end)
                    /\ IsRun(q, end, e)
                    /\ IsRun(t, Now, line \o e)
                    /\ t[Len(line \o e)] = q[Len(e)]
    BY <1>4
  <1> DEFINE last == q[Len(e)]
  <1>6. last \in States /\ Extends(last.out, end.out) /\ ~last.escape
    BY <1>2, <1>5, RunExtends, FrameEnds
  <1>7. /\ end.out \in Seq(Seq(Bytes)) /\ last.out \in Seq(Seq(Bytes))
        /\ AllFitting(sent, end.out)
        /\ end.escape <=> cut
    BY <1>5, <1>6, StateParts DEF Expected
  <1>8. ASSUME Len(p) < MaxPacketSize, ~cut
        PROVE  /\ last.packet = <<>>
               /\ \E o \in Seq(Seq(Bytes)) : /\ Extends(o, end.out)
                                             /\ end.packet = <<>> => o = end.out
                                             /\ last.out = Append(o, p)
    BY <1>2, <1>5, <1>7, <1>8, FrameComesOut
  <1>9. sent \in Seq(R) /\ x \in R /\ x.payload = p /\ x.cut = cut
    BY DEF KInv, TypeOK
  <1> HIDE DEF x, R, last
  <1>10. AllFitting(Append(sent, x), last.out)
    <2>1. CASE Fits(x)
      <3>1. Len(p) < MaxPacketSize /\ ~cut
        BY <1>9, <2>1 DEF Fits
      <3>2. PICK o \in Seq(Seq(Bytes)) : Extends(o, end.out) /\ last.out = Append(o, p)
        BY <1>8, <3>1
      <3>3. AllFitting(sent, o)
        BY <1>7, <3>2, FittingStay
      <3>4. x.payload \in Seq(Bytes)
        BY <1>2, <1>9
      <3>5. AllFitting(Append(sent, x), Append(o, x.payload))
        BY <1>9, <3>3, <3>4, FittingAppend
      <3>6. QED
        BY <1>9, <3>2, <3>5
    <2>2. CASE ~Fits(x)
      <3>1. AllFitting(sent, last.out)
        BY <1>6, <1>7, FittingStay
      <3>2. QED
        BY <1>9, <2>2, <3>1, FittingSkip
    <2>3. QED
      BY <2>1, <2>2
  <1>11. ASSUME trouble = "closing"
         PROVE  last.packet = <<>> /\ last.out = SentPayloads'
    <2>1. Len(p) < MaxPacketSize /\ ~cut
      BY <1>1, <1>11 DEF KInv
    <2>2. end.packet = <<>> /\ end.out = SentPayloads
      BY <1>5, <1>11 DEF Expected
    <2>3. last.packet = <<>> /\ last.out = Append(SentPayloads, p)
      BY <1>8, <2>1, <2>2
    <2>4. SentPayloads' = Append(SentPayloads, p)
      BY <1>1, SendAppends DEF KInv
    <2>5. QED
      BY <2>3, <2>4
  <1>12. /\ Now' = Now /\ cut' = FALSE /\ trouble' = trouble
         /\ line' = line \o e /\ sent' = Append(sent, x)
    <2>1. packet' = packet /\ escape' = escape /\ received' = received
      BY DEF Send
    <2>2. QED
      BY <1>1, <2>1 DEF Send, Now, x
  <1>13. t[Len(line')] = last
    BY <1>5, <1>12 DEF last
  <1>14. Expected(t[Len(line)])'
    BY <1>6, <1>10, <1>11, <1>12, <1>13 DEF Expected
  <1>15. IsRun(t, Now', line')
    BY <1>5, <1>12
  <1>16. QED
    BY <1>14, <1>15

LEMMA SendFailsKeeps ==
    ASSUME KInv, SendFails, Listening
    PROVE  (\E r : IsRun(r, Now, line) /\ Expected(r[Len(line)]))'
  <1>1. PICK p \in Payloads : \E n \in 1..(Len(Encoded(p)) - 1) :
             /\ line' = line \o SubSeq(Encoded(p), 1, n)
             /\ cut' = (Encoded(p)[n] = "FESC")
    BY DEF SendFails
  <1>2. PICK n \in 1..(Len(Encoded(p)) - 1) :
             /\ line' = line \o SubSeq(Encoded(p), 1, n)
             /\ cut' = (Encoded(p)[n] = "FESC")
    BY <1>1
  <1> DEFINE b == SubSeq(Encoded(p), 1, n)
  <1>3. p \in Seq(Bytes) /\ n \in 1..Len(Encoded(p)) /\ b \in Seq(Bytes) /\ Len(b) = n
    <2>1. p \in Seq(Bytes)
      BY KissAssumption
    <2>2. Encoded(p) \in Seq(Bytes) /\ Len(Encoded(p)) \in Nat
      BY <2>1, FrameShape, LenProperties
    <2>3. n \in 1..Len(Encoded(p))
      BY <2>2
    <2>4. b \in Seq(Bytes) /\ Len(b) = n
      BY <2>2, <2>3, SubSeqProperties
    <2>5. QED
      BY <2>1, <2>3, <2>4
  <1>4. PICK end \in States : \E t, q :
              /\ Expected(end)
              /\ IsRun(q, end, b)
              /\ IsRun(t, Now, line \o b)
              /\ t[Len(line \o b)] = q[Len(b)]
    BY <1>3, WhatIsWritten
  <1>5. PICK t, q : /\ Expected(end)
                    /\ IsRun(q, end, b)
                    /\ IsRun(t, Now, line \o b)
                    /\ t[Len(line \o b)] = q[Len(b)]
    BY <1>4
  <1> DEFINE last == q[n]
  <1>6. last \in States /\ Extends(last.out, end.out)
    BY <1>3, <1>5, RunExtends
  <1>7. last.escape <=> Encoded(p)[n] = "FESC"
    BY <1>3, <1>5, EscapeWithinFrame
  <1>8. AllFitting(sent, last.out)
    BY <1>5, <1>6, StateParts, FittingStay DEF Expected
  <1>9. /\ Now' = Now /\ trouble' = trouble /\ trouble = "damage"
        /\ line' = line \o b /\ sent' = sent /\ (cut' <=> Encoded(p)[n] = "FESC")
    <2>1. packet' = packet /\ escape' = escape /\ received' = received
      BY DEF SendFails
    <2>2. QED
      BY <1>2, <2>1 DEF SendFails, Now
  <1> HIDE DEF b
  <1>10. t[Len(line')] = last
    BY <1>3, <1>5, <1>9
  <1> HIDE DEF last
  <1>11. Expected(t[Len(line)])'
    BY <1>7, <1>8, <1>9, <1>10 DEF Expected
  <1>12. IsRun(t, Now', line')
    BY <1>5, <1>9
  <1>13. QED
    BY <1>11, <1>12

\* The reader is one byte further, and ends as it was to.
LEMMA ByteKeeps ==
    ASSUME KInv, ByteStep, ~hung_up
    PROVE  (\E r : IsRun(r, Now, line) /\ Expected(r[Len(line)]))'
  <1>1. PICK c \in Bytes : Byte(c) /\ Now' = Taken(Now, c)
    BY ByteIsTaken DEF KInv
  <1>2. line # <<>> /\ c = Head(line) /\ line' = Tail(line) /\ Listening
    BY <1>1 DEF Byte, Listening
  <1>3. PICK r : IsRun(r, Now, line) /\ Expected(r[Len(line)])
    BY <1>2 DEF KInv
  <1>4. line \in Seq(Bytes)
    BY DEF KInv, TypeOK
  <1>5. PICK t : /\ IsRun(t, Taken(Now, Head(line)), Tail(line))
                 /\ t[Len(Tail(line))] = r[Len(line)]
    BY <1>2, <1>3, <1>4, RunGoesOn
  <1>6. IsRun(t, Now', line')
    BY <1>1, <1>2, <1>5
  <1>7. t[Len(line')] = r[Len(line)]
    BY <1>2, <1>5
  <1>8. trouble' = trouble /\ cut' = cut /\ sent' = sent
    BY <1>1 DEF Byte, Stays
  <1>9. Expected(t[Len(line)])'
    BY <1>3, <1>7, <1>8 DEF Expected, SentPayloads
  <1>10. QED
    BY <1>6, <1>9

LEMMA InvStep ==
    ASSUME KInv, [Next]_vars
    PROVE  KInv'
  <1>1. TypeOK'
    BY TypeStep DEF KInv
  <1>2. (hung_up => trouble = "closing" /\ line = <<>>)'
    <2>1. CASE ByteStep
      <3>1. PICK c \in Bytes : Byte(c)
        BY <2>1, ByteIsTaken DEF KInv
      <3>2. QED
        BY <3>1 DEF KInv, Byte, Stays
    <2>2. CASE ~ByteStep
      BY <2>2 DEF KInv, Next, vars, Send, SendFails, HangUp, Reader, Poll, PollFails, Look, ReadFails,
                  Stop, Stays, ByteStep
    <2>3. QED
      BY <2>1, <2>2
  <1>3. (trouble = "closing" => ~cut)'
    <2>1. CASE ByteStep
      <3>1. PICK c \in Bytes : Byte(c)
        BY <2>1, ByteIsTaken DEF KInv
      <3>2. QED
        BY <3>1 DEF KInv, Byte, Stays
    <2>2. CASE ~ByteStep
      BY <2>2 DEF KInv, Next, vars, Send, SendFails, HangUp, Reader, Poll, PollFails, Look, ReadFails,
                  Stop, Stays, ByteStep
    <2>3. QED
      BY <2>1, <2>2
  <1>4. ASSUME Listening'
        PROVE  (\E r : IsRun(r, Now, line) /\ Expected(r[Len(line)]))'
    <2>1. ASSUME UNCHANGED <<trouble, line, cut, sent, packet, escape, received>>,
                 Listening
          PROVE  (\E r : IsRun(r, Now, line) /\ Expected(r[Len(line)]))'
      <3>1. PICK r : IsRun(r, Now, line) /\ Expected(r[Len(line)])
        BY <2>1 DEF KInv
      <3>2. Now' = Now /\ line' = line
        BY <2>1 DEF Now
      <3>3. Expected(r[Len(line)])'
        BY <2>1, <3>1 DEF Expected, SentPayloads
      <3>4. QED
        BY <3>1, <3>2, <3>3
    <2>2. CASE Send
      <3>1. Listening
        BY <1>4, <2>2 DEF Send, Listening
      <3>2. QED
        BY <2>2, <3>1, SendKeeps
    <2>3. CASE SendFails
      <3>1. Listening
        BY <1>4, <2>3 DEF SendFails, Listening
      <3>2. QED
        BY <2>3, <3>1, SendFailsKeeps
    <2>4. CASE HangUp \/ ReadFails
      BY <1>4, <2>4 DEF HangUp, ReadFails, Stays, Listening
    <2>5. CASE Poll \/ PollFails
      <3>1. /\ UNCHANGED <<trouble, line, cut, sent, packet, escape, received>>
            /\ Listening
        BY <1>4, <2>5 DEF Poll, PollFails, Stays, Listening
      <3>2. QED
        BY <2>1, <3>1
    <2>6. CASE Look
      <3>1. /\ UNCHANGED <<trouble, line, cut, sent, packet, escape, received>>
            /\ Listening
        BY <1>4, <2>6 DEF Look, Leave, Stays, Listening
      <3>2. QED
        BY <2>1, <3>1
    <2>7. CASE ByteStep
      <3>1. PICK c \in Bytes : Byte(c)
        BY <2>7, ByteIsTaken DEF KInv
      <3>2. ~hung_up
        BY <1>4, <3>1 DEF Byte, Stays, Listening
      <3>3. QED
        BY <2>7, <3>2, ByteKeeps
    <2>8. CASE Stop
      <3>1. /\ UNCHANGED <<trouble, line, cut, sent, packet, escape, received>>
            /\ Listening
        BY <1>4, <2>8 DEF Stop, Listening
      <3>2. QED
        BY <2>1, <3>1
    <2>9. CASE UNCHANGED vars
      <3>1. /\ UNCHANGED <<trouble, line, cut, sent, packet, escape, received>>
            /\ Listening
        BY <1>4, <2>9 DEF vars, Listening
      <3>2. QED
        BY <2>1, <3>1
    <2>10. QED
      BY <2>2, <2>3, <2>4, <2>5, <2>6, <2>7, <2>8, <2>9 DEF Next, Reader, ByteStep
  <1>5. QED
    BY <1>1, <1>2, <1>3, <1>4 DEF KInv

(***************************************************************************)
(* Of every line: TypeOK, and all that the bytes still on it are to become *)
(* is what it should be.  (tranceiver-kiss.cpp:27-223)                     *)
(***************************************************************************)
THEOREM KissInvariant == Spec => []KInv
  <1>1. Init => KInv
    BY InvInit
  <1>2. KInv /\ [Next]_vars => KInv'
    BY InvStep
  <1>3. QED
    BY <1>1, <1>2, PTL DEF Spec

(***************************************************************************)
(* A frame that is too long or was cut short harms no other, whatever the  *)
(* frames, the size of the buffer and the number of failures: once the     *)
(* line is read, every frame that fits has come out, in its place.         *)
(* (tranceiver-kiss.cpp:50-62, 76-78, 153-159)                             *)
(***************************************************************************)
THEOREM DamageStaysLocal == Spec => []DamageIsLocal
  <1>1. KInv => DamageIsLocal
    <2> SUFFICES ASSUME KInv, line = <<>>, ~hung_up, ~terminate
                 PROVE  AllFitting(sent, received)
      BY DEF DamageIsLocal
    <2>1. PICK r : IsRun(r, Now, line) /\ Expected(r[Len(line)])
      BY DEF KInv, Listening
    <2>2. r[Len(line)] = Now
      BY <2>1 DEF IsRun
    <2>3. Now.out = received
      BY DEF Now
    <2>4. QED
      BY <2>1, <2>2, <2>3 DEF Expected
  <1>2. QED
    BY <1>1, KissInvariant, PTL

-----------------------------------------------------------------------------
(* The line as a channel.                                                  *)

LEMMA ChannelInit ==
    ASSUME Init
    PROVE  TheChannel!Init
  BY DEF Init, TheChannel!Init, Carried, SentPayloads

\* The line is never repaired, and the thread never starts again.
LEMMA StaysDown ==
    ASSUME KInv, [Next]_vars
    PROVE  /\ trouble' = trouble
           /\ Up' => Up
  <1>1. CASE ByteStep
    <2>1. PICK c \in Bytes : Byte(c)
      BY <1>1, ByteIsTaken DEF KInv
    <2>2. QED
      BY <2>1 DEF Byte, Stays, Up
  <1>2. CASE ~ByteStep
    BY <1>2 DEF Next, vars, Send, SendFails, HangUp, Reader, Poll, PollFails, Look, ReadFails,
                Stop, Stays, ByteStep, Leave, Up
  <1>3. QED
    BY <1>1, <1>2

\* A step that the channel does not see, or that takes it down.
LEMMA SeenAsDownAtMost ==
    ASSUME KInv, [Next]_vars,
           Carried(SentPayloads)' = Carried(SentPayloads),
           Carried(received)' = Carried(received)
    PROVE  [TheChannel!Next]_(TheChannel!vars)
  <1>1. Up' => Up
    BY StaysDown
  <1>2. CASE Up /\ ~Up'
    <2>1. TheChannel!Down
      BY <1>2 DEF TheChannel!Down, Up
    <2>2. QED
      BY <2>1 DEF TheChannel!Next
  <1>3. CASE Up <=> Up'
    <2>1. (~hung_up' /\ reader' # "done") = (~hung_up /\ reader # "done")
      BY <1>3 DEF Up
    <2>2. UNCHANGED TheChannel!vars
      BY <2>1 DEF TheChannel!vars
    <2>3. QED
      BY <2>2
  <1>4. QED
    BY <1>1, <1>2, <1>3

\* What is queued next is what was sent next.
LEMMA NextComesOut ==
    ASSUME KInv, LastFend, trouble = "closing"
    PROVE  /\ ~hung_up /\ reader = "reading" /\ reader' # "done"
           /\ IsStrictPrefix(received, SentPayloads)
           /\ received' = Append(received, SentPayloads[Len(received) + 1])
  <1>1. /\ Byte("FEND") /\ received' = Append(received, Tail(packet))
        /\ packet # <<>>
    BY DEF LastFend
  <1>2. /\ ~hung_up /\ reader = "reading" /\ reader' # "done"
        /\ line # <<>> /\ Head(line) = "FEND" /\ Listening
    BY <1>1 DEF Byte, KInv, LastFend, Leave, Listening
  <1>3. PICK c \in Bytes : Byte(c) /\ Now' = Taken(Now, c)
    BY ByteIsTaken DEF KInv, ByteStep
  <1>4. c = Head(line)
    BY <1>2, <1>3 DEF Byte
  <1>5. PICK r : IsRun(r, Now, line) /\ Expected(r[Len(line)])
    BY <1>2 DEF KInv
  <1>6. line \in Seq(Bytes) /\ Tail(line) \in Seq(Bytes)
    BY <1>2, HeadTailProperties DEF KInv, TypeOK
  <1>7. PICK t : /\ IsRun(t, Taken(Now, Head(line)), Tail(line))
                 /\ t[Len(Tail(line))] = r[Len(line)]
    BY <1>2, <1>5, <1>6, RunGoesOn
  <1>8. IsRun(t, Now', Tail(line)) /\ Now' \in States
    BY <1>3, <1>4, <1>7, NowIsAState, TakenProperties DEF KInv
  <1>9. Extends(r[Len(line)].out, Now'.out)
    <2>1. \A u : IsRun(u, Now', Tail(line))
                   => Extends(u[Len(Tail(line))].out, Now'.out)
      BY <1>6, <1>8, RunExtends
    <2>2. QED
      BY <1>7, <1>8, <2>1
  <1>10. r[Len(line)].out = SentPayloads
    BY <1>5 DEF Expected
  <1>11. Now'.out = received'
    BY DEF Now
  <1> DEFINE s == SentPayloads
             x == Tail(packet)
             n == Len(received)
             R == received
  <1>12. Extends(s, Append(R, x))
    BY <1>1, <1>9, <1>10, <1>11
  <1>13. s \in Seq(Seq(Bytes)) /\ Len(s) \in Nat /\ R \in Seq(Seq(Bytes)) /\ n \in Nat
    BY SentPayloadsAreFrames, LenProperties DEF KInv, TypeOK
  <1>14. x \in Seq(Bytes)
    BY <1>1, HeadTailProperties DEF KInv, TypeOK
  <1>x. n = Len(R)
    OBVIOUS
  <1> HIDE DEF s, x, n, R
  <1>15. /\ Len(Append(R, x)) = n + 1
         /\ \A i \in 1..n : Append(R, x)[i] = R[i]
         /\ Append(R, x)[n + 1] = x
    BY <1>13, <1>14, <1>x, AppendProperties
  <1>16. n + 1 <= Len(s) /\ s[n + 1] = x /\ \A i \in 1..n : s[i] = R[i]
    <2>1. /\ n + 1 <= Len(s)
          /\ \A i \in 1..(n + 1) : s[i] = Append(R, x)[i]
      BY <1>12, <1>15 DEF Extends
    <2>2. n + 1 \in 1..(n + 1) /\ \A i \in 1..n : i \in 1..(n + 1)
      BY <1>13
    <2>3. QED
      BY <1>15, <2>1, <2>2
  <1>17. IsStrictPrefix(R, s)
    <2>0. 1 \in Int /\ n \in Int /\ n <= Len(s) /\ \A i \in 1..n : i \in 1..Len(s)
      BY <1>13, <1>16
    <2>1. /\ SubSeq(R, 1, n) \in Seq(Seq(Bytes)) /\ Len(SubSeq(R, 1, n)) = n
          /\ \A i \in 1..n : SubSeq(R, 1, n)[i] = R[i]
      <3>1. n \in 0..Len(R)
        BY <1>13, <1>x
      <3>2. QED
        BY <1>13, <1>x, <3>1, SubSeqProperties
    <2>2. /\ SubSeq(s, 1, n) \in Seq(Seq(Bytes)) /\ Len(SubSeq(s, 1, n)) = n
          /\ \A i \in 1..n : SubSeq(s, 1, n)[i] = s[i]
      BY <1>13, <2>0, SubSeqProperties
    <2>3. SubSeq(R, 1, n) = SubSeq(s, 1, n)
      BY <1>16, <2>1, <2>2, SeqEqual
    <2>4. R # s
      BY <1>13, <1>16, <1>x
    <2>5. QED
      BY <1>x, <2>0, <2>3, <2>4 DEF IsStrictPrefix, IsPrefix
  <1>18. QED
    BY <1>1, <1>2, <1>16, <1>17 DEF R, s, n, x

LEMMA ChannelStep ==
    ASSUME KInv, [Next]_vars
    PROVE  [TheChannel!Next]_(TheChannel!vars)
  <1>0. trouble' = trouble /\ trouble \in {"closing", "damage"}
    BY StaysDown DEF KInv, TypeOK
  <1>1. CASE trouble = "damage"
    <2>1. /\ Carried(SentPayloads)' = Carried(SentPayloads)
          /\ Carried(received)' = Carried(received)
      BY <1>0, <1>1 DEF Carried
    <2>2. QED
      BY <2>1, SeenAsDownAtMost
  <1>2. CASE trouble = "closing"
    <2>0. /\ Carried(SentPayloads) = SentPayloads /\ Carried(SentPayloads)' = SentPayloads'
          /\ Carried(received) = received /\ Carried(received)' = received'
      BY <1>0, <1>2 DEF Carried
    <2>1. CASE Send
      <3>1. PICK p \in Payloads : sent' = Append(sent, [payload |-> p, cut |-> cut])
        BY <2>1 DEF Send
      <3>2. SentPayloads' = Append(SentPayloads, p)
        BY <3>1, SendAppends DEF KInv
      <3>3. /\ received' = received
            /\ (~hung_up' /\ reader' # "done") = (~hung_up /\ reader # "done")
        BY <2>1 DEF Send
      <3>4. TheChannel!Send
        BY <2>0, <3>2, <3>3 DEF TheChannel!Send
      <3>5. QED
        BY <3>4 DEF TheChannel!Next
    <2>2. CASE LastFend
      <3>1. /\ ~hung_up /\ reader = "reading" /\ reader' # "done"
            /\ IsStrictPrefix(received, SentPayloads)
            /\ received' = Append(received, SentPayloads[Len(received) + 1])
        BY <1>2, <2>2, NextComesOut
      <3>2. UNCHANGED <<sent, hung_up>>
        BY <2>2 DEF LastFend, Byte, Stays
      <3>3. SentPayloads' = SentPayloads
            /\ (~hung_up' /\ reader' # "done") = (~hung_up /\ reader # "done")
        BY <3>1, <3>2 DEF SentPayloads
      <3>4. TheChannel!IsStrictPrefix(Carried(received), Carried(SentPayloads))
        BY <2>0, <3>1 DEF TheChannel!IsStrictPrefix, TheChannel!IsPrefix,
                          IsStrictPrefix, IsPrefix
      <3>5. /\ Carried(received)' = Append(Carried(received),
                                      Carried(SentPayloads)[Len(Carried(received)) + 1])
            /\ Carried(SentPayloads)' = Carried(SentPayloads)
        BY <2>0, <3>1, <3>3, Zenon
      <3>6. TheChannel!Receive
        BY <3>1, <3>3, <3>4, <3>5, Zenon DEF TheChannel!Receive
      <3>7. QED
        BY <3>6 DEF TheChannel!Next
    <2>3. CASE ~Send /\ ~LastFend
      <3>1. sent' = sent /\ received' = received
        <4>1. CASE ByteStep
          <5>1. PICK c \in Bytes : Byte(c)
            BY <4>1, ByteIsTaken DEF KInv
          <5>2. sent' = sent
            BY <5>1 DEF Byte, Stays
          <5>3. received' = received
            BY <2>3, <4>1 DEF ByteStep, Overflow, TakeEscaped, TakeFesc, TakeByte, FirstFend
          <5>4. QED
            BY <5>2, <5>3
        <4>2. CASE ~ByteStep
          BY <2>3, <4>2 DEF Next, vars, SendFails, HangUp, Reader, Poll, PollFails, Look, ReadFails,
                            Stop, Stays, ByteStep
        <4>3. QED
          BY <4>1, <4>2
      <3>2. SentPayloads' = SentPayloads
        BY <3>1 DEF SentPayloads
      <3>3. QED
        BY <2>0, <3>1, <3>2, SeenAsDownAtMost
    <2>4. QED
      BY <2>1, <2>2, <2>3
  <1>3. QED
    BY <1>0, <1>1, <1>2

(***************************************************************************)
(* Frames of the right size come out as they went in, in order and none    *)
(* twice, whatever bytes are in them: every step of the line is one of the *)
(* channel or is not seen there.  (tranceiver-kiss.cpp:27-164, 189-223)    *)
(***************************************************************************)
THEOREM LineIsAChannel ==
    Spec => TheChannel!Init /\ [][TheChannel!Next]_(TheChannel!vars)
  <1>1. Init => TheChannel!Init
    BY ChannelInit
  <1>2. KInv /\ [Next]_vars => [TheChannel!Next]_(TheChannel!vars)
    BY ChannelStep
  <1>3. QED
    BY <1>1, <1>2, KissInvariant, PTL DEF Spec
=============================================================================

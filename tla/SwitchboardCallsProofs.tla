------------------------ MODULE SwitchboardCallsProofs ------------------------
(***************************************************************************)
(* For every table and every number of calls: a message goes to whom the   *)
(* mappings send it and to nobody else, but for those that are dropped, and *)
(* the caller is told what became of it.                                   *)
(***************************************************************************)
EXTENDS SwitchboardCalls, SequenceTheorems, WellFoundedInduction, TLAPS

-----------------------------------------------------------------------------
(* What is put in a row by put_message() is what its parts hold.           *)

LEMMA Least ==
    ASSUME NEW T \in SUBSET Nat, T # {}
    PROVE  \E n \in T : \A k \in T : n <= k
  <1>1. \E n \in T : \A k \in T : ~(<<k, n>> \in OpToRel(<, Nat))
    BY NatLessThanWellFounded, WFMin
  <1>2. PICK n \in T : \A k \in T : ~(k < n)
    BY <1>1 DEF OpToRel
  <1>3. QED
    BY <1>2

LEMMA ConcatElements ==
    ASSUME NEW S, NEW s \in Seq(S), NEW t \in Seq(S)
    PROVE  /\ s \o t \in Seq(S)
           /\ \A x : x \in ToSet(s \o t) <=> x \in ToSet(s) \/ x \in ToSet(t)
  <1>1. /\ s \o t \in Seq(S) /\ Len(s \o t) = Len(s) + Len(t)
        /\ Len(s) \in Nat /\ Len(t) \in Nat
        /\ DOMAIN s = 1..Len(s) /\ DOMAIN t = 1..Len(t)
        /\ DOMAIN (s \o t) = 1..(Len(s) + Len(t))
    OBVIOUS
  <1>2. \A i \in 1..(Len(s) + Len(t)) :
            (s \o t)[i] = IF i <= Len(s) THEN s[i] ELSE t[i - Len(s)]
    OBVIOUS
  <1>3. ASSUME NEW x, x \in ToSet(s \o t)
        PROVE  x \in ToSet(s) \/ x \in ToSet(t)
    <2>1. PICK i \in 1..(Len(s) + Len(t)) : x = (s \o t)[i]
      BY <1>1, <1>3 DEF ToSet
    <2>2. CASE i <= Len(s)
      <3>1. i \in 1..Len(s) /\ x = s[i]
        BY <1>1, <1>2, <2>1, <2>2
      <3>2. QED
        BY <1>1, <3>1 DEF ToSet
    <2>3. CASE ~(i <= Len(s))
      <3>1. i - Len(s) \in 1..Len(t) /\ x = t[i - Len(s)]
        BY <1>1, <1>2, <2>1, <2>3
      <3>2. QED
        BY <1>1, <3>1 DEF ToSet
    <2>4. QED
      BY <2>2, <2>3
  <1>4. ASSUME NEW x, x \in ToSet(s)
        PROVE  x \in ToSet(s \o t)
    <2>1. PICK i \in 1..Len(s) : x = s[i]
      BY <1>1, <1>4 DEF ToSet
    <2>2. i \in 1..(Len(s) + Len(t)) /\ x = (s \o t)[i]
      BY <1>1, <1>2, <2>1
    <2>3. QED
      BY <1>1, <2>2 DEF ToSet
  <1>5. ASSUME NEW x, x \in ToSet(t)
        PROVE  x \in ToSet(s \o t)
    <2>1. PICK i \in 1..Len(t) : x = t[i]
      BY <1>1, <1>5 DEF ToSet
    <2>2. i + Len(s) \in 1..(Len(s) + Len(t)) /\ x = (s \o t)[i + Len(s)]
      BY <1>1, <1>2, <2>1
    <2>3. QED
      BY <1>1, <2>2 DEF ToSet
  <1>6. QED
    BY <1>1, <1>3, <1>4, <1>5

\* The rows so far, which FlattenSeq defines by recursion.
RowsSoFar(f, seqs, n) ==
    f = [i \in 1..n |-> IF i = 1 THEN seqs[i] ELSE f[i - 1] \o seqs[i]]

LEMMA RowsExist ==
    ASSUME NEW seqs, NEW n \in Nat
    PROVE  \E f : RowsSoFar(f, seqs, n)
  <1> DEFINE T == {k \in Nat : ~\E f : RowsSoFar(f, seqs, k)}
  <1> SUFFICES ASSUME T # {} PROVE FALSE
    OBVIOUS
  <1>1. PICK k \in T : \A j \in T : k <= j
    BY Least
  <1>2. k # 0
    <2>1. RowsSoFar(<<>>, seqs, 0)
      BY DEF RowsSoFar
    <2>2. QED
      BY <1>1, <2>1
  <1>3. k - 1 \in Nat /\ k - 1 \notin T
    BY <1>1, <1>2
  <1>4. PICK f : RowsSoFar(f, seqs, k - 1)
    BY <1>3
  <1> DEFINE g == [i \in 1..k |-> IF i = k
                       THEN IF k = 1 THEN seqs[k] ELSE f[k - 1] \o seqs[k]
                       ELSE f[i]]
  <1>5. RowsSoFar(g, seqs, k)
    <2>1. ASSUME NEW i \in 1..k
          PROVE  g[i] = IF i = 1 THEN seqs[i] ELSE g[i - 1] \o seqs[i]
      <3>1. CASE i = k
        BY <1>1, <1>2, <3>1
      <3>2. CASE i # k
        <4>1. i \in 1..(k - 1) /\ (i # 1 => i - 1 \in 1..k /\ i - 1 # k)
          BY <1>1, <3>2
        <4>2. f[i] = IF i = 1 THEN seqs[i] ELSE f[i - 1] \o seqs[i]
          BY <1>4, <4>1 DEF RowsSoFar
        <4>3. QED
          BY <3>2, <4>1, <4>2
      <3>3. QED
        BY <3>1, <3>2
    <2>2. QED
      BY <2>1 DEF RowsSoFar
  <1>6. QED
    BY <1>1, <1>5

\* Nothing is lost and nothing is added.
LEMMA FlattenElements ==
    ASSUME NEW S, NEW seqs \in Seq(Seq(S))
    PROVE  /\ FlattenSeq(seqs) \in Seq(S)
           /\ \A x : x \in ToSet(FlattenSeq(seqs))
                        <=> \E i \in DOMAIN seqs : x \in ToSet(seqs[i])
  <1>1. CASE seqs = <<>>
    <2>1. FlattenSeq(seqs) = <<>>
      BY <1>1 DEF FlattenSeq
    <2>2. <<>> \in Seq(S) /\ ToSet(<<>>) = {} /\ DOMAIN seqs = {}
      BY <1>1 DEF ToSet
    <2>3. QED
      BY <2>1, <2>2
  <1>2. CASE seqs # <<>>
    <2>1. Len(seqs) \in Nat /\ Len(seqs) >= 1 /\ DOMAIN seqs = 1..Len(seqs)
      BY <1>2
    <2> DEFINE G == CHOOSE f : RowsSoFar(f, seqs, Len(seqs))
    <2>2. RowsSoFar(G, seqs, Len(seqs))
      BY <2>1, RowsExist
    <2>3. FlattenSeq(seqs) = G[Len(seqs)]
      BY <2>1 DEF FlattenSeq, RowsSoFar
    <2> HIDE DEF G
    <2>4. ASSUME NEW i \in 1..Len(seqs)
          PROVE  G[i] = IF i = 1 THEN seqs[i] ELSE G[i - 1] \o seqs[i]
      BY <2>2, <2>4 DEF RowsSoFar
    <2> DEFINE Good(i) ==
            /\ G[i] \in Seq(S)
            /\ \A x : x \in ToSet(G[i]) <=> \E j \in 1..i : x \in ToSet(seqs[j])
               T == {i \in 1..Len(seqs) : ~Good(i)}
    <2>5. T = {}
      <3> SUFFICES ASSUME T # {} PROVE FALSE
        OBVIOUS
      <3>1. PICK i \in T : \A j \in T : i <= j
        <4>1. T \in SUBSET Nat
          BY <2>1
        <4>2. QED
          BY <4>1, Least
      <3>2. i \in 1..Len(seqs) /\ ~Good(i)
        BY <3>1
      <3>3. CASE i = 1
        <4>1. G[i] = seqs[i] /\ seqs[i] \in Seq(S)
          BY <2>1, <2>4, <3>2, <3>3
        <4>2. Good(i)
          BY <3>3, <4>1
        <4>3. QED
          BY <3>1, <4>2
      <3>4. CASE i # 1
        <4>1. i - 1 \in 1..Len(seqs) /\ ~(i <= i - 1)
          BY <2>1, <3>2, <3>4
        <4>2. Good(i - 1)
          BY <3>1, <4>1
        <4>3. G[i] = G[i - 1] \o seqs[i] /\ seqs[i] \in Seq(S)
          <5>1. G[i] = G[i - 1] \o seqs[i]
            BY <2>4, <3>2, <3>4
          <5>2. seqs[i] \in Seq(S)
            BY <2>1, <3>2
          <5>3. QED
            BY <5>1, <5>2
        <4>4. /\ G[i] \in Seq(S)
              /\ \A x : x \in ToSet(G[i])
                          <=> x \in ToSet(G[i - 1]) \/ x \in ToSet(seqs[i])
          BY <4>2, <4>3, ConcatElements
        <4>5. 1..i = (1..(i - 1)) \cup {i}
          BY <3>2, <3>4
        <4>6. Good(i)
          BY <4>2, <4>4, <4>5
        <4>7. QED
          BY <3>1, <4>6
      <3>5. QED
        BY <3>3, <3>4
    <2>6. Good(Len(seqs))
      <3>1. Len(seqs) \in 1..Len(seqs)
        BY <2>1
      <3>2. QED
        BY <2>5, <3>1
    <2>7. QED
      BY <2>1, <2>3, <2>6
  <1>3. QED
    BY <1>1, <1>2

-----------------------------------------------------------------------------
(* The tables.                                                             *)

Mappings == [f : Filters \cup {NoFilter}, t : Seq(Tranceivers) \ {<<>>}]

BridgesOK(b) ==
    /\ DOMAIN b \subseteq Tranceivers
    /\ b \in [DOMAIN b -> Seq(Mappings) \ {<<>>}]

\* What comes in by `in' goes to `out' under filter f.
Allows(b, in, out, f) ==
    /\ in \in DOMAIN b
    /\ \E i \in DOMAIN b[in] : b[in][i].f = f /\ out \in ToSet(b[in][i].t)

\* Each mapping was asked for; none is missing where there is one filter only.
TablesInv ==
    /\ BridgesOK(bridges)
    /\ called \subseteq BridgeCalls
    /\ \A in, out, f : Allows(bridges, in, out, f) => <<in, out, f>> \in called /\ in # out
    /\ \A c \in called : c[1] # c[2] /\ OneFilter(c[1]) => Allows(bridges, c[1], c[2], c[3])
    /\ routes \in Seq(RoutingCalls)
    /\ routed = ToSet(routes)

\* Who was offered the message and who still will be, and what the caller is
\* told in the end.
CallInv ==
    /\ phase \in {"configuring", "idle", "putting", "returned"}
    /\ message \in Messages
    /\ continue_on_error \in BOOLEAN /\ forwarded \in BOOLEAN
    /\ todo \in Seq(Tranceivers)
    /\ offered \in Seq([to : Tranceivers, answer : Answers])
    /\ phase \in {"putting", "returned"} =>
          /\ Offered \cup ToSet(todo) \subseteq Asked(message)
          /\ OneFilter(Source[message]) => Asked(message) \subseteq Offered \cup ToSet(todo)
    /\ phase = "putting" => (forwarded <=> offered # <<>>)
    /\ phase = "returned" /\ continue_on_error => todo = <<>>
    /\ VerdictIsRight

IInv == TablesInv /\ CallInv

-----------------------------------------------------------------------------
(* add_bridge_mapping()                                                    *)

LEMMA AppendElements ==
    ASSUME NEW S, NEW s \in Seq(S), NEW e \in S
    PROVE  /\ Append(s, e) \in Seq(S) /\ Append(s, e) # <<>>
           /\ \A x : x \in ToSet(Append(s, e)) <=> x \in ToSet(s) \/ x = e
  <1>1. /\ Append(s, e) \in Seq(S) /\ Len(Append(s, e)) = Len(s) + 1
        /\ Len(s) \in Nat
        /\ DOMAIN s = 1..Len(s) /\ DOMAIN Append(s, e) = 1..(Len(s) + 1)
    OBVIOUS
  <1>2. /\ Append(s, e)[Len(s) + 1] = e
        /\ \A i \in 1..Len(s) : Append(s, e)[i] = s[i]
    OBVIOUS
  <1>3. \A i \in 1..(Len(s) + 1) : i \in 1..Len(s) \/ i = Len(s) + 1
    BY <1>1
  <1>4. \A i \in 1..Len(s) : i \in 1..(Len(s) + 1)
    BY <1>1
  <1>5. Len(s) + 1 \in 1..(Len(s) + 1)
    BY <1>1
  <1>6. Append(s, e) # <<>>
    BY <1>1
  <1>7. QED
    BY <1>1, <1>2, <1>3, <1>4, <1>5, <1>6 DEF ToSet

LEMMA TailElements ==
    ASSUME NEW S, NEW s \in Seq(S), s # <<>>
    PROVE  /\ Head(s) \in S /\ Tail(s) \in Seq(S)
           /\ \A x : x \in ToSet(s) <=> x = Head(s) \/ x \in ToSet(Tail(s))
  <1>1. /\ Head(s) \in S /\ Tail(s) \in Seq(S) /\ Head(s) = s[1]
        /\ Len(s) \in Nat /\ Len(s) >= 1
        /\ DOMAIN s = 1..Len(s) /\ DOMAIN Tail(s) = 1..(Len(s) - 1)
        /\ \A i \in 1..(Len(s) - 1) : Tail(s)[i] = s[i + 1]
    OBVIOUS
  <1>2. ASSUME NEW x \in ToSet(s)
        PROVE  x = Head(s) \/ x \in ToSet(Tail(s))
    <2>1. PICK i \in 1..Len(s) : x = s[i]
      BY <1>1 DEF ToSet
    <2>2. CASE i = 1
      BY <1>1, <2>1, <2>2
    <2>3. CASE i # 1
      <3>1. i - 1 \in 1..(Len(s) - 1) /\ x = Tail(s)[i - 1]
        BY <1>1, <2>1, <2>3
      <3>2. QED
        BY <1>1, <3>1 DEF ToSet
    <2>4. QED
      BY <2>2, <2>3
  <1>3. ASSUME NEW x, x = Head(s) \/ x \in ToSet(Tail(s))
        PROVE  x \in ToSet(s)
    <2>1. CASE x = Head(s)
      BY <1>1, <2>1 DEF ToSet
    <2>2. CASE x \in ToSet(Tail(s))
      <3>1. PICK i \in 1..(Len(s) - 1) : x = Tail(s)[i]
        BY <1>1, <2>2 DEF ToSet
      <3>2. i + 1 \in 1..Len(s) /\ x = s[i + 1]
        BY <1>1, <3>1
      <3>3. QED
        BY <1>1, <3>2 DEF ToSet
    <2>3. QED
      BY <1>3, <2>1, <2>2
  <1>4. QED
    BY <1>1, <1>2, <1>3

\* Who has mappings sends to somebody by each of them.
LEMMA MappingsType ==
    ASSUME NEW b, BridgesOK(b), NEW in \in DOMAIN b
    PROVE  /\ b[in] \in Seq(Mappings) /\ b[in] # <<>>
           /\ DOMAIN b[in] = 1..Len(b[in]) /\ Len(b[in]) \in Nat /\ Len(b[in]) >= 1
           /\ \A i \in DOMAIN b[in] :
                 /\ b[in][i] \in Mappings
                 /\ b[in][i].f \in Filters \cup {NoFilter}
                 /\ b[in][i].t \in Seq(Tranceivers)
                 /\ b[in][i].t # <<>>
                 /\ \E out : out \in ToSet(b[in][i].t)
  <1>1. b[in] \in Seq(Mappings) /\ b[in] # <<>>
    BY DEF BridgesOK
  <1>2. DOMAIN b[in] = 1..Len(b[in]) /\ Len(b[in]) \in Nat /\ Len(b[in]) >= 1
    BY <1>1
  <1>3. ASSUME NEW i \in DOMAIN b[in]
        PROVE  /\ b[in][i] \in Mappings
               /\ b[in][i].f \in Filters \cup {NoFilter}
               /\ b[in][i].t \in Seq(Tranceivers)
               /\ b[in][i].t # <<>>
               /\ \E out : out \in ToSet(b[in][i].t)
    <2>1. b[in][i] \in Mappings
      BY <1>1, <1>2, <1>3
    <2>2. /\ b[in][i].f \in Filters \cup {NoFilter}
          /\ b[in][i].t \in Seq(Tranceivers) /\ b[in][i].t # <<>>
      BY <2>1 DEF Mappings
    <2>3. 1 \in DOMAIN b[in][i].t
      BY <2>2
    <2>4. QED
      BY <2>1, <2>2, <2>3 DEF ToSet
  <1>4. QED
    BY <1>1, <1>2, <1>3

\* The list of a filter that is known grows; a tranceiver that comes for the
\* first time gets one; what comes with another filter is dropped.
LEMMA AddBridgeAllows ==
    ASSUME NEW b, BridgesOK(b), NEW in \in Tranceivers, NEW out \in Tranceivers,
           NEW f \in Filters \cup {NoFilter}
    PROVE  /\ BridgesOK(AddBridge(b, in, out, f))
           /\ \A a, x, g : Allows(AddBridge(b, in, out, f), a, x, g)
                 <=> \/ Allows(b, a, x, g)
                     \/ /\ a = in /\ x = out /\ g = f /\ in # out
                        /\ in \notin DOMAIN b \/ \E y : Allows(b, in, y, f)
  <1> DEFINE n == AddBridge(b, in, out, f)
  <1>1. CASE in = out
    BY <1>1 DEF AddBridge
  <1>2. CASE in # out /\ in \notin DOMAIN b
    <2> DEFINE first == <<BridgeMapping(f, <<out>>)>>
    <2>1. n = [x \in DOMAIN b \cup {in} |-> IF x = in THEN first ELSE b[x]]
      BY <1>2 DEF AddBridge, WithFirst
    <2>2. /\ first \in Seq(Mappings) \ {<<>>} /\ DOMAIN first = {1}
          /\ first[1].f = f /\ first[1].t = <<out>> /\ ToSet(<<out>>) = {out}
      <3>1. <<out>> \in Seq(Tranceivers) \ {<<>>} /\ ToSet(<<out>>) = {out}
        BY DEF ToSet
      <3>2. BridgeMapping(f, <<out>>) \in Mappings
        BY <3>1 DEF BridgeMapping, Mappings
      <3>3. QED
        BY <3>1, <3>2 DEF BridgeMapping
    <2> HIDE DEF n, first
    <2>3. BridgesOK(n)
      BY <2>1, <2>2 DEF BridgesOK
    <2>4. ASSUME NEW a, NEW x, NEW g
          PROVE  Allows(n, a, x, g) <=> \/ Allows(b, a, x, g)
                                        \/ a = in /\ x = out /\ g = f
      <3>1. CASE a = in
        BY <1>2, <2>1, <2>2, <3>1 DEF Allows
      <3>2. CASE a # in
        BY <2>1, <3>2 DEF Allows
      <3>3. QED
        BY <3>1, <3>2
    <2>5. QED
      BY <1>2, <2>3, <2>4 DEF n
  <1>3. CASE in # out /\ in \in DOMAIN b /\ SameFilter(b[in], f) = {}
    <2>1. n = b
      BY <1>3 DEF AddBridge
    <2>2. \A y : ~Allows(b, in, y, f)
      BY <1>3 DEF Allows, SameFilter
    <2>3. QED
      BY <1>3, <2>1, <2>2
  <1>4. CASE in # out /\ in \in DOMAIN b /\ SameFilter(b[in], f) # {}
    <2> DEFINE k == Min(SameFilter(b[in], f))
    <2>1. k \in DOMAIN b[in] /\ b[in][k].f = f
      <3>1. SameFilter(b[in], f) \in SUBSET Nat
        BY <1>4, MappingsType DEF SameFilter
      <3>2. \E i \in SameFilter(b[in], f) : \A j \in SameFilter(b[in], f) : i <= j
        BY <1>4, <3>1, Least
      <3>3. k \in SameFilter(b[in], f)
        BY <3>2 DEF Min
      <3>4. QED
        BY <3>3 DEF SameFilter
    <2> HIDE DEF k
    <2> DEFINE grown == Append(b[in][k].t, out)
               list == [b[in] EXCEPT ![k].t = grown]
    <2>2. n = [b EXCEPT ![in] = list]
      BY <1>4 DEF AddBridge, k
    <2>3. /\ grown \in Seq(Tranceivers) \ {<<>>}
          /\ \A x : x \in ToSet(grown) <=> x \in ToSet(b[in][k].t) \/ x = out
      <3>1. b[in][k].t \in Seq(Tranceivers)
        BY <1>4, <2>1, MappingsType
      <3>2. QED
        BY <3>1, AppendElements
    <2> HIDE DEF grown
    <2>4. /\ DOMAIN list = DOMAIN b[in]
          /\ \A i \in DOMAIN b[in] :
                /\ list[i].f = b[in][i].f
                /\ list[i].t = IF i = k THEN grown ELSE b[in][i].t
                /\ list[i] \in Mappings
      <3>1. DOMAIN list = DOMAIN b[in]
        OBVIOUS
      <3>2. ASSUME NEW i \in DOMAIN b[in], i # k
            PROVE  list[i] = b[in][i]
        BY <3>2
      <3>3. list[k] = [b[in][k] EXCEPT !.t = grown]
        BY <2>1
      <3>4. b[in][k] \in [f : Filters \cup {NoFilter}, t : Seq(Tranceivers) \ {<<>>}]
        BY <1>4, <2>1, MappingsType DEF Mappings
      <3>5. list[k].f = b[in][k].f /\ list[k].t = grown /\ list[k] \in Mappings
        BY <2>3, <3>3, <3>4 DEF Mappings
      <3>6. QED
        BY <1>4, <3>1, <3>2, <3>5, MappingsType
    <2>5. list \in Seq(Mappings) \ {<<>>}
      <3>1. list[k] \in Mappings /\ k \in 1..Len(b[in])
        BY <1>4, <2>1, <2>4, MappingsType
      <3>2. b[in] \in Seq(Mappings) /\ b[in] # <<>>
        BY <1>4, MappingsType
      <3>3. list = [b[in] EXCEPT ![k] = list[k]]
        BY <2>1
      <3>4. list \in Seq(Mappings) /\ Len(list) = Len(b[in])
        <4> HIDE DEF list
        <4>1. [b[in] EXCEPT ![k] = list[k]] \in Seq(Mappings)
          BY <3>1, <3>2, ExceptSeq
        <4>2. Len([b[in] EXCEPT ![k] = list[k]]) = Len(b[in])
          BY <3>1, <3>2, ExceptSeq
        <4>3. QED
          BY <3>3, <4>1, <4>2
      <3>5. QED
        BY <3>2, <3>4
    <2> HIDE DEF list
    <2>6. BridgesOK(n)
      BY <2>2, <2>5 DEF BridgesOK
    <2> HIDE DEF n
    <2>7. ASSUME NEW a, NEW x, NEW g
          PROVE  Allows(n, a, x, g) <=> \/ Allows(b, a, x, g)
                                        \/ a = in /\ x = out /\ g = f
      <3>1. CASE a # in
        BY <2>2, <3>1 DEF Allows
      <3>2. CASE a = in
        <4>1. n[in] = list /\ DOMAIN n = DOMAIN b
          BY <1>4, <2>2
        <4>2. Allows(n, in, x, g) <=>
                 \E i \in DOMAIN b[in] : list[i].f = g /\ x \in ToSet(list[i].t)
          BY <1>4, <2>4, <4>1 DEF Allows
        <4>3. \A i \in DOMAIN b[in] :
                 x \in ToSet(list[i].t) <=> x \in ToSet(b[in][i].t) \/ (i = k /\ x = out)
          BY <2>3, <2>4
        <4>4. QED
          BY <1>4, <2>1, <2>4, <3>2, <4>2, <4>3 DEF Allows
      <3>3. QED
        BY <3>1, <3>2
    <2>8. \E y : Allows(b, in, y, f)
      BY <1>4, <2>1, MappingsType DEF Allows
    <2>9. QED
      BY <1>4, <2>6, <2>7, <2>8 DEF n
  <1>5. QED
    BY <1>1, <1>2, <1>3, <1>4

-----------------------------------------------------------------------------
(* put_message(): whom its loops go through.                               *)

LEMMA BridgeTargetsAre ==
    ASSUME NEW b, BridgesOK(b), NEW in, NEW m
    PROVE  /\ BridgeTargets(b, in, m) \in Seq(Tranceivers)
           /\ \A x : x \in ToSet(BridgeTargets(b, in, m)) <=>
                 \E f \in Filters \cup {NoFilter} :
                    /\ Allows(b, in, x, f)
                    /\ f = NoFilter \/ (f # NoFilter /\ m \in Passes[f])
  <1>1. CASE in \notin DOMAIN b
    BY <1>1 DEF BridgeTargets, Allows, ToSet
  <1>2. CASE in \in DOMAIN b
    <2> DEFINE parts == [i \in DOMAIN b[in] |->
                             IF BridgeApplies(b[in][i], m) THEN b[in][i].t ELSE <<>>]
    <2>1. parts \in Seq(Seq(Tranceivers)) /\ DOMAIN parts = DOMAIN b[in]
      <3>1. \A i \in DOMAIN b[in] : parts[i] \in Seq(Tranceivers)
        BY <1>2, MappingsType
      <3>2. DOMAIN b[in] = 1..Len(b[in]) /\ Len(b[in]) \in Nat
        BY <1>2, MappingsType
      <3>3. parts \in [1..Len(b[in]) -> Seq(Tranceivers)]
        BY <3>1, <3>2
      <3> HIDE DEF parts
      <3>4. parts \in Seq(Seq(Tranceivers))
        BY <3>2, <3>3
      <3>5. QED
        BY <3>2, <3>3, <3>4
    <2>2. BridgeTargets(b, in, m) = FlattenSeq(parts)
      BY <1>2 DEF BridgeTargets
    <2>3. \A i \in DOMAIN b[in] : \A x : x \in ToSet(parts[i]) <=>
              BridgeApplies(b[in][i], m) /\ x \in ToSet(b[in][i].t)
      <3>1. ToSet(<<>>) = {}
        BY DEF ToSet
      <3>2. QED
        BY <3>1
    <2> HIDE DEF parts
    <2>4. /\ FlattenSeq(parts) \in Seq(Tranceivers)
          /\ \A x : x \in ToSet(FlattenSeq(parts))
                       <=> \E i \in DOMAIN parts : x \in ToSet(parts[i])
      BY <2>1, FlattenElements
    <2>5. \A i \in DOMAIN b[in] : b[in][i].f \in Filters \cup {NoFilter}
      BY <1>2, MappingsType
    <2>6. ASSUME NEW x
          PROVE  (\E i \in DOMAIN b[in] : BridgeApplies(b[in][i], m) /\ x \in ToSet(b[in][i].t))
                 <=> \E f \in Filters \cup {NoFilter} :
                        /\ Allows(b, in, x, f)
                        /\ f = NoFilter \/ (f # NoFilter /\ m \in Passes[f])
      BY <1>2, <2>5 DEF Allows, BridgeApplies
    <2>7. QED
      BY <2>1, <2>2, <2>3, <2>4, <2>6
  <1>3. QED
    BY <1>1, <1>2

LEMMA RouteTargetsAre ==
    ASSUME NEW r \in Seq(RoutingCalls), NEW m
    PROVE  /\ RouteTargets(r, m) \in Seq(Tranceivers)
           /\ \A x : x \in ToSet(RouteTargets(r, m)) <=>
                 \E mapping \in ToSet(r) : RouteApplies(mapping, m) /\ x \in ToSet(mapping.out)
  <1> DEFINE parts == [i \in DOMAIN r |->
                           IF RouteApplies(r[i], m) THEN r[i].out ELSE <<>>]
  <1>1. parts \in Seq(Seq(Tranceivers)) /\ DOMAIN parts = DOMAIN r
    <2>1. DOMAIN r = 1..Len(r) /\ Len(r) \in Nat /\ \A i \in DOMAIN r : r[i] \in RoutingCalls
      OBVIOUS
    <2>2. \A i \in DOMAIN r : parts[i] \in Seq(Tranceivers)
      BY <2>1, SwitchboardCallsAssumption
    <2>3. QED
      BY <2>1, <2>2
  <1>2. \A i \in DOMAIN r : \A x : x \in ToSet(parts[i]) <=>
            RouteApplies(r[i], m) /\ x \in ToSet(r[i].out)
    BY DEF ToSet
  <1>3. RouteTargets(r, m) = FlattenSeq(parts)
    BY DEF RouteTargets
  <1> HIDE DEF parts
  <1>4. /\ FlattenSeq(parts) \in Seq(Tranceivers)
        /\ \A x : x \in ToSet(FlattenSeq(parts))
                     <=> \E i \in DOMAIN parts : x \in ToSet(parts[i])
    BY <1>1, FlattenElements
  <1>5. ASSUME NEW x
        PROVE  (\E i \in DOMAIN r : RouteApplies(r[i], m) /\ x \in ToSet(r[i].out))
               <=> \E mapping \in ToSet(r) : RouteApplies(mapping, m) /\ x \in ToSet(mapping.out)
    BY DEF ToSet
  <1>6. QED
    BY <1>1, <1>2, <1>3, <1>4, <1>5

\* The targets are those the configuration asks for, one mapping by one; all
\* of them where the sender's have one filter.
LEMMA TargetsAreAsked ==
    ASSUME TablesInv, NEW m \in Messages
    PROVE  LET targets == Targets(bridges, routes, Source[m], m)
           IN  /\ targets \in Seq(Tranceivers)
               /\ ToSet(targets) \subseteq Asked(m)
               /\ OneFilter(Source[m]) => Asked(m) \subseteq ToSet(targets)
  <1> DEFINE byBridge == BridgeTargets(bridges, Source[m], m)
             byRoute == RouteTargets(routes, m)
  <1>1. byBridge \in Seq(Tranceivers) /\ byRoute \in Seq(Tranceivers)
    BY BridgeTargetsAre, RouteTargetsAre DEF TablesInv
  <1>2. ASSUME NEW x
        PROVE  x \in ToSet(byRoute) <=> x \in AskedByRoute(m)
    BY RouteTargetsAre DEF TablesInv, AskedByRoute
  <1>3. ASSUME NEW x \in ToSet(byBridge)
        PROVE  x \in AskedByBridge(m)
    <2>1. PICK f \in Filters \cup {NoFilter} :
              /\ Allows(bridges, Source[m], x, f)
              /\ f = NoFilter \/ (f # NoFilter /\ m \in Passes[f])
      BY BridgeTargetsAre DEF TablesInv
    <2> DEFINE c == <<Source[m], x, f>>
    <2>2. c \in called /\ Source[m] # x
      BY <2>1 DEF TablesInv
    <2>3. c[1] = Source[m] /\ c[2] = x /\ c[3] = f
      OBVIOUS
    <2>4. f = NoFilter \/ (f \in Filters /\ m \in Passes[f])
      BY <2>1
    <2> HIDE DEF c
    <2>5. QED
      BY <2>2, <2>3, <2>4 DEF AskedByBridge
  <1>4. ASSUME OneFilter(Source[m]), NEW x \in AskedByBridge(m)
        PROVE  x \in ToSet(byBridge)
    <2>1. PICK c \in called : /\ c[1] = Source[m] /\ c[1] # c[2] /\ c[2] = x
                              /\ \/ c[3] = NoFilter
                                 \/ c[3] \in Filters /\ m \in Passes[c[3]]
      BY DEF AskedByBridge
    <2>2. Allows(bridges, Source[m], x, c[3])
      BY <1>4, <2>1 DEF TablesInv
    <2>3. c[3] \in Filters \cup {NoFilter} /\ (c[3] \in Filters => c[3] # NoFilter)
      BY <2>1, SwitchboardAssumption
    <2>4. QED
      BY <2>1, <2>2, <2>3, BridgeTargetsAre DEF TablesInv
  <1> HIDE DEF byBridge, byRoute
  <1>5. /\ byBridge \o byRoute \in Seq(Tranceivers)
        /\ \A x : x \in ToSet(byBridge \o byRoute)
                     <=> x \in ToSet(byBridge) \/ x \in ToSet(byRoute)
    BY <1>1, ConcatElements
  <1>6. Targets(bridges, routes, Source[m], m) = byBridge \o byRoute
    BY DEF Targets, byBridge, byRoute
  <1>7. QED
    BY <1>2, <1>3, <1>4, <1>5, <1>6 DEF Asked

-----------------------------------------------------------------------------
(* The configuration calls.                                                *)

LEMMA AddBridgeStep ==
    ASSUME TablesInv, AddBridgeMapping
    PROVE  TablesInv'
  <1>1. PICK c \in BridgeCalls \ called :
            /\ bridges' = AddBridge(bridges, c[1], c[2], c[3])
            /\ called' = called \cup {c}
    BY DEF AddBridgeMapping
  <1>2. /\ c = <<c[1], c[2], c[3]>>
        /\ c[1] \in Tranceivers /\ c[2] \in Tranceivers
        /\ c[3] \in Filters \cup {NoFilter}
    BY SwitchboardCallsAssumption
  <1>3. UNCHANGED <<routes, routed>>
    BY DEF AddBridgeMapping
  <1>4. /\ BridgesOK(bridges')
        /\ \A a, x, g : Allows(bridges', a, x, g)
              <=> \/ Allows(bridges, a, x, g)
                  \/ /\ a = c[1] /\ x = c[2] /\ g = c[3] /\ c[1] # c[2]
                     /\ c[1] \notin DOMAIN bridges \/ \E y : Allows(bridges, c[1], y, c[3])
    BY <1>1, <1>2, AddBridgeAllows DEF TablesInv
  <1>5. ASSUME NEW a, NEW x, NEW g, Allows(bridges', a, x, g)
        PROVE  <<a, x, g>> \in called' /\ a # x
    <2>1. CASE Allows(bridges, a, x, g)
      BY <1>1, <2>1 DEF TablesInv
    <2>2. CASE a = c[1] /\ x = c[2] /\ g = c[3] /\ c[1] # c[2]
      BY <1>1, <1>2, <2>2
    <2>3. QED
      BY <1>4, <1>5, <2>1, <2>2
  <1>6. ASSUME NEW d \in called', d[1] # d[2], OneFilter(d[1])'
        PROVE  Allows(bridges', d[1], d[2], d[3])
    <2>1. OneFilter(d[1])
      BY <1>1, <1>6 DEF OneFilter
    <2>2. CASE d \in called
      BY <1>4, <1>6, <2>1, <2>2 DEF TablesInv
    <2>3. CASE d = c
      <3>1. CASE c[1] \notin DOMAIN bridges
        BY <1>4, <1>6, <2>3, <3>1
      <3>2. CASE c[1] \in DOMAIN bridges
        <4>1. PICK y, f : Allows(bridges, c[1], y, f)
          <5>1. /\ 1 \in DOMAIN bridges[c[1]]
                /\ \E y : y \in ToSet(bridges[c[1]][1].t)
            <6>1. BridgesOK(bridges)
              BY DEF TablesInv
            <6>2. 1 \in DOMAIN bridges[c[1]]
              BY <3>2, <6>1, MappingsType
            <6>3. QED
              BY <3>2, <6>1, <6>2, MappingsType
          <5>2. QED
            BY <3>2, <5>1 DEF Allows
        <4>2. <<c[1], y, f>> \in called /\ c[1] # y
          BY <4>1 DEF TablesInv
        <4>3. f = c[3]
          <5> DEFINE e == <<c[1], y, f>>
          <5>1. e \in called' /\ e[1] = c[1] /\ e[2] # c[1] /\ e[3] = f
            BY <1>1, <4>2
          <5>2. c \in called' /\ c[2] # c[1]
            BY <1>1, <1>6, <2>3
          <5> HIDE DEF e
          <5>3. QED
            BY <1>6, <2>3, <5>1, <5>2 DEF OneFilter
        <4>4. QED
          BY <1>4, <1>6, <2>3, <4>1, <4>3
      <3>3. QED
        BY <3>1, <3>2
    <2>4. QED
      BY <1>1, <1>6, <2>2, <2>3
  <1>7. called' \subseteq BridgeCalls
    BY <1>1 DEF TablesInv
  <1>8. QED
    BY <1>3, <1>4, <1>5, <1>6, <1>7 DEF TablesInv, Allows, BridgesOK, Mappings

LEMMA AddRoutingStep ==
    ASSUME TablesInv, AddRoutingMapping
    PROVE  TablesInv'
  <1>1. PICK mapping \in RoutingCalls :
            routes' = Append(routes, mapping) /\ routed' = routed \cup {mapping}
    BY DEF AddRoutingMapping, AddRouting
  <1>2. /\ Append(routes, mapping) \in Seq(RoutingCalls)
        /\ \A x : x \in ToSet(Append(routes, mapping)) <=> x \in ToSet(routes) \/ x = mapping
    BY AppendElements DEF TablesInv
  <1>3. routes' \in Seq(RoutingCalls) /\ routed' = ToSet(routes')
    BY <1>1, <1>2 DEF TablesInv
  <1>4. UNCHANGED <<bridges, called>>
    BY DEF AddRoutingMapping
  <1>5. QED
    BY <1>3, <1>4 DEF TablesInv, OneFilter

\* While the tables are filled no message is put through.
LEMMA ConfiguringStep ==
    ASSUME CallInv, Configuring
    PROVE  CallInv'
  BY DEF CallInv, Configuring, VerdictIsRight

-----------------------------------------------------------------------------
(* One call of put_message().                                              *)

LEMMA PutMessageStep ==
    ASSUME TablesInv, CallInv, PutMessage
    PROVE  CallInv'
  <1>1. PICK m \in Messages :
            /\ message' = m
            /\ todo' = Targets(bridges, routes, Source[m], m)
    BY DEF PutMessage
  <1>2. /\ phase' = "putting" /\ offered' = <<>> /\ forwarded' = FALSE
        /\ continue_on_error' \in BOOLEAN
        /\ UNCHANGED <<bridges, routes, called, routed>>
    BY DEF PutMessage, tables
  <1>3. /\ todo' \in Seq(Tranceivers)
        /\ ToSet(todo') \subseteq Asked(m)
        /\ OneFilter(Source[m]) => Asked(m) \subseteq ToSet(todo')
    BY <1>1, TargetsAreAsked
  <1>4. Asked(message)' = Asked(m) /\ OneFilter(Source[message])' = OneFilter(Source[m])
    BY <1>1, <1>2 DEF Asked, AskedByBridge, AskedByRoute, OneFilter
  <1>5. Offered' = {}
    BY <1>2 DEF Offered, ToSet
  <1>6. offered' \in Seq([to : Tranceivers, answer : Answers])
    BY <1>2
  <1>7. QED
    BY <1>1, <1>2, <1>3, <1>4, <1>5, <1>6 DEF CallInv, VerdictIsRight

\* What the next target answers: it was to come and has been.
LEMMA PutTargetStep ==
    ASSUME TablesInv, CallInv, PutTarget
    PROVE  CallInv'
  <1> DEFINE Offers == [to : Tranceivers, answer : Answers]
  <1>1. PICK answer \in Answers :
            /\ offered' = Append(offered, [to |-> Head(todo), answer |-> answer])
            /\ todo' = Tail(todo)
            /\ forwarded' = TRUE
            /\ IF GivesUp(answer)
               THEN phase' = "returned" /\ rc' = answer
               ELSE UNCHANGED <<phase, rc>>
    BY DEF PutTarget, Forwards
  <1>2. /\ phase = "putting" /\ todo # <<>>
        /\ UNCHANGED <<bridges, routes, called, routed, message, continue_on_error>>
    BY DEF PutTarget, tables
  <1> DEFINE next == [to |-> Head(todo), answer |-> answer]
  <1>3. /\ todo \in Seq(Tranceivers) /\ todo # <<>> /\ offered \in Seq(Offers)
    BY <1>2 DEF CallInv
  <1>4. /\ Head(todo) \in Tranceivers /\ Tail(todo) \in Seq(Tranceivers)
        /\ \A x : x \in ToSet(todo) <=> x = Head(todo) \/ x \in ToSet(Tail(todo))
    BY <1>3, TailElements
  <1>5. next \in Offers /\ next.to = Head(todo) /\ next.answer = answer
    BY <1>4
  <1> HIDE DEF next
  <1>6. /\ offered' \in Seq(Offers) /\ offered' # <<>>
        /\ \A x : x \in ToSet(offered') <=> x \in ToSet(offered) \/ x = next
        /\ Last(offered') = next
    <2>1. offered' = Append(offered, next)
      BY <1>1 DEF next
    <2>2. Last(Append(offered, next)) = next
      BY <1>3, <1>5 DEF Last
    <2>3. /\ Append(offered, next) \in Seq(Offers) /\ Append(offered, next) # <<>>
          /\ \A x : x \in ToSet(Append(offered, next)) <=> x \in ToSet(offered) \/ x = next
      <3> HIDE DEF Offers
      <3>1. QED
        BY <1>3, <1>5, AppendElements
    <2>4. QED
      BY <2>1, <2>2, <2>3
  <1>7. Offered' \cup ToSet(todo') = Offered \cup ToSet(todo)
    <2>1. Offered' = Offered \cup {Head(todo)}
      BY <1>5, <1>6 DEF Offered
    <2>2. ToSet(todo) = {Head(todo)} \cup ToSet(todo')
      BY <1>1, <1>4
    <2>3. QED
      BY <2>1, <2>2
  <1>8. Asked(message)' = Asked(message) /\ OneFilter(Source[message])' = OneFilter(Source[message])
    BY <1>2 DEF Asked, AskedByBridge, AskedByRoute, OneFilter
  <1>9. CASE GivesUp(answer)
    <2>1. /\ phase' = "returned" /\ rc' = answer /\ ~continue_on_error'
          /\ answer = "TE_hardware"
      BY <1>1, <1>2, <1>9 DEF GivesUp, Answers
    <2>2. VerdictIsRight'
      BY <1>5, <1>6, <2>1 DEF VerdictIsRight
    <2>3. QED
      BY <1>1, <1>2, <1>4, <1>6, <1>7, <1>8, <2>1, <2>2 DEF CallInv
  <1>10. CASE ~GivesUp(answer)
    <2>1. phase' = "putting"
      BY <1>1, <1>2, <1>10
    <2>2. QED
      BY <1>1, <1>2, <1>4, <1>6, <1>7, <1>8, <2>1 DEF CallInv, VerdictIsRight
  <1>11. QED
    BY <1>9, <1>10

LEMMA PutReturnStep ==
    ASSUME TablesInv, CallInv, PutReturn
    PROVE  CallInv'
  <1>1. /\ phase = "putting" /\ phase' = "returned" /\ todo = <<>>
        /\ rc' = IF forwarded THEN "TE_ok" ELSE "TE_filter"
        /\ UNCHANGED <<bridges, routes, called, routed, message, continue_on_error,
                       todo, offered, forwarded>>
    BY DEF PutReturn, tables
  <1>2. forwarded <=> offered # <<>>
    BY <1>1 DEF CallInv
  <1>3. VerdictIsRight'
    BY <1>1, <1>2 DEF VerdictIsRight
  <1>4. /\ Asked(message)' = Asked(message) /\ Offered' = Offered
        /\ OneFilter(Source[message])' = OneFilter(Source[message])
    BY <1>1 DEF Asked, AskedByBridge, AskedByRoute, OneFilter, Offered
  <1>5. QED
    BY <1>1, <1>3, <1>4 DEF CallInv

LEMMA StepKeepsInv == IInv /\ [Next]_vars => IInv'
  <1> SUFFICES ASSUME TablesInv, CallInv, [Next]_vars PROVE TablesInv' /\ CallInv'
    BY DEF IInv
  <1>1. CASE AddBridgeMapping
    BY <1>1, AddBridgeStep, ConfiguringStep DEF AddBridgeMapping
  <1>2. CASE AddRoutingMapping
    BY <1>2, AddRoutingStep, ConfiguringStep DEF AddRoutingMapping
  <1>3. ASSUME UNCHANGED tables PROVE TablesInv'
    BY <1>3 DEF tables, TablesInv, OneFilter
  <1>4. CASE Configured
    <2>1. UNCHANGED tables
      BY <1>4 DEF Configured
    <2>2. CallInv'
      BY <1>4 DEF Configured, CallInv, VerdictIsRight
    <2>3. QED
      BY <1>3, <2>1, <2>2
  <1>5. CASE PutMessage
    BY <1>3, <1>5, PutMessageStep DEF PutMessage
  <1>6. CASE PutTarget
    BY <1>3, <1>6, PutTargetStep DEF PutTarget
  <1>7. CASE PutReturn
    BY <1>3, <1>7, PutReturnStep DEF PutReturn
  <1>8. CASE UNCHANGED vars
    <2>1. UNCHANGED tables
      BY <1>8 DEF vars, tables
    <2>2. CallInv'
      <3>1. /\ Asked(message)' = Asked(message) /\ Offered' = Offered
            /\ OneFilter(Source[message])' = OneFilter(Source[message])
        BY <1>8 DEF vars, Asked, AskedByBridge, AskedByRoute, OneFilter, Offered
      <3>2. VerdictIsRight'
        BY <1>8 DEF vars, CallInv, VerdictIsRight
      <3>3. QED
        BY <1>8, <3>1, <3>2 DEF vars, CallInv
    <2>3. QED
      BY <1>3, <2>1, <2>2
  <1>9. QED
    BY <1>1, <1>2, <1>4, <1>5, <1>6, <1>7, <1>8 DEF Next

LEMMA StartIsGood == Init => IInv
  <1> SUFFICES ASSUME Init PROVE TablesInv /\ CallInv
    BY DEF IInv
  <1>1. DOMAIN bridges = {} /\ called = {} /\ routes = <<>> /\ routed = {}
    BY DEF Init, NoBridges
  <1>2. BridgesOK(bridges)
    <2>1. bridges \in [{} -> Seq(Mappings) \ {<<>>}]
      BY DEF Init, NoBridges
    <2>2. QED
      BY <1>1, <2>1 DEF BridgesOK
  <1>3. routes \in Seq(RoutingCalls) /\ routed = ToSet(routes)
    BY <1>1 DEF ToSet
  <1>4. TablesInv
    BY <1>1, <1>2, <1>3 DEF TablesInv, Allows
  <1>5. CallInv
    <2>1. todo = <<>> /\ offered = <<>> /\ phase = "configuring" /\ message \in Messages
          /\ continue_on_error = TRUE /\ forwarded = FALSE
      BY DEF Init
    <2>2. /\ todo \in Seq(Tranceivers)
          /\ offered \in Seq([to : Tranceivers, answer : Answers])
      BY <2>1
    <2>3. QED
      BY <2>1, <2>2 DEF CallInv, VerdictIsRight
  <1>6. QED
    BY <1>4, <1>5

(***************************************************************************)
(* A message only goes where a mapping sends it, whatever was configured   *)
(* and in whatever order. (switchboard.cpp:15-45, 60-80)                   *)
(***************************************************************************)
THEOREM OnlyEverWhereAsked == Spec => []OnlyWhereAsked
  <1>1. IInv => OnlyWhereAsked
    BY DEF IInv, CallInv, OnlyWhereAsked
  <1>2. QED
    BY <1>1, StartIsGood, StepKeepsInv, PTL DEF Spec

(***************************************************************************)
(* The caller is told what became of the message.                          *)
(* (switchboard.cpp:73-74, 129-142)                                        *)
(***************************************************************************)
THEOREM VerdictIsAlwaysRight == Spec => []VerdictIsRight
  <1>1. IInv => VerdictIsRight
    BY DEF IInv, CallInv
  <1>2. QED
    BY <1>1, StartIsGood, StepKeepsInv, PTL DEF Spec

(***************************************************************************)
(* No mapping is lost of a tranceiver whose mappings have one filter, and  *)
(* no target that fails costs the others the message.                      *)
(* (switchboard.cpp:29-44, 60-134)                                         *)
(***************************************************************************)
THEOREM MappingsOfOneFilterAlwaysCount == Spec => []MappingsOfOneFilterCount
  <1>1. IInv => MappingsOfOneFilterCount
    <2> SUFFICES ASSUME IInv, OneFilter(Source[message]), phase = "returned",
                        continue_on_error
                 PROVE  Asked(message) \subseteq Offered
      BY DEF MappingsOfOneFilterCount, EveryMappingCounts
    <2>1. todo = <<>> /\ Asked(message) \subseteq Offered \cup ToSet(todo)
      BY DEF IInv, CallInv
    <2>2. QED
      BY <2>1 DEF ToSet
  <1>2. QED
    BY <1>1, StartIsGood, StepKeepsInv, PTL DEF Spec
=============================================================================

----------------------------- MODULE RouterProofs -----------------------------
(***************************************************************************)
(* The assertion in main's loop never fails, for any number of             *)
(* tranceivers, threads and messages: the tranceivers' queues and the work *)
(* queue, which are never locked together, always agree.  And what the     *)
(* router does is what a Relay does.                                       *)
(***************************************************************************)
EXTENDS Router, FiniteSetTheorems, SequenceTheorems, TLAPS

-----------------------------------------------------------------------------
(* Counting the occurrences of an element of a sequence.                   *)

\* The places where t occurs in q.
Places(q, t) == {i \in 1..Len(q) : q[i] = t}

LEMMA PlacesFinite ==
    ASSUME NEW S, NEW q \in Seq(S), NEW t
    PROVE  IsFiniteSet(Places(q, t)) /\ Count(q, t) = Cardinality(Places(q, t))
                                     /\ Count(q, t) \in Nat
  <1>1. IsFiniteSet(1..Len(q))
    BY FS_Interval, LenProperties
  <1>2. IsFiniteSet(Places(q, t))
    BY <1>1, FS_Subset DEF Places
  <1>3. Count(q, t) = Cardinality(Places(q, t))
    BY DEF Count, Places
  <1>4. QED
    BY <1>2, <1>3, FS_CardinalityType

\* An element appended counts once more, all others as before.
LEMMA CountAppend ==
    ASSUME NEW S, NEW q \in Seq(S), NEW x \in S, NEW t
    PROVE  Count(Append(q, x), t) = Count(q, t) + (IF x = t THEN 1 ELSE 0)
  <1> DEFINE qx == Append(q, x)
             n  == Len(q) + 1
  <1>1. /\ qx \in Seq(S) /\ Len(qx) = n /\ qx[n] = x
        /\ \A i \in 1..Len(q) : qx[i] = q[i]
        /\ Len(q) \in Nat
    BY AppendProperties, LenProperties
  <1>2. IsFiniteSet(Places(q, t)) /\ Count(q, t) = Cardinality(Places(q, t))
        /\ Count(qx, t) = Cardinality(Places(qx, t)) /\ Count(q, t) \in Nat
    BY <1>1, PlacesFinite
  <1>3. CASE x = t
    <2>1. Places(qx, t) = Places(q, t) \cup {n}
      BY <1>1, <1>3 DEF Places
    <2>2. n \notin Places(q, t)
      BY <1>1 DEF Places
    <2>3. Cardinality(Places(qx, t)) = Cardinality(Places(q, t)) + 1
      BY <1>2, <2>1, <2>2, FS_AddElement
    <2>4. QED
      BY <1>2, <1>3, <2>3
  <1>4. CASE x # t
    <2>1. Places(qx, t) = Places(q, t)
      BY <1>1, <1>4 DEF Places
    <2>2. QED
      BY <1>2, <1>4, <2>1
  <1>5. QED
    BY <1>3, <1>4

\* The head counts once, the rest is in the tail.
LEMMA CountTail ==
    ASSUME NEW S, NEW q \in Seq(S), q # <<>>, NEW t
    PROVE  Count(q, t) = Count(Tail(q), t) + (IF Head(q) = t THEN 1 ELSE 0)
  <1> DEFINE rest  == Places(q, t) \ {1}
             shift == [i \in Places(Tail(q), t) |-> i + 1]
  <1>1. /\ Tail(q) \in Seq(S) /\ Len(Tail(q)) = Len(q) - 1
        /\ \A i \in 1..Len(Tail(q)) : Tail(q)[i] = q[i + 1]
        /\ Len(q) \in Nat \ {0} /\ Head(q) = q[1]
    BY HeadTailProperties, EmptySeq, LenProperties
  <1>2. /\ IsFiniteSet(Places(q, t)) /\ IsFiniteSet(Places(Tail(q), t))
        /\ Count(q, t) = Cardinality(Places(q, t)) /\ Count(q, t) \in Nat
        /\ Count(Tail(q), t) = Cardinality(Places(Tail(q), t))
        /\ Count(Tail(q), t) \in Nat
    BY <1>1, PlacesFinite
  <1>3. Cardinality(rest) = Cardinality(Places(Tail(q), t))
    <2>1. shift \in [Places(Tail(q), t) -> rest]
      BY <1>1 DEF Places
    <2>2. \A i, j \in Places(Tail(q), t) : shift[i] = shift[j] => i = j
      BY <1>1 DEF Places
    <2>3. \A j \in rest : j - 1 \in Places(Tail(q), t) /\ shift[j - 1] = j
      BY <1>1 DEF Places
    <2>4. shift \in Bijection(Places(Tail(q), t), rest)
      BY <2>1, <2>2, <2>3
      DEF Bijection, Injection, Surjection, IsInjective
    <2>5. ExistsBijection(Places(Tail(q), t), rest)
      BY <2>4 DEF ExistsBijection
    <2>6. QED
      BY <1>2, <2>5, FS_Bijection
  <1>4. Cardinality(rest) = IF 1 \in Places(q, t)
                            THEN Cardinality(Places(q, t)) - 1
                            ELSE Cardinality(Places(q, t))
    BY <1>2, FS_RemoveElement
  <1>5. 1 \in Places(q, t) <=> Head(q) = t
    BY <1>1 DEF Places
  <1>6. QED
    BY <1>2, <1>3, <1>4, <1>5

LEMMA CountEmpty == \A t : Count(<<>>, t) = 0
  <1>1. \A t : {i \in 1..Len(<<>>) : <<>>[i] = t} = {}
    OBVIOUS
  <1>2. QED
    BY <1>1, FS_EmptySet DEF Count

-----------------------------------------------------------------------------
(* Types.                                                                  *)

\* What a step does, by what kind of thread takes it.
LEMMA StepCases ==
    ASSUME [Next]_vars
    PROVE  \/ \E r \in Threads : \/ Admit(r) \/ Refuse(r)
                                 \/ PushIncoming(r) \/ PushWork(r)
           \/ MainWait \/ MainTimeout \/ MainBreak \/ MainPop \/ MainPeek
           \/ MainGet \/ MainDrop \/ MainPutMessage \/ MainPutTarget
           \/ MainPutReturn
           \/ Signal
           \/ UNCHANGED vars
  BY DEF Next, Receiver, Main

LEMMA TypeInit == Init => TypeOK
  <1> SUFFICES ASSUME Init PROVE TypeOK
    OBVIOUS
  <1>1. /\ <<>> \in Seq(Messages) /\ <<>> \in Seq(Tranceivers)
        /\ <<>> \in Seq(Messages \X Tranceivers)
    BY EmptySeq
  <1>2. incoming \in [Tranceivers -> Seq(Messages)]
    BY <1>1 DEF Init
  <1>3. copy \in [Threads -> Messages \cup {NoMessage}]
    BY DEF Init
  <1>4. /\ thread \in [Threads -> {"idle", "admitted", "pushed"}]
        /\ \A r \in Threads : thread[r] = "idle"
    BY DEF Init
  <1>5. QED
    BY <1>1, <1>2, <1>3, <1>4 DEF Init, TypeOK, MainStates

LEMMA TypeNext == TypeOK /\ [Next]_vars => TypeOK'
  <1> SUFFICES ASSUME TypeOK, [Next]_vars PROVE TypeOK'
    OBVIOUS
  <1> USE SwitchboardAssumption, RouterAssumption
  <1>1. ASSUME NEW r \in Threads, Admit(r) PROVE TypeOK'
    BY <1>1 DEF Admit, mainVars, TypeOK, MainStates
  <1>2. ASSUME NEW r \in Threads, Refuse(r) PROVE TypeOK'
    BY <1>2 DEF Refuse, mainVars, TypeOK, MainStates
  <1>3. ASSUME NEW r \in Threads, PushIncoming(r) PROVE TypeOK'
    <2>1. Owner[r] \in Tranceivers /\ copy[r] \in Messages
      BY <1>3 DEF PushIncoming, TypeOK
    <2>2. Append(incoming[Owner[r]], copy[r]) \in Seq(Messages)
      BY <2>1, AppendProperties DEF TypeOK
    <2>3. accepted' \subseteq Messages /\ incoming' \in [Tranceivers -> Seq(Messages)]
      BY <1>3, <2>1, <2>2 DEF PushIncoming, TypeOK
    <2>4. accepted' \subseteq received'
      BY <1>3, <2>1 DEF PushIncoming, TypeOK
    <2>5. QED
      BY <1>3, <2>3, <2>4 DEF PushIncoming, mainVars, TypeOK, MainStates
  <1>4. ASSUME NEW r \in Threads, PushWork(r) PROVE TypeOK'
    <2>1. work_list' \in Seq(Tranceivers)
      BY <1>4, AppendProperties DEF PushWork, TypeOK
    <2>2. QED
      BY <1>4, <2>1 DEF PushWork, TypeOK, MainStates
  <1>5. CASE MainWait
    BY <1>5 DEF MainWait, TypeOK, MainStates
  <1>6. CASE MainTimeout
    BY <1>6 DEF MainTimeout, TypeOK, MainStates
  <1>7. CASE MainBreak
    BY <1>7 DEF MainBreak, TypeOK, MainStates
  <1>8. CASE MainPop
    <2>1. Head(work_list) \in Tranceivers /\ Tail(work_list) \in Seq(Tranceivers)
      BY <1>8, HeadTailProperties DEF MainPop, TypeOK
    <2>2. QED
      BY <1>8, <2>1 DEF MainPop, TypeOK, MainStates
  <1>9. CASE MainPeek
    BY <1>9 DEF MainPeek, TypeOK, MainStates
  <1>10. CASE MainGet
    <2>1. t_has_work \in Tranceivers
      BY <1>10 DEF MainGet, TypeOK
    <2>2. CASE incoming[t_has_work] # <<>>
      <3>1. /\ Head(incoming[t_has_work]) \in Messages
            /\ Tail(incoming[t_has_work]) \in Seq(Messages)
        BY <2>1, <2>2, HeadTailProperties DEF TypeOK
      <3>2. incoming' \in [Tranceivers -> Seq(Messages)]
        BY <1>10, <2>1, <2>2, <3>1 DEF MainGet, TypeOK
      <3>3. /\ main' = "got" /\ m_cur' \in Messages
            /\ t_has_work' \in Tranceivers
        BY <1>10, <2>1, <2>2, <3>1 DEF MainGet
      <3>4. todo = <<>>
        BY <1>10 DEF MainGet, TypeOK
      <3>5. QED
        BY <1>10, <3>2, <3>3, <3>4 DEF MainGet, TypeOK, MainStates
    <2>3. CASE incoming[t_has_work] = <<>>
      BY <1>10, <2>1, <2>3 DEF MainGet, TypeOK, MainStates
    <2>4. QED
      BY <2>2, <2>3
  <1>11. CASE MainDrop
    BY <1>11 DEF MainDrop, TypeOK, MainStates
  <1>12. CASE MainPutMessage
    BY <1>12 DEF MainPutMessage, TypeOK, MainStates
  <1>13. CASE MainPutTarget
    <2>1. /\ Head(todo) \in Tranceivers /\ Tail(todo) \in Seq(Tranceivers)
          /\ m_cur \in Messages
      BY <1>13, HeadTailProperties DEF MainPutTarget, TypeOK
    <2>2. Append(sent, <<m_cur, Head(todo)>>) \in Seq(Messages \X Tranceivers)
      BY <2>1, AppendProperties DEF TypeOK
    <2>3. QED
      BY <1>13, <2>1, <2>2 DEF MainPutTarget, TypeOK, MainStates
  <1>14. CASE MainPutReturn
    BY <1>14 DEF MainPutReturn, TypeOK, MainStates
  <1>15. CASE Signal
    BY <1>15 DEF Signal, mainVars, TypeOK, MainStates
  <1>16. CASE UNCHANGED vars
    BY <1>16 DEF vars, TypeOK, MainStates
  <1>17. QED
    BY <1>1, <1>2, <1>3, <1>4, <1>5, <1>6, <1>7, <1>8, <1>9, <1>10, <1>11,
       <1>12, <1>13, <1>14, <1>15, <1>16, StepCases

-----------------------------------------------------------------------------
(* The queues agree.                                                       *)

\* One conjunct of QueuesAgree.
Agrees(t) ==
    Len(incoming[t]) =
        Count(work_list, t) + InHand(t) + Cardinality(Announcing(t))

IInv ==
    /\ TypeOK
    /\ PeekNeverFails
    /\ \A t \in Tranceivers : Agrees(t)

LEMMA AnnouncingFinite ==
    \A t : IsFiniteSet(Announcing(t)) /\ Cardinality(Announcing(t)) \in Nat
  BY RouterAssumption, FS_Subset, FS_CardinalityType DEF Announcing

\* The numbers that Agrees adds up.
LEMMA AgreesTypes ==
    ASSUME TypeOK, NEW t \in Tranceivers
    PROVE  /\ Count(work_list, t) \in Nat /\ InHand(t) \in {0, 1}
           /\ Cardinality(Announcing(t)) \in Nat /\ Len(incoming[t]) \in Nat
  <1>1. Count(work_list, t) \in Nat
    BY PlacesFinite DEF TypeOK
  <1>2. Len(incoming[t]) \in Nat
    BY LenProperties DEF TypeOK
  <1>3. QED
    BY <1>1, <1>2, AnnouncingFinite DEF InHand

\* A step that leaves the queues, main's hand and the threads alone.
LEMMA AgreesUndisturbed ==
    ASSUME \A t \in Tranceivers : Agrees(t),
           UNCHANGED <<incoming, work_list>>,
           \A t \in Tranceivers : InHand(t)' = InHand(t),
           \A t \in Tranceivers : Announcing(t)' = Announcing(t)
    PROVE  \A t \in Tranceivers : Agrees(t)'
  BY DEF Agrees, Count

LEMMA AgreesInit == Init => \A t \in Tranceivers : Agrees(t)
  <1> SUFFICES ASSUME Init, NEW t \in Tranceivers PROVE Agrees(t)
    OBVIOUS
  <1>1. Announcing(t) = {}
    BY DEF Announcing, Init
  <1>2. Cardinality(Announcing(t)) = 0
    BY <1>1, FS_EmptySet
  <1>3. Len(incoming[t]) = 0 /\ InHand(t) = 0 /\ Count(work_list, t) = 0
    BY CountEmpty DEF Init, InHand
  <1>4. QED
    BY <1>2, <1>3 DEF Agrees

\* A thread has pushed its message: it is now announcing it.
LEMMA AgreesPushIncoming ==
    ASSUME IInv, NEW r \in Threads, PushIncoming(r)
    PROVE  \A t \in Tranceivers : Agrees(t)'
  <1> SUFFICES ASSUME NEW t \in Tranceivers PROVE Agrees(t)'
    OBVIOUS
  <1>1. /\ Owner[r] \in Tranceivers /\ copy[r] \in Messages
        /\ incoming[t] \in Seq(Messages) /\ incoming \in [Tranceivers -> Seq(Messages)]
        /\ thread \in [Threads -> {"idle", "admitted", "pushed"}]
    BY RouterAssumption DEF IInv, TypeOK, PushIncoming
  <1>2. InHand(t)' = InHand(t) /\ Count(work_list, t)' = Count(work_list, t)
    BY DEF PushIncoming, mainVars, InHand, Count
  <1>3. /\ Count(work_list, t) \in Nat /\ InHand(t) \in {0, 1}
        /\ Cardinality(Announcing(t)) \in Nat /\ Len(incoming[t]) \in Nat
    BY AgreesTypes DEF IInv
  <1>4. CASE Owner[r] = t
    <2>1. Len(incoming'[t]) = Len(incoming[t]) + 1
      BY <1>1, <1>4, AppendProperties DEF PushIncoming
    <2>2. Announcing(t)' = Announcing(t) \cup {r} /\ r \notin Announcing(t)
      BY <1>1, <1>4 DEF PushIncoming, Announcing
    <2>3. Cardinality(Announcing(t)') = Cardinality(Announcing(t)) + 1
      BY <2>2, AnnouncingFinite, FS_AddElement
    <2>4. QED
      BY <1>2, <1>3, <2>1, <2>3 DEF IInv, Agrees
  <1>5. CASE Owner[r] # t
    <2>1. incoming'[t] = incoming[t]
      BY <1>1, <1>5 DEF PushIncoming
    <2>2. Announcing(t)' = Announcing(t)
      BY <1>1, <1>5 DEF PushIncoming, Announcing
    <2>3. QED
      BY <1>2, <2>1, <2>2 DEF IInv, Agrees
  <1>6. QED
    BY <1>4, <1>5

\* A thread has announced its message: the work queue has it now.
LEMMA AgreesPushWork ==
    ASSUME IInv, NEW r \in Threads, PushWork(r)
    PROVE  \A t \in Tranceivers : Agrees(t)'
  <1> SUFFICES ASSUME NEW t \in Tranceivers PROVE Agrees(t)'
    OBVIOUS
  <1>1. /\ Owner[r] \in Tranceivers /\ work_list \in Seq(Tranceivers)
        /\ thread \in [Threads -> {"idle", "admitted", "pushed"}]
    BY RouterAssumption DEF IInv, TypeOK
  <1>2. InHand(t)' = InHand(t)
    BY DEF PushWork, InHand
  <1>3. incoming'[t] = incoming[t]
    BY DEF PushWork
  <1>4. /\ Count(work_list, t) \in Nat /\ InHand(t) \in {0, 1}
        /\ Cardinality(Announcing(t)) \in Nat /\ Len(incoming[t]) \in Nat
    BY AgreesTypes DEF IInv
  <1>5. Count(work_list', t) =
            Count(work_list, t) + (IF Owner[r] = t THEN 1 ELSE 0)
    BY <1>1, CountAppend DEF PushWork
  <1>6. Count(work_list, t)' = Count(work_list', t)
    BY DEF Count
  <1>7. CASE Owner[r] = t
    <2>1. Announcing(t)' = Announcing(t) \ {r} /\ r \in Announcing(t)
      BY <1>1, <1>7 DEF PushWork, Announcing
    <2>2. Cardinality(Announcing(t)') = Cardinality(Announcing(t)) - 1
      BY <2>1, AnnouncingFinite, FS_RemoveElement
    <2>3. Agrees(t)
      BY DEF IInv
    <2>4. Count(work_list, t)' = Count(work_list, t) + 1
      BY <1>5, <1>6, <1>7
    <2>5. QED
      BY <1>2, <1>3, <1>4, <2>2, <2>3, <2>4 DEF Agrees
  <1>8. CASE Owner[r] # t
    <2>1. Announcing(t)' = Announcing(t)
      BY <1>1, <1>8 DEF PushWork, Announcing
    <2>2. QED
      BY <1>2, <1>3, <1>4, <1>5, <1>6, <1>8, <2>1 DEF IInv, Agrees
  <1>9. QED
    BY <1>7, <1>8

\* main takes a tranceiver off the work queue: it is in its hand.
LEMMA AgreesPop ==
    ASSUME IInv, MainPop
    PROVE  \A t \in Tranceivers : Agrees(t)'
  <1> SUFFICES ASSUME NEW t \in Tranceivers PROVE Agrees(t)'
    OBVIOUS
  <1>1. work_list \in Seq(Tranceivers) /\ work_list # <<>>
    BY DEF IInv, TypeOK, MainPop
  <1>2. Count(work_list, t) =
            Count(work_list', t) + (IF Head(work_list) = t THEN 1 ELSE 0)
    BY <1>1, CountTail DEF MainPop
  <1>3. InHand(t) = 0 /\ InHand(t)' = IF Head(work_list) = t THEN 1 ELSE 0
    BY DEF MainPop, InHand
  <1>4. Announcing(t)' = Announcing(t) /\ incoming'[t] = incoming[t]
    BY DEF MainPop, Announcing
  <1>5. Count(work_list, t)' = Count(work_list', t)
    BY DEF Count
  <1>6. Count(work_list', t) \in Nat
    BY <1>1, HeadTailProperties, PlacesFinite DEF MainPop
  <1>7. /\ Count(work_list, t) \in Nat
        /\ Cardinality(Announcing(t)) \in Nat /\ Len(incoming[t]) \in Nat
    BY AgreesTypes DEF IInv
  <1>8. QED
    BY <1>2, <1>3, <1>4, <1>5, <1>6, <1>7 DEF IInv, Agrees

\* While main has a tranceiver in its hand, that tranceiver has a message.
LEMMA InHandHasMessage ==
    ASSUME IInv, main \in {"popped", "peeked"}
    PROVE  t_has_work \in Tranceivers /\ incoming[t_has_work] # <<>>
  <1>1. t_has_work \in Tranceivers
    BY DEF IInv, TypeOK
  <1>2. InHand(t_has_work) = 1
    BY DEF InHand
  <1>3. /\ Count(work_list, t_has_work) \in Nat
        /\ Cardinality(Announcing(t_has_work)) \in Nat
        /\ Len(incoming[t_has_work]) \in Nat
    BY <1>1, AgreesTypes DEF IInv
  <1>4. Len(incoming[t_has_work]) # 0
    BY <1>1, <1>2, <1>3 DEF IInv, Agrees
  <1>5. QED
    BY <1>1, <1>4, EmptySeq

\* main takes the message of the tranceiver in its hand.
LEMMA AgreesGet ==
    ASSUME IInv, MainGet
    PROVE  /\ main' = "got"
           /\ \A t \in Tranceivers : Agrees(t)'
  <1>1. main = "peeked"
    BY DEF MainGet
  <1>2. t_has_work \in Tranceivers /\ incoming[t_has_work] # <<>>
    BY <1>1, InHandHasMessage
  <1>3. /\ main' = "got"
        /\ incoming' = [incoming EXCEPT ![t_has_work] = Tail(@)]
    BY <1>2 DEF MainGet
  <1>4. incoming \in [Tranceivers -> Seq(Messages)]
    BY DEF IInv, TypeOK
  <1>5. ASSUME NEW t \in Tranceivers PROVE Agrees(t)'
    <2>1. InHand(t)' = 0 /\ InHand(t) = IF t_has_work = t THEN 1 ELSE 0
      BY <1>1, <1>3 DEF InHand
    <2>2. /\ Announcing(t)' = Announcing(t)
          /\ Count(work_list, t)' = Count(work_list, t)
      BY DEF MainGet, Announcing, Count
    <2>3. /\ Count(work_list, t) \in Nat
          /\ Cardinality(Announcing(t)) \in Nat /\ Len(incoming[t]) \in Nat
      BY AgreesTypes DEF IInv
    <2>4. Agrees(t)
      BY DEF IInv
    <2>5. CASE t_has_work = t
      <3>1. incoming'[t] = Tail(incoming[t])
        BY <1>3, <1>4, <2>5
      <3>2. Len(Tail(incoming[t])) = Len(incoming[t]) - 1
        BY <1>2, <1>4, <2>5, HeadTailProperties
      <3>3. QED
        BY <2>1, <2>2, <2>3, <2>4, <2>5, <3>1, <3>2 DEF Agrees
    <2>6. CASE t_has_work # t
      <3>1. incoming'[t] = incoming[t]
        BY <1>3, <1>4, <2>6
      <3>2. QED
        BY <2>1, <2>2, <2>3, <2>4, <2>6, <3>1 DEF Agrees
    <2>7. QED
      BY <2>5, <2>6
  <1>6. QED
    BY <1>3, <1>5

LEMMA IInvInit == Init => IInv
  BY TypeInit, AgreesInit DEF IInv, PeekNeverFails, Init

LEMMA IInvNext == IInv /\ [Next]_vars => IInv'
  <1> SUFFICES ASSUME IInv, [Next]_vars PROVE IInv'
    OBVIOUS
  <1>0. TypeOK'
    BY TypeNext DEF IInv
  <1>1. ASSUME NEW r \in Threads, Admit(r)
        PROVE  PeekNeverFails' /\ \A t \in Tranceivers : Agrees(t)'
    <2>1. \A t \in Tranceivers : InHand(t)' = InHand(t)
                                 /\ Announcing(t)' = Announcing(t)
      BY <1>1 DEF Admit, mainVars, InHand, Announcing, IInv, TypeOK
    <2>2. QED
      BY <1>1, <2>1, AgreesUndisturbed
      DEF Admit, mainVars, IInv, PeekNeverFails
  <1>2. ASSUME NEW r \in Threads, Refuse(r)
        PROVE  PeekNeverFails' /\ \A t \in Tranceivers : Agrees(t)'
    <2>1. \A t \in Tranceivers : InHand(t)' = InHand(t)
                                 /\ Announcing(t)' = Announcing(t)
      BY <1>2 DEF Refuse, mainVars, InHand, Announcing
    <2>2. QED
      BY <1>2, <2>1, AgreesUndisturbed
      DEF Refuse, mainVars, IInv, PeekNeverFails
  <1>3. ASSUME NEW r \in Threads, PushIncoming(r)
        PROVE  PeekNeverFails' /\ \A t \in Tranceivers : Agrees(t)'
    BY <1>3, AgreesPushIncoming
    DEF PushIncoming, mainVars, IInv, PeekNeverFails
  <1>4. ASSUME NEW r \in Threads, PushWork(r)
        PROVE  PeekNeverFails' /\ \A t \in Tranceivers : Agrees(t)'
    BY <1>4, AgreesPushWork DEF PushWork, IInv, PeekNeverFails
  <1>5. CASE MainPop
    BY <1>0, <1>5, AgreesPop DEF MainPop, IInv, PeekNeverFails
  <1>6. CASE MainPeek
    <2>1. incoming[t_has_work] # <<>>
      BY <1>6, InHandHasMessage DEF MainPeek
    <2>2. main = "popped" /\ main' = "peeked"
      BY <1>6, <2>1 DEF MainPeek
    <2>3. \A t \in Tranceivers : InHand(t)' = InHand(t)
                                 /\ Announcing(t)' = Announcing(t)
      BY <1>6, <2>2 DEF MainPeek, InHand, Announcing
    <2>4. QED
      BY <1>0, <1>6, <2>2, <2>3, AgreesUndisturbed
      DEF MainPeek, IInv, PeekNeverFails
  <1>7. CASE MainGet
    BY <1>0, <1>7, AgreesGet DEF IInv, PeekNeverFails
  <1>8. CASE \/ MainWait \/ MainTimeout \/ MainBreak \/ MainDrop
             \/ MainPutMessage \/ MainPutTarget \/ MainPutReturn
             \/ Signal \/ UNCHANGED vars
    <2>1. /\ UNCHANGED <<incoming, work_list, thread>>
          /\ PeekNeverFails'
          /\ \A t \in Tranceivers : InHand(t)' = InHand(t)
      BY <1>8
      DEF MainWait, MainTimeout, MainBreak, MainDrop, MainPutMessage,
          MainPutTarget, MainPutReturn, Signal, vars, mainVars, IInv,
          PeekNeverFails, InHand
    <2>2. \A t \in Tranceivers : Announcing(t)' = Announcing(t)
      BY <2>1 DEF Announcing
    <2>3. QED
      BY <1>0, <2>1, <2>2, AgreesUndisturbed DEF IInv
  <1>9. QED
    BY <1>0, <1>1, <1>2, <1>3, <1>4, <1>5, <1>6, <1>7, <1>8, StepCases
    DEF IInv

-----------------------------------------------------------------------------
\* Every variable keeps its type (tranceiver.h:37-93, work.h:8-12).
THEOREM TypeCorrect == Spec => []TypeOK
  BY TypeInit, TypeNext, PTL DEF Spec

\* The inductive invariant.
THEOREM RouterInvariant == Spec => []IInv
  BY IInvInit, IInvNext, PTL DEF Spec

\* The tranceivers' queues and the work queue always agree
\* (tranceiver.cpp:109-125, main.cpp:43-49).
THEOREM QueuesAlwaysAgree == Spec => []QueuesAgree
  <1>1. IInv => QueuesAgree
    BY DEF IInv, Agrees, QueuesAgree
  <1>2. QED
    BY <1>1, RouterInvariant, PTL

\* assert(t_has_work->peek()) never fails (main.cpp:47).
THEOREM AssertionHolds == Spec => []PeekNeverFails
  <1>1. IInv => PeekNeverFails
    BY DEF IInv
  <1>2. QED
    BY <1>1, RouterInvariant, PTL
-----------------------------------------------------------------------------
(* The router is a Relay.                                                  *)

\* A message is on the queue of the tranceiver it came from.
Belongs ==
    \A t \in Tranceivers : \A i \in 1..Len(incoming[t]) :
        Source[incoming[t][i]] = t

\* What a thread brings came in by its tranceiver, is not on a queue yet and
\* no other thread brings it.
Brings ==
    \A r \in Threads : thread[r] = "admitted" =>
        /\ Source[copy[r]] = Owner[r]
        /\ copy[r] \notin accepted
        /\ \A s \in Threads \ {r} : thread[s] = "admitted" => copy[s] # copy[r]

\* What main has got came in by the tranceiver it took off the work queue.
Current == main \in {"got", "putting"} => Source[m_cur] = t_has_work

\* put_message() is somewhere in the list of the targets: it made the sends
\* before that place, and these are the latest.
Sending ==
    main = "putting" =>
        LET T == TargetsOf[m_cur]
            n == Len(sent) - SentSoFar
        IN  /\ Len(todo) <= Len(T) /\ n \in Nat
            /\ \A i \in 1..Len(todo) : todo[i] = T[SentSoFar + i]
            /\ \A i \in 1..SentSoFar : sent[n + i] = <<m_cur, T[i]>>

\* The inductive invariant of the refinement.
RInv == IInv /\ Belongs /\ Brings /\ Current /\ Sending
LEMMA TargetsOfType ==
    ASSUME NEW m \in Messages
    PROVE  /\ Source[m] \in Tranceivers
           /\ TargetsOf[m] = Targets(Bridges, Routes, Source[m], m)
           /\ TargetsOf[m] \in Seq(Tranceivers)
           /\ Len(TargetsOf[m]) \in Nat
           /\ DOMAIN TargetsOf[m] = 1..Len(TargetsOf[m])
  <1>1. Source[m] \in Tranceivers
    BY SwitchboardAssumption
  <1>2. TargetsOf[m] = Targets(Bridges, Routes, Source[m], m)
    BY DEF TargetsOf
  <1>3. TargetsOf[m] \in Seq(Tranceivers)
    BY <1>1, <1>2, RouterAssumption
  <1>4. QED
    BY <1>1, <1>2, <1>3, LenProperties

LEMMA RInvInit == Init => RInv
  BY IInvInit DEF Init, RInv, Belongs, Brings, Current, Sending

\* A message is queued at its tranceiver and leaves from the head.
LEMMA BelongsNext == ASSUME RInv, [Next]_vars PROVE Belongs'
  <1> SUFFICES ASSUME NEW t \in Tranceivers, NEW i \in 1..Len(incoming'[t])
               PROVE  Source[incoming'[t][i]] = t
    BY DEF Belongs
  <1>1. /\ incoming \in [Tranceivers -> Seq(Messages)]
        /\ incoming[t] \in Seq(Messages)
        /\ Len(incoming[t]) \in Nat
        /\ \A j \in 1..Len(incoming[t]) : Source[incoming[t][j]] = t
    BY LenProperties DEF RInv, IInv, TypeOK, Belongs
  <1>2. CASE incoming'[t] = incoming[t]
    BY <1>1, <1>2
  <1>3. ASSUME NEW r \in Threads, PushIncoming(r) PROVE Source[incoming'[t][i]] = t
    <2>1. copy[r] \in Messages /\ Source[copy[r]] = Owner[r]
      BY <1>3 DEF PushIncoming, RInv, IInv, TypeOK, Brings
    <2>2. CASE Owner[r] = t
      <3>1. incoming'[t] = Append(incoming[t], copy[r])
        BY <1>1, <1>3, <2>2 DEF PushIncoming
      <3>2. QED
        BY <1>1, <2>1, <2>2, <3>1, AppendProperties
    <2>3. CASE Owner[r] # t
      BY <1>1, <1>2, <1>3, <2>3 DEF PushIncoming
    <2>4. QED
      BY <2>2, <2>3
  <1>4. CASE MainGet
    <2>1. CASE t_has_work = t /\ incoming[t] # <<>>
      <3>1. incoming'[t] = Tail(incoming[t])
        BY <1>1, <1>4, <2>1 DEF MainGet
      <3>2. QED
        BY <1>1, <2>1, <3>1, HeadTailProperties
    <2>2. CASE ~(t_has_work = t /\ incoming[t] # <<>>)
      <3>1. incoming'[t] = incoming[t]
        BY <1>1, <1>4, <2>2 DEF MainGet
      <3>2. QED
        BY <1>2, <3>1
    <2>3. QED
      BY <2>1, <2>2
  <1>5. CASE UNCHANGED incoming
    BY <1>2, <1>5
  <1>6. QED
    BY <1>3, <1>4, <1>5, StepCases
    DEF Admit, Refuse, PushWork, MainWait, MainTimeout, MainBreak, MainPop,
        MainPeek, MainDrop, MainPutMessage, MainPutTarget, MainPutReturn,
        Signal, vars

\* What comes in is new.
LEMMA BringsNext == ASSUME RInv, [Next]_vars PROVE Brings'
  <1>0. /\ thread \in [Threads -> {"idle", "admitted", "pushed"}]
        /\ copy \in [Threads -> Messages \cup {NoMessage}]
        /\ \A r \in Threads : thread[r] # "idle" => copy[r] \in received
        /\ accepted \subseteq received
        /\ Brings
    BY DEF RInv, IInv, TypeOK
  <1>1. ASSUME NEW r \in Threads, Admit(r) PROVE Brings'
    <2>1. PICK m \in Messages \ received :
             Source[m] = Owner[r] /\ copy' = [copy EXCEPT ![r] = m]
      BY <1>1 DEF Admit
    <2>2. /\ thread' = [thread EXCEPT ![r] = "admitted"]
          /\ accepted' = accepted
      BY <1>1 DEF Admit
    <2>3. ASSUME NEW q \in Threads, thread'[q] = "admitted", q # r
          PROVE  thread[q] = "admitted" /\ copy'[q] = copy[q] /\ copy[q] # m
      BY <1>0, <2>1, <2>2, <2>3
    <2>4. copy'[r] = m
      BY <1>0, <2>1
    <2>5. QED
      BY <1>0, <2>1, <2>2, <2>3, <2>4 DEF Brings
  <1>2. ASSUME NEW r \in Threads, PushIncoming(r) PROVE Brings'
    <2>1. /\ thread[r] = "admitted" /\ copy' = copy
          /\ thread' = [thread EXCEPT ![r] = "pushed"]
          /\ accepted' = accepted \cup {copy[r]}
      BY <1>2 DEF PushIncoming
    <2>2. QED
      BY <1>0, <2>1 DEF Brings
  <1>3. ASSUME NEW r \in Threads, PushWork(r) PROVE Brings'
    <2>1. /\ copy' = [copy EXCEPT ![r] = NoMessage]
          /\ thread' = [thread EXCEPT ![r] = "idle"]
          /\ accepted' = accepted
      BY <1>3 DEF PushWork
    <2>2. ASSUME NEW q \in Threads, thread'[q] = "admitted"
          PROVE  thread[q] = "admitted" /\ copy'[q] = copy[q]
      BY <1>0, <2>1, <2>2
    <2>3. QED
      BY <1>0, <2>1, <2>2 DEF Brings
  <1>4. CASE UNCHANGED <<thread, copy, accepted>>
    BY <1>0, <1>4 DEF Brings
  <1>5. QED
    BY <1>1, <1>2, <1>3, <1>4, StepCases
    DEF Refuse, MainWait, MainTimeout, MainBreak, MainPop, MainPeek, MainGet,
        MainDrop, MainPutMessage, MainPutTarget, MainPutReturn, Signal, vars,
        mainVars

\* main gets the message from the queue of the tranceiver in its hand.
LEMMA CurrentNext == ASSUME RInv, [Next]_vars PROVE Current'
  <1>1. CASE MainGet
    <2>1. main = "peeked"
      BY <1>1 DEF MainGet
    <2>2. t_has_work \in Tranceivers /\ incoming[t_has_work] # <<>>
      BY <2>1, InHandHasMessage DEF RInv
    <2>3. /\ incoming[t_has_work] \in Seq(Messages)
          /\ Len(incoming[t_has_work]) \in Nat \ {0}
          /\ Head(incoming[t_has_work]) = incoming[t_has_work][1]
      BY <2>2, EmptySeq DEF RInv, IInv, TypeOK
    <2>4. Source[Head(incoming[t_has_work])] = t_has_work
      BY <2>2, <2>3 DEF RInv, Belongs
    <2>5. QED
      BY <1>1, <2>2, <2>4 DEF MainGet, Current
  <1>2. CASE UNCHANGED <<m_cur, t_has_work>> /\ (main' = main \/ main = "got")
    BY <1>2 DEF RInv, Current
  <1>3. CASE main' \notin {"got", "putting"}
    BY <1>3 DEF Current
  <1>4. QED
    BY <1>1, <1>2, <1>3, StepCases
    DEF Admit, Refuse, PushIncoming, PushWork, MainWait, MainTimeout, MainBreak,
        MainPop, MainPeek, MainDrop, MainPutMessage, MainPutTarget,
        MainPutReturn, Signal, vars, mainVars

\* One target after the other.
LEMMA SendingPutTarget ==
    ASSUME RInv, MainPutTarget
    PROVE  /\ Sending'
           /\ SentSoFar' = SentSoFar + 1
           /\ Len(sent') = Len(sent) + 1
           /\ Len(sent) - SentSoFar \in 0..Len(sent)
           /\ \A i \in 1..Len(sent) : sent'[i] = sent[i]
  <1> DEFINE T == TargetsOf[m_cur]
             k == SentSoFar
             n == Len(sent) - k
  <1>1. /\ main = "putting" /\ main' = "putting" /\ m_cur' = m_cur
        /\ todo # <<>> /\ todo' = Tail(todo)
        /\ sent' = Append(sent, <<m_cur, Head(todo)>>)
    BY DEF MainPutTarget
  <1>2. /\ m_cur \in Messages /\ todo \in Seq(Tranceivers)
        /\ sent \in Seq(Messages \X Tranceivers)
    BY <1>1 DEF RInv, IInv, TypeOK
  <1>3. Len(T) \in Nat
    BY <1>2, TargetsOfType
  <1>4. /\ Head(todo) \in Tranceivers /\ Tail(todo) \in Seq(Tranceivers)
        /\ Len(todo) \in Nat \ {0} /\ Len(Tail(todo)) = Len(todo) - 1
        /\ \A i \in 1..Len(Tail(todo)) : Tail(todo)[i] = todo[i + 1]
        /\ Head(todo) = todo[1]
    BY <1>1, <1>2, HeadTailProperties, EmptySeq
  <1>5. /\ Len(sent) \in Nat /\ Len(sent') = Len(sent) + 1
        /\ \A i \in 1..Len(sent) : sent'[i] = sent[i]
        /\ sent'[Len(sent) + 1] = <<m_cur, Head(todo)>>
    BY <1>1, <1>2, <1>4, AppendProperties, LenProperties
  <1>6. /\ Len(todo) <= Len(T) /\ k = Len(T) - Len(todo) /\ n \in Nat
        /\ \A i \in 1..Len(todo) : todo[i] = T[k + i]
        /\ \A i \in 1..k : sent[n + i] = <<m_cur, T[i]>>
    BY <1>1 DEF RInv, Sending, SentSoFar
  <1>7. SentSoFar' = k + 1
    BY <1>1, <1>3, <1>4, <1>6 DEF SentSoFar, TargetsOf
  <1>8. /\ k \in Nat /\ n \in Nat /\ n + k = Len(sent)
        /\ Len(sent') - (k + 1) = n
    BY <1>3, <1>4, <1>5, <1>6
  <1> HIDE DEF T, k, n
  <1>9. ASSUME NEW i \in 1..(k + 1) PROVE sent'[n + i] = <<m_cur, T[i]>>
    <2>1. CASE i = k + 1
      <3>1. n + i = Len(sent) + 1
        BY <1>8, <2>1
      <3>2. Head(todo) = T[i]
        BY <1>4, <1>6, <2>1
      <3>3. QED
        BY <1>5, <3>1, <3>2
    <2>2. CASE i \in 1..k
      <3>1. n + i \in 1..Len(sent)
        BY <1>8, <2>2
      <3>2. QED
        BY <1>5, <1>6, <2>2, <3>1
    <2>3. QED
      BY <1>8, <2>1, <2>2
  <1>10. \A i \in 1..Len(todo') : todo'[i] = T[(k + 1) + i]
    BY <1>1, <1>4, <1>6, <1>8
  <1>11. Len(todo') <= Len(T)
    BY <1>1, <1>3, <1>4, <1>6
  <1>12. TargetsOf'[m_cur'] = T /\ Len(sent') - SentSoFar' = n
    BY <1>1, <1>7, <1>8 DEF T, TargetsOf
  <1>13. Sending'
    BY <1>1, <1>6, <1>7, <1>8, <1>9, <1>10, <1>11, <1>12 DEF Sending
  <1>14. QED
    BY <1>5, <1>7, <1>8, <1>13 DEF k, n

LEMMA SendingNext == ASSUME RInv, [Next]_vars PROVE Sending'
  <1>1. CASE MainPutTarget
    BY <1>1, SendingPutTarget
  <1>2. CASE MainPutMessage
    <2>1. /\ main = "got" /\ m_cur' = m_cur /\ sent' = sent
          /\ todo' = Targets(Bridges, Routes, t_has_work, m_cur)
      BY <1>2 DEF MainPutMessage
    <2>2. m_cur \in Messages /\ sent \in Seq(Messages \X Tranceivers)
      BY <2>1 DEF RInv, IInv, TypeOK
    <2>3. todo' = TargetsOf[m_cur] /\ Len(TargetsOf[m_cur]) \in Nat
      BY <2>1, <2>2, TargetsOfType DEF RInv, Current
    <2>4. TargetsOf' = TargetsOf
      BY DEF TargetsOf
    <2>5. SentSoFar' = 0
      BY <2>1, <2>3, <2>4 DEF SentSoFar
    <2>6. Len(sent) \in Nat
      BY <2>2, LenProperties
    <2>7. QED
      BY <2>1, <2>3, <2>4, <2>5, <2>6 DEF Sending
  <1>3. CASE main' # "putting"
    BY <1>3 DEF Sending
  <1>4. CASE UNCHANGED <<main, m_cur, todo, sent>>
    <2>1. SentSoFar' = SentSoFar /\ TargetsOf' = TargetsOf
      BY <1>4 DEF SentSoFar, TargetsOf
    <2>2. QED
      BY <1>4, <2>1 DEF RInv, Sending
  <1>5. QED
    BY <1>1, <1>2, <1>3, <1>4, StepCases
    DEF Admit, Refuse, PushIncoming, PushWork, MainWait, MainTimeout, MainBreak,
        MainPop, MainPeek, MainGet, MainDrop, MainPutReturn, Signal, vars,
        mainVars

LEMMA RInvNext == RInv /\ [Next]_vars => RInv'
  BY IInvNext, BelongsNext, BringsNext, CurrentNext, SendingNext DEF RInv
-----------------------------------------------------------------------------
(* The mapping.                                                            *)

\* What is in each queue of the Relay.
LEMMA PendingType ==
    ASSUME TypeOK, NEW t \in Tranceivers
    PROVE  /\ Pending(t) \in Seq(Messages)
           /\ main \notin {"got", "putting"} \/ t_has_work # t
                => Pending(t) = incoming[t]
           /\ main \in {"got", "putting"} /\ t_has_work = t
                => /\ Pending(t) = <<m_cur>> \o incoming[t]
                   /\ Pending(t) # <<>>
                   /\ Head(Pending(t)) = m_cur
                   /\ Tail(Pending(t)) = incoming[t]
  <1>1. incoming[t] \in Seq(Messages) /\ <<>> \in Seq(Messages)
    BY EmptySeq DEF TypeOK
  <1>2. CASE main \in {"got", "putting"} /\ t_has_work = t
    <2>1. m_cur \in Messages /\ <<m_cur>> \in Seq(Messages) /\ Len(<<m_cur>>) = 1
      BY <1>2 DEF TypeOK
    <2>2. Pending(t) = <<m_cur>> \o incoming[t]
      BY <1>2 DEF Pending
    <2>3. /\ Pending(t) \in Seq(Messages)
          /\ Len(Pending(t)) = 1 + Len(incoming[t])
          /\ \A i \in 1..(1 + Len(incoming[t])) :
                Pending(t)[i] = IF i <= 1 THEN m_cur ELSE incoming[t][i - 1]
          /\ Len(incoming[t]) \in Nat
      BY <1>1, <2>1, <2>2, ConcatProperties, LenProperties
    <2>4. Pending(t) # <<>> /\ Head(Pending(t)) = m_cur
      BY <2>3
    <2>5. /\ Tail(Pending(t)) \in Seq(Messages)
          /\ Len(Tail(Pending(t))) = Len(incoming[t])
          /\ \A i \in 1..Len(incoming[t]) : Tail(Pending(t))[i] = incoming[t][i]
      BY <2>3, <2>4, HeadTailProperties
    <2>6. Tail(Pending(t)) = incoming[t]
      BY <1>1, <2>5, SeqEqual
    <2>7. QED
      BY <1>2, <2>2, <2>3, <2>4, <2>6
  <1>3. CASE ~(main \in {"got", "putting"} /\ t_has_work = t)
    BY <1>1, <1>3, ConcatEmptySeq DEF Pending
  <1>4. QED
    BY <1>2, <1>3

\* When put_message() returns, all of the message's sends are in the log.
LEMMA LogGrows ==
    ASSUME RInv, MainPutReturn
    PROVE  sent = SubSeq(sent, 1, Len(sent) - SentSoFar) \o TheRelay!Sends(m_cur)
  <1> DEFINE T == TargetsOf[m_cur]
             k == SentSoFar
             n == Len(sent) - k
             S == Messages \X Tranceivers
             before == SubSeq(sent, 1, n)
             sends == TheRelay!Sends(m_cur)
  <1>1. main = "putting" /\ todo = <<>> /\ Len(todo) = 0
    BY DEF MainPutReturn
  <1>2. m_cur \in Messages /\ sent \in Seq(S) /\ Len(sent) \in Nat
    BY <1>1, LenProperties DEF RInv, IInv, TypeOK
  <1>3. /\ T \in Seq(Tranceivers) /\ Len(T) \in Nat /\ DOMAIN T = 1..Len(T)
    BY <1>2, TargetsOfType
  <1>4. /\ k = Len(T)
    BY <1>1, <1>3 DEF SentSoFar
  <1>5. n \in Nat /\ \A i \in 1..k : sent[n + i] = <<m_cur, T[i]>>
    BY <1>1 DEF RInv, Sending
  <1>6. n + k = Len(sent)
    BY <1>2, <1>3, <1>4
  <1>7. sends = [i \in 1..k |-> <<m_cur, T[i]>>]
    BY <1>3, <1>4 DEF TheRelay!Sends
  <1> HIDE DEF T, k, n, sends
  <1>8. \A i \in 1..k : <<m_cur, T[i]>> \in S
    BY <1>2, <1>3, <1>4, ElementOfSeq
  <1>9. sends \in Seq(S) /\ Len(sends) = k
    BY <1>3, <1>4, <1>7, <1>8
  <1>10. /\ before \in Seq(S) /\ Len(before) = n
         /\ \A i \in 1..n : before[i] = sent[i]
    <2>1. \A i \in 1..n : sent[i] \in S
      BY <1>2, <1>3, <1>4, <1>5, <1>6, ElementOfSeq
    <2>2. n \in Int /\ n - 1 + 1 = n /\ \A i \in 1..n : 1 + i - 1 = i
      BY <1>5
    <2>3. QED
      BY <1>5, <2>1, <2>2, SubSeqProperties
  <1>11. /\ before \o sends \in Seq(S) /\ Len(before \o sends) = n + k
         /\ \A i \in 1..(n + k) : (before \o sends)[i] =
                 IF i <= n THEN before[i] ELSE sends[i - n]
    BY <1>9, <1>10, ConcatProperties
  <1>12. ASSUME NEW i \in 1..(n + k) PROVE (before \o sends)[i] = sent[i]
    <2>1. CASE i <= n
      BY <1>5, <1>10, <1>11, <2>1
    <2>2. CASE ~(i <= n)
      <3>1. i - n \in 1..k /\ n + (i - n) = i
        BY <1>3, <1>4, <1>5, <2>2
      <3>2. QED
        BY <1>5, <1>7, <1>11, <2>2, <3>1
    <2>3. QED
      BY <2>1, <2>2
  <1>13. before \o sends = sent
    BY <1>2, <1>6, <1>11, <1>12, SeqEqual
  <1>14. QED
    BY <1>13 DEF sends, n, k

\* Appending to the second half of a queue is appending to the queue.
LEMMA AppendAfter ==
    ASSUME NEW S, NEW p \in Seq(S), NEW q \in Seq(S), NEW x \in S
    PROVE  p \o Append(q, x) = Append(p \o q, x)
  <1>1. /\ p \o q \in Seq(S) /\ <<x>> \in Seq(S)
        /\ Append(q, x) = q \o <<x>>
    BY AppendIsConcat, ConcatProperties
  <1>2. Append(p \o q, x) = (p \o q) \o <<x>>
    BY <1>1, AppendIsConcat
  <1>3. (p \o q) \o <<x>> = p \o (q \o <<x>>)
    BY <1>1, ConcatAssociative
  <1>4. QED
    BY <1>1, <1>2, <1>3

\* What the Relay's queues and log stand for.
RelayQueue == [t \in Tranceivers |-> Pending(t)]
RelayLog == SubSeq(sent, 1, Len(sent) - SentSoFar)

LEMMA Stutters ==
    ASSUME RelayQueue' = RelayQueue, RelayLog' = RelayLog, accepted' = accepted,
           main = "stopped" <=> main' = "stopped"
    PROVE  UNCHANGED TheRelay!vars
  BY DEF RelayQueue, RelayLog, TheRelay!vars

\* Whatever happens while main has no message, but for accepting and stopping,
\* is not seen.
LEMMA IdleStutters ==
    ASSUME TypeOK, TypeOK', UNCHANGED <<incoming, accepted, sent>>,
           main \notin {"got", "putting"}, main' \notin {"got", "putting"}
    PROVE  RelayQueue' = RelayQueue /\ RelayLog' = RelayLog
  <1>1. ASSUME NEW t \in Tranceivers PROVE Pending(t)' = Pending(t)
    BY DEF Pending
  <1>2. SentSoFar = 0 /\ SentSoFar' = 0
    BY DEF SentSoFar
  <1>3. QED
    BY <1>1, <1>2 DEF RelayQueue, RelayLog

\* Nor what happens to the work queue, to a thread or to `terminate'.
LEMMA OthersStutter ==
    ASSUME UNCHANGED <<incoming, accepted, sent, main, t_has_work, m_cur, todo>>
    PROVE  RelayQueue' = RelayQueue /\ RelayLog' = RelayLog
  <1>1. ASSUME NEW t \in Tranceivers PROVE Pending(t)' = Pending(t)
    BY DEF Pending
  <1>2. SentSoFar' = SentSoFar
    BY DEF SentSoFar, TargetsOf
  <1>3. QED
    BY <1>1, <1>2 DEF RelayQueue, RelayLog

\* A message that is pushed is accepted, at the end of its queue.
LEMMA PushAccepts ==
    ASSUME RInv, NEW r \in Threads, PushIncoming(r)
    PROVE  TheRelay!Accept(copy[r])
  <1> DEFINE m == copy[r]
  <1>1. /\ m \in Messages /\ m \notin accepted /\ Source[m] = Owner[r]
        /\ Owner[r] \in Tranceivers /\ TypeOK
    BY RouterAssumption DEF RInv, IInv, TypeOK, PushIncoming, Brings
  <1>2. /\ accepted' = accepted \cup {m}
        /\ incoming' = [incoming EXCEPT ![Owner[r]] = Append(@, m)]
        /\ UNCHANGED <<main, t_has_work, m_cur, todo, sent>>
    BY DEF PushIncoming, mainVars
  <1>3. ASSUME NEW t \in Tranceivers
        PROVE  Pending(t)' = IF t = Owner[r] THEN Append(Pending(t), m)
                                             ELSE Pending(t)
    <2>1. /\ incoming[t] \in Seq(Messages)
          /\ incoming'[t] = IF t = Owner[r] THEN Append(incoming[t], m)
                                            ELSE incoming[t]
      BY <1>1, <1>2 DEF TypeOK
    <2> DEFINE before == IF main \in {"got", "putting"} /\ t_has_work = t
                         THEN <<m_cur>> ELSE <<>>
    <2>2. Pending(t) = before \o incoming[t] /\ Pending(t)' = before \o incoming'[t]
      BY <1>2 DEF Pending
    <2>3. before \in Seq(Messages)
      BY <1>1, EmptySeq DEF TypeOK
    <2>4. before \o Append(incoming[t], m) = Append(before \o incoming[t], m)
      <3> HIDE DEF before
      <3>1. QED
        BY <1>1, <2>1, <2>3, AppendAfter
    <2>5. QED
      BY <2>1, <2>2, <2>4
  <1>4. RelayQueue' = [RelayQueue EXCEPT ![Source[m]] = Append(@, m)]
    BY <1>1, <1>3 DEF RelayQueue
  <1>5. RelayLog' = RelayLog
    BY <1>2 DEF RelayLog, SentSoFar, TargetsOf
  <1>6. QED
    BY <1>1, <1>2, <1>4, <1>5 DEF TheRelay!Accept, RelayQueue, RelayLog

\* The message main gets still counts as the head of its queue.
LEMMA GetStutters ==
    ASSUME RInv, RInv', MainGet
    PROVE  RelayQueue' = RelayQueue /\ RelayLog' = RelayLog
  <1>1. main = "peeked" /\ TypeOK /\ TypeOK'
    BY DEF MainGet, RInv, IInv
  <1>2. t_has_work \in Tranceivers /\ incoming[t_has_work] # <<>>
    BY <1>1, InHandHasMessage DEF RInv
  <1>3. /\ main' = "got" /\ t_has_work' = t_has_work
        /\ m_cur' = Head(incoming[t_has_work])
        /\ incoming' = [incoming EXCEPT ![t_has_work] = Tail(@)]
        /\ UNCHANGED <<sent, todo>>
    BY <1>2 DEF MainGet
  <1>4. ASSUME NEW t \in Tranceivers PROVE Pending(t)' = Pending(t)
    <2>1. Pending(t) = incoming[t] /\ incoming[t] \in Seq(Messages)
      BY <1>1, PendingType DEF TypeOK
    <2>2. CASE t = t_has_work
      <3>1. Pending(t)' = <<Head(incoming[t])>> \o Tail(incoming[t])
        BY <1>1, <1>3, <2>2 DEF Pending, TypeOK
      <3>2. <<Head(incoming[t])>> \o Tail(incoming[t]) = incoming[t]
        <4> DEFINE q == incoming[t]
        <4> HIDE DEF q
        <4>1. q \in Seq(Messages) /\ q # <<>>
          BY <1>2, <2>1, <2>2 DEF q
        <4>2. <<Head(q)>> \o Tail(q) = q
          BY <4>1
        <4>3. QED
          BY <4>2 DEF q
      <3>3. QED
        BY <2>1, <3>1, <3>2
    <2>3. CASE t # t_has_work
      <3>1. incoming'[t] = incoming[t]
        BY <1>1, <1>3, <2>3 DEF TypeOK
      <3>2. Pending(t)' = <<>> \o incoming[t]
        BY <1>3, <2>3, <3>1 DEF Pending
      <3>3. QED
        BY <2>1, <3>2, ConcatEmptySeq
    <2>4. QED
      BY <2>2, <2>3
  <1>5. SentSoFar = 0 /\ SentSoFar' = 0
    BY <1>1, <1>3 DEF SentSoFar
  <1>6. QED
    BY <1>3, <1>4, <1>5 DEF RelayQueue, RelayLog

\* When main is through with its message, that is gone from its queue.
LEMMA MessageLeaves ==
    ASSUME TypeOK, main \in {"got", "putting"}, main' = "top",
           UNCHANGED incoming
    PROVE  /\ t_has_work \in Tranceivers /\ RelayQueue[t_has_work] # <<>>
           /\ Head(RelayQueue[t_has_work]) = m_cur
           /\ RelayQueue' = [RelayQueue EXCEPT ![t_has_work] = Tail(@)]
  <1>1. t_has_work \in Tranceivers
    BY DEF TypeOK
  <1>2. ASSUME NEW t \in Tranceivers
        PROVE  Pending(t)' = IF t = t_has_work THEN Tail(Pending(t)) ELSE Pending(t)
    <2>1. Pending(t)' = <<>> \o incoming[t] /\ incoming[t] \in Seq(Messages)
      BY DEF Pending, TypeOK
    <2>2. Pending(t)' = incoming[t]
      BY <2>1, ConcatEmptySeq
    <2>3. QED
      BY <2>2, PendingType
  <1>3. QED
    BY <1>1, <1>2, PendingType DEF RelayQueue

\* The sends of the current message are not in the log yet.
LEMMA PutTargetStutters ==
    ASSUME RInv, MainPutTarget
    PROVE  RelayQueue' = RelayQueue /\ RelayLog' = RelayLog
  <1> DEFINE n == Len(sent) - SentSoFar
  <1>1. ASSUME NEW t \in Tranceivers PROVE Pending(t)' = Pending(t)
    BY DEF MainPutTarget, Pending
  <1>2. /\ SentSoFar' = SentSoFar + 1 /\ Len(sent') = Len(sent) + 1
        /\ n \in 0..Len(sent)
        /\ \A i \in 1..Len(sent) : sent'[i] = sent[i]
    BY SendingPutTarget
  <1>3. Len(sent) \in Nat /\ SentSoFar \in Int
    <2>1. main = "putting" /\ m_cur \in Messages
      BY DEF MainPutTarget, RInv, IInv, TypeOK
    <2>2. Len(TargetsOf[m_cur]) \in Nat
      BY <2>1, TargetsOfType
    <2>3. Len(todo) \in Nat /\ Len(sent) \in Nat
      BY LenProperties DEF RInv, IInv, TypeOK
    <2>4. QED
      BY <2>1, <2>2, <2>3 DEF SentSoFar
  <1>4. Len(sent') - SentSoFar' = n
    BY <1>2, <1>3
  <1>5. \A i \in 1..n : sent'[i] = sent[i]
    BY <1>2, <1>3
  <1>6. RelayLog' = SubSeq(sent', 1, n)
    BY <1>4 DEF RelayLog
  <1>7. SubSeq(sent', 1, n) = SubSeq(sent, 1, n)
    <2> HIDE DEF n
    <2>1. n \in Nat
      BY <1>2, <1>3
    <2>2. QED
      BY <1>5, <2>1
  <1>8. QED
    BY <1>1, <1>6, <1>7 DEF RelayQueue, RelayLog

\* Every step of the router is a step of the Relay, or is not seen.
LEMMA RelayNext ==
    ASSUME RInv, [Next]_vars PROVE [TheRelay!Next]_(TheRelay!vars)
  <1>0. RInv' /\ TypeOK /\ TypeOK'
    BY RInvNext DEF RInv, IInv
  <1>1. ASSUME NEW r \in Threads, PushIncoming(r) PROVE TheRelay!Next
    <2>1. copy[r] \in Messages
      BY <1>1 DEF PushIncoming, RInv, IInv, TypeOK
    <2>2. QED
      BY <1>1, <2>1, PushAccepts DEF TheRelay!Next
  <1>2. ASSUME NEW r \in Threads, PushWork(r) PROVE UNCHANGED TheRelay!vars
    <2>1. CASE main = "waiting"
      <3>1. /\ main' = "top" /\ UNCHANGED <<incoming, accepted, sent>>
        BY <1>2, <2>1 DEF PushWork
      <3>2. QED
        BY <1>0, <2>1, <3>1, IdleStutters, Stutters
    <2>2. CASE main # "waiting"
      <3>1. UNCHANGED <<incoming, accepted, sent, main, t_has_work, m_cur, todo>>
        BY <1>2, <2>2 DEF PushWork
      <3>2. QED
        BY <3>1, OthersStutter, Stutters
    <2>3. QED
      BY <2>1, <2>2
  <1>3. CASE \/ Signal \/ UNCHANGED vars
             \/ \E r \in Threads : Admit(r) \/ Refuse(r)
    <2>1. UNCHANGED <<incoming, accepted, sent, main, t_has_work, m_cur, todo>>
      BY <1>3 DEF Admit, Refuse, Signal, vars, mainVars
    <2>2. QED
      BY <2>1, OthersStutter, Stutters
  <1>4. CASE MainWait \/ MainTimeout \/ MainPop \/ MainPeek
    <2>1. /\ UNCHANGED <<incoming, accepted, sent>>
          /\ main \notin {"got", "putting", "stopped"}
          /\ main' \notin {"got", "putting", "stopped"}
      BY <1>4 DEF MainWait, MainTimeout, MainPop, MainPeek
    <2>2. QED
      BY <1>0, <2>1, IdleStutters, Stutters
  <1>5. CASE MainBreak
    <2>1. /\ UNCHANGED <<incoming, accepted, sent>>
          /\ main = "top" /\ main' = "stopped"
      BY <1>5 DEF MainBreak
    <2>2. RelayQueue' = RelayQueue /\ RelayLog' = RelayLog
      BY <1>0, <2>1, IdleStutters
    <2>3. TheRelay!Stop
      BY <2>1, <2>2 DEF TheRelay!Stop, RelayQueue, RelayLog
    <2>4. QED
      BY <2>3 DEF TheRelay!Next
  <1>6. CASE MainGet
    <2>1. RelayQueue' = RelayQueue /\ RelayLog' = RelayLog
      BY <1>0, <1>6, GetStutters
    <2>2. accepted' = accepted /\ main = "peeked" /\ main' # "stopped"
      BY <1>6 DEF MainGet
    <2>3. QED
      BY <2>1, <2>2, Stutters
  <1>7. CASE MainDrop
    <2>1. /\ main = "got" /\ main' = "top" /\ GlobalFilter
          /\ UNCHANGED <<incoming, sent, accepted>>
      BY <1>7 DEF MainDrop
    <2>2. RelayLog' = RelayLog
      BY <2>1 DEF RelayLog, SentSoFar
    <2>3. TheRelay!Drop(t_has_work)
      BY <1>0, <2>1, <2>2, MessageLeaves
      DEF TheRelay!Drop, RelayQueue, RelayLog
    <2>4. t_has_work \in Tranceivers
      BY <1>0, <2>1 DEF TypeOK
    <2>5. QED
      BY <2>3, <2>4 DEF TheRelay!Next
  <1>8. CASE MainPutMessage
    <2>1. /\ main = "got" /\ main' = "putting" /\ m_cur \in Messages
          /\ UNCHANGED <<incoming, sent, accepted, t_has_work, m_cur>>
          /\ todo' = Targets(Bridges, Routes, t_has_work, m_cur)
      BY <1>0, <1>8 DEF MainPutMessage, TypeOK
    <2>2. ASSUME NEW t \in Tranceivers PROVE Pending(t)' = Pending(t)
      BY <2>1 DEF Pending
    <2>3. SentSoFar = 0 /\ SentSoFar' = 0
      <3>1. todo' = TargetsOf[m_cur] /\ Len(TargetsOf[m_cur]) \in Nat
        BY <2>1, TargetsOfType DEF RInv, Current
      <3>2. TargetsOf' = TargetsOf
        BY DEF TargetsOf
      <3>3. QED
        BY <2>1, <3>1, <3>2 DEF SentSoFar
    <2>4. QED
      BY <2>1, <2>2, <2>3, Stutters DEF RelayQueue, RelayLog
  <1>9. CASE MainPutTarget
    <2>1. main' = main /\ accepted' = accepted
      BY <1>9 DEF MainPutTarget
    <2>2. QED
      BY <1>9, <2>1, PutTargetStutters, Stutters
  <1>10. CASE MainPutReturn
    <2>1. /\ main = "putting" /\ main' = "top"
          /\ UNCHANGED <<incoming, sent, accepted>>
      BY <1>10 DEF MainPutReturn
    <2>2. RelayLog' = sent
      <3>1. sent \in Seq(Messages \X Tranceivers) /\ Len(sent) \in Nat
        BY <1>0, LenProperties DEF TypeOK
      <3>2. Len(sent') - SentSoFar' = Len(sent)
        BY <2>1, <3>1 DEF SentSoFar
      <3>3. QED
        BY <2>1, <3>1, <3>2, SubSeqFull DEF RelayLog
    <2>3. RelayLog' = RelayLog \o TheRelay!Sends(m_cur)
      BY <1>10, <2>2, LogGrows DEF RelayLog
    <2>4. TheRelay!Forward(t_has_work)
      BY <1>0, <2>1, <2>3, MessageLeaves
      DEF TheRelay!Forward, RelayQueue, RelayLog
    <2>5. t_has_work \in Tranceivers
      BY <1>0, <2>1 DEF TypeOK
    <2>6. QED
      BY <2>4, <2>5 DEF TheRelay!Next
  <1>11. QED
    BY <1>1, <1>2, <1>3, <1>4, <1>5, <1>6, <1>7, <1>8, <1>9, <1>10, StepCases

LEMMA RelayInit == Init => TheRelay!Init
  <1> SUFFICES ASSUME Init PROVE TheRelay!Init
    OBVIOUS
  <1>1. RelayLog = <<>>
    <2>1. Len(sent) - SentSoFar = 0 /\ sent = <<>>
      BY DEF Init, SentSoFar
    <2>2. QED
      BY <2>1, SubSeqEmpty DEF RelayLog
  <1>2. ASSUME NEW t \in Tranceivers PROVE Pending(t) = <<>>
    BY DEF Init, Pending
  <1>3. QED
    BY <1>1, <1>2 DEF TheRelay!Init, Init, RelayLog, RelayQueue

-----------------------------------------------------------------------------
\* The safety half of ImplementsRelay: messages leave in the order in which
\* their tranceiver accepted them, each once to each of its targets and never
\* mixed with another's (tranceiver.cpp:48-150, main.cpp:24-80).
THEOREM RouterIsRelay == Spec => TheRelay!Init /\ [][TheRelay!Next]_(TheRelay!vars)
  <1>1. Init => RInv
    BY RInvInit
  <1>2. RInv /\ [Next]_vars => RInv'
    BY RInvNext
  <1>3. RInv /\ [Next]_vars => [TheRelay!Next]_(TheRelay!vars)
    BY RelayNext
  <1>4. QED
    BY <1>1, <1>2, <1>3, RelayInit, PTL DEF Spec
=============================================================================

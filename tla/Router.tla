-------------------------------- MODULE Router --------------------------------
(***************************************************************************)
(* The core of the program: tranceiver.cpp and main.cpp.                   *)
(*                                                                         *)
(* Threads of the tranceivers (rx threads, callbacks of libraries) hand    *)
(* what they receive to queue_incoming_message(), which pushes the message *)
(* on the tranceiver's own queue and then, under another lock, the         *)
(* tranceiver on the work queue.  main's thread pops a tranceiver, asserts *)
(* that it has a message, gets it and puts it through the switchboard, one *)
(* target after another.  SIGINT sets `terminate' and wakes nobody.        *)
(*                                                                         *)
(* What a lock protects is one action.  Whether a repetition filter lets a *)
(* message pass is left open here; Seen says when it does.                 *)
(***************************************************************************)
EXTENDS Switchboard

CONSTANTS
    Threads,        \* the threads that call queue_incoming_message()
    Owner,          \* Threads -> Tranceivers: whose method they call
    Limited,        \* the tranceivers with a repetition filter (s # nullptr)
    GlobalFilter,   \* there is a global repetition filter
    Bridges, Routes,  \* the switchboard's tables, as configured
    NoMessage

ASSUME RouterAssumption ==
    /\ IsFiniteSet(Threads)
    /\ Owner \in [Threads -> Tranceivers]
    /\ Limited \subseteq Tranceivers
    /\ GlobalFilter \in BOOLEAN
    /\ NoMessage \notin Messages
    /\ \A t \in Tranceivers, m \in Messages :
          Targets(Bridges, Routes, t, m) \in Seq(Tranceivers)

VARIABLES
    incoming,   \* tranceiver::incoming, for each tranceiver
    work_list,  \* work_queue_t::work_list
    thread,     \* where each thread is in queue_incoming_message()
    copy,       \* the message it handles there
    main,       \* where main's thread is
    t_has_work, \* main: the tranceiver popped
    m_cur,      \* main: the message got
    todo,       \* main: the targets put_message() has still to visit
    terminate,
    received,   \* the messages that ever came in; each one comes in once
    accepted,   \* observer: those that were pushed on a queue
    sent        \* observer: <<message, target>> for each put_message() call

vars == <<incoming, work_list, thread, copy, main, t_has_work, m_cur, todo,
          terminate, received, accepted, sent>>
mainVars == <<main, t_has_work, m_cur, todo>>

-----------------------------------------------------------------------------
Init ==
    /\ incoming = [t \in Tranceivers |-> <<>>]
    /\ work_list = <<>>
    /\ thread = [r \in Threads |-> "idle"]
    /\ copy = [r \in Threads |-> NoMessage]
    /\ main = "top"
    /\ t_has_work = NoTranceiver
    /\ m_cur = NoMessage
    /\ todo = <<>>
    /\ terminate = FALSE
    /\ received = {}
    /\ accepted = {}
    /\ sent = <<>>

-----------------------------------------------------------------------------
(* queue_incoming_message(), called by thread r.                           *)

\* It is called, and the tranceiver's own filter lets the message pass.
Admit(r) ==
    /\ thread[r] = "idle"
    /\ \E m \in Messages \ received :
          /\ Source[m] = Owner[r]
          /\ received' = received \cup {m}
          /\ copy' = [copy EXCEPT ![r] = m]
    /\ thread' = [thread EXCEPT ![r] = "admitted"]
    /\ UNCHANGED <<incoming, work_list, mainVars, terminate, accepted, sent>>

\* It is called, and returns TE_ratelimiting.
Refuse(r) ==
    /\ thread[r] = "idle"
    /\ Owner[r] \in Limited
    /\ \E m \in Messages \ received :
          /\ Source[m] = Owner[r]
          /\ received' = received \cup {m}
    /\ UNCHANGED <<incoming, work_list, thread, copy, mainVars, terminate,
                   accepted, sent>>

(* Deliberately wrong variants, used to show that the properties bite. *)
PushIncoming_AfterWork(r) ==
    /\ thread[r] = "admitted"
    /\ work_list' = Append(work_list, Owner[r])
    /\ accepted' = accepted \cup {copy[r]}
    /\ thread' = [thread EXCEPT ![r] = "pushed"]
    /\ UNCHANGED <<incoming, copy, mainVars, terminate, received, sent>>

PushWork_Unnoticed(r) ==
    /\ thread[r] = "pushed"
    /\ thread' = [thread EXCEPT ![r] = "idle"]
    /\ copy' = [copy EXCEPT ![r] = NoMessage]
    /\ UNCHANGED <<incoming, work_list, mainVars, terminate, received, accepted,
                   sent>>

\* incoming.push(copy), under incoming_lock.
PushIncoming(r) ==
    /\ thread[r] = "admitted"
    /\ incoming' = [incoming EXCEPT ![Owner[r]] = Append(@, copy[r])]
    /\ accepted' = accepted \cup {copy[r]}
    /\ thread' = [thread EXCEPT ![r] = "pushed"]
    /\ UNCHANGED <<work_list, copy, mainVars, terminate, received, sent>>

\* work_list.push(this) and notify_one(), under work_lock.
PushWork(r) ==
    /\ thread[r] = "pushed"
    /\ work_list' = Append(work_list, Owner[r])
    /\ main' = IF main = "waiting" THEN "top" ELSE main
    /\ thread' = [thread EXCEPT ![r] = "idle"]
    /\ copy' = [copy EXCEPT ![r] = NoMessage]
    /\ UNCHANGED <<incoming, t_has_work, m_cur, todo, terminate, received,
                   accepted, sent>>

-----------------------------------------------------------------------------
(* The loop of process(), under work_lock up to and including MainPop.     *)

\* Nothing to do: wait_for, which releases the lock.
MainWait ==
    /\ main = "top"
    /\ work_list = <<>> /\ ~terminate
    /\ main' = "waiting"
    /\ UNCHANGED <<incoming, work_list, thread, copy, t_has_work, m_cur, todo,
                   terminate, received, accepted, sent>>

\* Wrong variant: wait() instead of wait_for().
MainTimeout_Never == FALSE

\* 100 ms have passed.
MainTimeout ==
    /\ main = "waiting"
    /\ main' = "top"
    /\ UNCHANGED <<incoming, work_list, thread, copy, t_has_work, m_cur, todo,
                   terminate, received, accepted, sent>>

MainBreak ==
    /\ main = "top"
    /\ terminate
    /\ main' = "stopped"
    /\ UNCHANGED <<incoming, work_list, thread, copy, t_has_work, m_cur, todo,
                   terminate, received, accepted, sent>>

MainPop ==
    /\ main = "top"
    /\ work_list # <<>> /\ ~terminate
    /\ t_has_work' = Head(work_list)
    /\ work_list' = Tail(work_list)
    /\ main' = "popped"
    /\ UNCHANGED <<incoming, thread, copy, m_cur, todo, terminate, received,
                   accepted, sent>>

\* assert(t_has_work->peek())
MainPeek ==
    /\ main = "popped"
    /\ main' = IF incoming[t_has_work] # <<>> THEN "peeked" ELSE "aborted"
    /\ UNCHANGED <<incoming, work_list, thread, copy, t_has_work, m_cur, todo,
                   terminate, received, accepted, sent>>

\* get_message().  Had it nothing to return, it would time out and the
\* warning's m.value() would throw.
MainGet ==
    /\ main = "peeked"
    /\ IF incoming[t_has_work] # <<>>
       THEN /\ m_cur' = Head(incoming[t_has_work])
            /\ incoming' = [incoming EXCEPT ![t_has_work] = Tail(@)]
            /\ main' = "got"
            /\ UNCHANGED t_has_work
       ELSE /\ main' = IF terminate THEN "top" ELSE "aborted"
            /\ t_has_work' = IF terminate THEN NoTranceiver ELSE t_has_work
            /\ UNCHANGED <<incoming, m_cur>>
    /\ UNCHANGED <<work_list, thread, copy, todo, terminate, received,
                   accepted, sent>>

\* The global filter drops the message.
MainDrop ==
    /\ main = "got"
    /\ GlobalFilter
    /\ main' = "top"
    /\ t_has_work' = NoTranceiver
    /\ m_cur' = NoMessage
    /\ UNCHANGED <<incoming, work_list, thread, copy, todo, terminate, received,
                   accepted, sent>>

\* switchboard::put_message(t_has_work, m, true) is entered.
MainPutMessage ==
    /\ main = "got"
    /\ todo' = Targets(Bridges, Routes, t_has_work, m_cur)
    /\ main' = "putting"
    /\ UNCHANGED <<incoming, work_list, thread, copy, t_has_work, m_cur,
                   terminate, received, accepted, sent>>

\* t->put_message(m) for the next target; the answer changes nothing here.
MainPutTarget ==
    /\ main = "putting"
    /\ todo # <<>>
    /\ sent' = Append(sent, <<m_cur, Head(todo)>>)
    /\ todo' = Tail(todo)
    /\ UNCHANGED <<incoming, work_list, thread, copy, main, t_has_work, m_cur,
                   terminate, received, accepted>>

\* put_message() returns; m and t_has_work go out of scope.
MainPutReturn ==
    /\ main = "putting"
    /\ todo = <<>>
    /\ main' = "top"
    /\ t_has_work' = NoTranceiver
    /\ m_cur' = NoMessage
    /\ UNCHANGED <<incoming, work_list, thread, copy, todo, terminate, received,
                   accepted, sent>>

\* signal_handler(): SIGINT at any moment, once.
Signal ==
    /\ ~terminate
    /\ terminate' = TRUE
    /\ UNCHANGED <<incoming, work_list, thread, copy, mainVars, received,
                   accepted, sent>>

-----------------------------------------------------------------------------
Receiver(r) == Admit(r) \/ Refuse(r) \/ PushIncoming(r) \/ PushWork(r)

Main == \/ MainWait \/ MainTimeout \/ MainBreak \/ MainPop \/ MainPeek
        \/ MainGet \/ MainDrop \/ MainPutMessage \/ MainPutTarget
        \/ MainPutReturn

Next == (\E r \in Threads : Receiver(r)) \/ Main \/ Signal

\* main's thread always runs on: its wait times out and every put_message()
\* is taken to return.  A thread that has begun queue_incoming_message()
\* finishes it; no message has to come in and nobody has to press ^C.
Fairness ==
    /\ WF_vars(Main)
    /\ \A r \in Threads : WF_vars(PushIncoming(r)) /\ WF_vars(PushWork(r))

Spec == Init /\ [][Next]_vars /\ Fairness
-----------------------------------------------------------------------------
MainStates == {"top", "waiting", "popped", "peeked", "got", "putting",
               "stopped", "aborted"}

TypeOK ==
    /\ incoming \in [Tranceivers -> Seq(Messages)]
    /\ work_list \in Seq(Tranceivers)
    /\ thread \in [Threads -> {"idle", "admitted", "pushed"}]
    /\ copy \in [Threads -> Messages \cup {NoMessage}]
    /\ \A r \in Threads : thread[r] # "idle" => copy[r] \in received
    /\ main \in MainStates
    /\ IF main \in {"top", "waiting", "stopped"}
       THEN t_has_work = NoTranceiver
       ELSE t_has_work \in Tranceivers
    /\ IF main \in {"got", "putting"} THEN m_cur \in Messages
                                     ELSE m_cur = NoMessage
    /\ todo \in Seq(Tranceivers)
    /\ main # "putting" => todo = <<>>
    /\ terminate \in BOOLEAN
    /\ received \subseteq Messages /\ accepted \subseteq received
    /\ sent \in Seq(Messages \X Tranceivers)

\* How often t is in sequence q.
Count(q, t) == Cardinality({i \in 1..Len(q) : q[i] = t})

\* main has taken t off the work queue but not yet its message.
InHand(t) == IF main \in {"popped", "peeked"} /\ t_has_work = t THEN 1 ELSE 0

\* The threads that pushed a message for t and have yet to say so.
Announcing(t) == {r \in Threads : thread[r] = "pushed" /\ Owner[r] = t}

(***************************************************************************)
(* The two queues agree, although they are under different locks: each     *)
(* message on a tranceiver's queue has its own entry on the work queue, or *)
(* in main's hand, or a thread about to push it, and the other way round.  *)
(* (tranceiver.cpp:109-125, main.cpp:43-49)                                *)
(***************************************************************************)
QueuesAgree ==
    main # "aborted" =>
        \A t \in Tranceivers :
            Len(incoming[t]) =
                Count(work_list, t) + InHand(t) + Cardinality(Announcing(t))

(***************************************************************************)
(* assert(t_has_work->peek()) never fails, nor does the loop find a        *)
(* tranceiver without a message. (main.cpp:47-56)                          *)
(***************************************************************************)
PeekNeverFails == main # "aborted"

(***************************************************************************)
(* ^C is noticed although the signal handler wakes nobody, also when main  *)
(* is waiting for work that never comes. (main.cpp:15-22, 37-41)           *)
(***************************************************************************)
StopsWhenAsked == terminate ~> main = "stopped"

-----------------------------------------------------------------------------
(***************************************************************************)
(* The router is a Relay: a message main has got still counts as the head  *)
(* of its queue, and what put_message() already sent of it counts when it  *)
(* returns.                                                                *)
(***************************************************************************)
Pending(t) ==
    (IF main \in {"got", "putting"} /\ t_has_work = t THEN <<m_cur>> ELSE <<>>)
        \o incoming[t]

TargetsOf == [m \in Messages |-> Targets(Bridges, Routes, Source[m], m)]

\* How many sends of the current message were made.
SentSoFar == IF main = "putting" THEN Len(TargetsOf[m_cur]) - Len(todo) ELSE 0

TheRelay == INSTANCE Relay WITH
    queue   <- [t \in Tranceivers |-> Pending(t)],
    log     <- SubSeq(sent, 1, Len(sent) - SentSoFar),
    running <- main # "stopped",
    MayDrop <- GlobalFilter

(***************************************************************************)
(* Messages leave in the order their tranceiver accepted them, each once   *)
(* to each target and never mixed with another's; as long as the router    *)
(* runs each is taken. (tranceiver.cpp:48-150, main.cpp:24-80)             *)
(***************************************************************************)
ImplementsRelay == TheRelay!Spec
=============================================================================

------------------------------ MODULE LoraProofs -------------------------------
(***************************************************************************)
(* However many senders there are and whatever comes in: TE_ok means sent, *)
(* and only a handler that is overtaken, or a modem that hangs, leaves the *)
(* modem deaf.  The counters are exact as long as one thread counts.       *)
(***************************************************************************)
EXTENDS Lora, FiniteSetTheorems, TLAPS

(* What every step preserves. *)

\* Where a caller is while it is inside put_message_low().
Busy == {"stop", "ready", "sending", "ok", "failed", "listen"}

TypeOK ==
    /\ mode \in {"STDBY", "TX", "RXCONT"}
    /\ irq \subseteq {"RXDONE", "TXDONE"}
    /\ fifo \in Frames \cup {"nothing"}
    /\ hung \in BOOLEAN /\ hangs \in Nat
    /\ isr \in {"none", "rx", "tx"} /\ handler \in {"idle", "seen", "reset"}
    /\ kind \in [Heard -> {"none", "good", "crc", "empty"}]
    /\ tx \in Frames \cup {"nothing"}
    /\ lock \in Callers \cup {"free"}
    /\ pc \in [Callers -> {"idle", "count", "add", "queue", "put", "done"} \cup Busy]
    /\ frame \in [Callers -> Frames \cup {"nothing"}]
    /\ answer \in [Frames -> {"none", "TE_ok", "TE_hardware"}]
    /\ aired \in [Frames -> {0, 1}]
    /\ raced \in BOOLEAN

\* Who is inside put_message_low() has the lock.
OneSender == \A c \in Callers : pc[c] \in Busy <=> lock = c

\* A thread is there for a packet that came in; it sends what was good.
ThreadsOfPackets ==
    \A n \in Heard :
        /\ kind[n] = "none" => pc[n] = "idle"
        /\ pc[n] # "idle" => frame[n] = n /\ kind[n] \in {"good", "crc"}
        /\ pc[n] = "queue" => kind[n] = "good"
        /\ pc[n] \in Busy \cup {"put"} => Digipeater /\ kind[n] = "good"

\* Main puts what it has no answer for.
MainsFrame ==
    /\ pc["main"] \in {"idle", "put", "done"} \cup Busy
    /\ pc["main"] \in Busy \cup {"put"} => frame["main"] \in MainFrames
    /\ pc["main"] \in (Busy \cup {"put"}) \ {"listen"} => answer[frame["main"]] = "none"

\* While a function is installed to fetch them, packets are new.
PacketIsNew ==
    isr = "rx" /\ "RXDONE" \in irq =>
        fifo \in Heard /\ pc[fifo] = "idle" /\ kind[fifo] # "none"

\* The sender has handed its frame to the modem and not set up reception yet.
Handed == lock # "free" /\ pc[lock] \in {"sending", "ok", "failed"}

\* Frame f has not been handed to the modem.
Unsent(f) ==
    IF f \in Heard
    THEN pc[f] \in {"idle", "count", "add", "queue", "put", "stop", "ready"}
    ELSE answer[f] = "none" /\ ~(Handed /\ lock = "main" /\ frame["main"] = f)

AiredOnce ==
    /\ lock # "free" => tx = frame[lock]
    /\ mode = "TX" => fifo \in Frames /\ aired[fifo] = 0
    /\ \A f \in Frames : Unsent(f) => aired[f] = 0 /\ ~(mode = "TX" /\ fifo = f)
    /\ \A n \in Heard : aired[n] = 1 \/ (mode = "TX" /\ fifo = n)
                            => Digipeater /\ kind[n] = "good"

\* txDoneISRf() only runs for a sender, unless reception was set up under it.
HandlerKnown ==
    /\ isr = "tx" => Handed
    /\ handler # "idle" => raced \/ Handed
    /\ lock # "free" /\ pc[lock] = "ready" => handler = "idle" /\ isr = "none"

\* A modem that never hung does what it is told.
NeverHung ==
    /\ ~hung
    /\ mode = "TX" => Handed /\ fifo = frame[lock]
    /\ "TXDONE" \in irq => Handed /\ aired[frame[lock]] = 1
    /\ Handed /\ handler # "idle" => aired[frame[lock]] = 1
    /\ Handed /\ (pc[lock] = "ok" \/ (mode = "STDBY" /\ ~ended))
            => pc[lock] = "failed" \/ aired[frame[lock]] = 1
    /\ \A f \in Frames : answer[f] = "TE_ok" => aired[f] = 1
    /\ lock = "free" /\ handler = "idle" /\ ~raced /\ ~ended => mode = "RXCONT"

IInv == /\ TypeOK /\ OneSender /\ ThreadsOfPackets /\ MainsFrame /\ PacketIsNew
        /\ AiredOnce /\ HandlerKnown
        /\ hangs = 0 => NeverHung

-----------------------------------------------------------------------------
\* The names of the callers, of the frames and of nobody are different.
LEMMA Names ==
    /\ "main" \in Callers /\ "main" \notin Frames
    /\ "free" \notin Callers /\ "free" \notin Frames
    /\ "nothing" \notin Frames
    /\ Heard \subseteq Callers /\ Heard \subseteq Frames
    /\ MainFrames \subseteq Frames
    /\ MainFrames \cap Heard = {}
    /\ \A c \in Callers : c = "main" \/ c \in Heard
    /\ Digipeater \in BOOLEAN
  BY LoraAssumption DEF Frames, Callers

\* A packet that comes in is a new one, with a thread yet to be made.
LEMMA ReceiveKeeps ==
    ASSUME IInv, Receive PROVE IInv'
  <1> USE Names DEF IInv
  <1>1. TypeOK'
    BY DEF Receive, driver, threads, counting, TypeOK, Busy
  <1>2. ThreadsOfPackets'
    BY DEF Receive, driver, threads, counting, ThreadsOfPackets, Busy, TypeOK,
       OneSender
  <1>3. PacketIsNew'
    BY DEF Receive, driver, threads, counting, PacketIsNew, TypeOK,
       ThreadsOfPackets
  <1>4. AiredOnce'
    BY DEF Receive, driver, threads, counting, AiredOnce, Busy, Handed,
       Unsent, TypeOK, OneSender, ThreadsOfPackets, MainsFrame
  <1>5. (hangs = 0 => NeverHung)'
    BY DEF Receive, driver, threads, counting, NeverHung, Busy, Handed,
       TypeOK, OneSender, AiredOnce, HandlerKnown
  <1>6. OneSender' /\ MainsFrame' /\ HandlerKnown'
    BY DEF Receive, driver, threads, counting, OneSender, MainsFrame,
       HandlerKnown, Handed
  <1> QED
    BY <1>1, <1>2, <1>3, <1>4, <1>5, <1>6

\* What ends is the holder's frame, for the first time.
LEMMA TransmittedKeeps ==
    ASSUME IInv, Transmitted PROVE IInv'
  <1> USE Names DEF IInv
  <1>1. TypeOK'
    BY DEF Transmitted, driver, threads, counting, TypeOK, Busy, AiredOnce
  <1>2. PacketIsNew'
    BY DEF Transmitted, driver, threads, counting, PacketIsNew, TypeOK,
       ThreadsOfPackets
  <1>3. AiredOnce'
    BY DEF Transmitted, driver, threads, counting, AiredOnce, Busy, Handed,
       Unsent, TypeOK, OneSender, ThreadsOfPackets, MainsFrame
  <1>4. (hangs = 0 => NeverHung)'
    BY DEF Transmitted, driver, threads, counting, NeverHung, Busy, Handed,
       TypeOK, OneSender, AiredOnce, HandlerKnown
  <1>5. OneSender' /\ ThreadsOfPackets' /\ MainsFrame' /\ HandlerKnown'
    BY DEF Transmitted, driver, threads, counting, OneSender,
       ThreadsOfPackets, MainsFrame, HandlerKnown, Handed
  <1> QED
    BY <1>1, <1>2, <1>3, <1>4, <1>5

\* A modem that hangs is outside NeverHung.
LEMMA HangKeeps ==
    ASSUME IInv, Hang PROVE IInv'
  <1> USE Names DEF IInv
  <1>1. TypeOK'
    BY DEF Hang, driver, threads, counting, TypeOK, Busy
  <1>2. (hangs = 0 => NeverHung)'
    BY DEF Hang, driver, threads, counting, NeverHung, Busy, Handed, TypeOK,
       OneSender, AiredOnce, HandlerKnown
  <1>3. /\ OneSender' /\ ThreadsOfPackets' /\ MainsFrame' /\ PacketIsNew'
        /\ AiredOnce' /\ HandlerKnown'
    BY DEF Hang, driver, threads, counting, OneSender, ThreadsOfPackets,
       MainsFrame, PacketIsNew, AiredOnce, HandlerKnown, Handed, Unsent
  <1> QED
    BY <1>1, <1>2, <1>3

\* One that recovers had hung.
LEMMA RecoverKeeps ==
    ASSUME IInv, Recover PROVE IInv'
  <1> USE Names DEF IInv
  <1>1. TypeOK'
    BY DEF Recover, driver, threads, counting, TypeOK, Busy
  <1>2. (hangs = 0 => NeverHung)'
    BY DEF Recover, driver, threads, counting, NeverHung, Busy, Handed,
       TypeOK, OneSender, AiredOnce, HandlerKnown
  <1>3. /\ OneSender' /\ ThreadsOfPackets' /\ MainsFrame' /\ PacketIsNew'
        /\ AiredOnce' /\ HandlerKnown'
    BY DEF Recover, driver, threads, counting, OneSender, ThreadsOfPackets,
       MainsFrame, PacketIsNew, AiredOnce, HandlerKnown, Handed, Unsent
  <1> QED
    BY <1>1, <1>2, <1>3

\* The thread it makes is for a packet that had none.
LEMMA RxDoneKeeps ==
    ASSUME IInv, RxDone PROVE IInv'
  <1> USE Names DEF IInv
  <1>0. /\ fifo \in Heard /\ pc[fifo] = "idle" /\ fifo # lock
        /\ kind[fifo] \in {"good", "crc", "empty"}
    BY DEF RxDone, TypeOK, OneSender, PacketIsNew, Busy
  <1>1. TypeOK'
    BY <1>0 DEF RxDone, driver, counting, TypeOK, Busy
  <1>2. OneSender'
    BY <1>0 DEF RxDone, driver, counting, OneSender, Busy, TypeOK
  <1>3. ThreadsOfPackets'
    BY <1>0 DEF RxDone, driver, counting, ThreadsOfPackets, Busy, TypeOK
  <1>4. MainsFrame'
    BY <1>0 DEF RxDone, driver, counting, MainsFrame, Busy, TypeOK
  <1>5. PacketIsNew'
    BY DEF RxDone, driver, counting, PacketIsNew, TypeOK, ThreadsOfPackets
  <1>6. AiredOnce'
    BY <1>0 DEF RxDone, driver, counting, AiredOnce, Handed, Unsent, TypeOK
  <1>7. HandlerKnown'
    BY <1>0 DEF RxDone, driver, counting, HandlerKnown, Handed, TypeOK
  <1>8. (hangs = 0 => NeverHung)'
    BY <1>0 DEF RxDone, driver, counting, NeverHung, Handed, TypeOK
  <1> QED
    BY <1>1, <1>2, <1>3, <1>4, <1>5, <1>6, <1>7, <1>8

\* The flag is set for the one who holds the lock.
LEMMA TxDoneKeeps ==
    ASSUME IInv, TxDone PROVE IInv'
  <1> USE Names DEF IInv
  <1>1. TypeOK'
    BY DEF TxDone, modem, threads, counting, TypeOK, Busy
  <1>2. HandlerKnown'
    BY DEF TxDone, modem, threads, counting, HandlerKnown, Busy, Handed,
       TypeOK, OneSender
  <1>3. (hangs = 0 => NeverHung)'
    BY DEF TxDone, modem, threads, counting, NeverHung, Busy, Handed, TypeOK,
       OneSender, AiredOnce, HandlerKnown
  <1>4. /\ OneSender' /\ ThreadsOfPackets' /\ MainsFrame' /\ PacketIsNew'
        /\ AiredOnce'
    BY DEF TxDone, modem, threads, counting, OneSender, ThreadsOfPackets,
       MainsFrame, PacketIsNew, AiredOnce, Handed, Unsent
  <1> QED
    BY <1>1, <1>2, <1>3, <1>4

\* The flags were looked at already.
LEMMA TxDoneResetKeeps ==
    ASSUME IInv, TxDoneReset PROVE IInv'
  <1> USE Names DEF IInv
  <1>1. TypeOK'
    BY DEF TxDoneReset, threads, counting, TypeOK, Busy
  <1>2. PacketIsNew'
    BY DEF TxDoneReset, threads, counting, PacketIsNew, TypeOK,
       ThreadsOfPackets
  <1>3. HandlerKnown'
    BY DEF TxDoneReset, threads, counting, HandlerKnown, Busy, Handed, TypeOK,
       OneSender
  <1>4. (hangs = 0 => NeverHung)'
    BY DEF TxDoneReset, threads, counting, NeverHung, Busy, Handed, TypeOK,
       OneSender, AiredOnce, HandlerKnown
  <1>5. OneSender' /\ ThreadsOfPackets' /\ MainsFrame' /\ AiredOnce'
    BY DEF TxDoneReset, threads, counting, OneSender, ThreadsOfPackets,
       MainsFrame, AiredOnce, Handed, Unsent
  <1> QED
    BY <1>1, <1>2, <1>3, <1>4, <1>5

\* The handler is late, but the frame is out by now.
LEMMA TxDoneStandbyKeeps ==
    ASSUME IInv, TxDoneStandby PROVE IInv'
  <1> USE Names DEF IInv
  <1>1. TypeOK'
    BY DEF TxDoneStandby, Commanded, threads, counting, TypeOK, Busy
  <1>2. AiredOnce'
    BY DEF TxDoneStandby, Commanded, threads, counting, AiredOnce, Busy,
       Handed, Unsent, TypeOK, OneSender, ThreadsOfPackets, MainsFrame
  <1>3. HandlerKnown'
    BY DEF TxDoneStandby, Commanded, threads, counting, HandlerKnown, Busy,
       Handed, TypeOK, OneSender
  <1>4. (hangs = 0 => NeverHung)'
    BY DEF TxDoneStandby, Commanded, threads, counting, NeverHung, Busy,
       Handed, TypeOK, OneSender, AiredOnce, HandlerKnown
  <1>5. OneSender' /\ ThreadsOfPackets' /\ MainsFrame' /\ PacketIsNew'
    BY DEF TxDoneStandby, Commanded, threads, counting, OneSender,
       ThreadsOfPackets, MainsFrame, PacketIsNew
  <1> QED
    BY <1>1, <1>2, <1>3, <1>4, <1>5

\* Counting does not touch the modem.
LEMMA CountReadKeeps ==
    ASSUME IInv, NEW n \in Heard, CountRead(n) PROVE IInv'
  <1> USE Names DEF IInv
  <1>1. TypeOK'
    BY DEF CountRead, modem, driver, TypeOK, Busy
  <1>2. OneSender'
    BY DEF CountRead, modem, driver, OneSender, Busy, TypeOK
  <1>3. ThreadsOfPackets'
    BY DEF CountRead, modem, driver, ThreadsOfPackets, Busy, TypeOK, OneSender
  <1>4. MainsFrame'
    BY DEF CountRead, modem, driver, MainsFrame, Busy, TypeOK, OneSender
  <1>5. PacketIsNew'
    BY DEF CountRead, modem, driver, PacketIsNew, TypeOK, ThreadsOfPackets
  <1>6. AiredOnce'
    BY DEF CountRead, modem, driver, AiredOnce, Busy, Handed, Unsent, TypeOK,
       OneSender, ThreadsOfPackets, MainsFrame
  <1>7. HandlerKnown'
    BY DEF CountRead, modem, driver, HandlerKnown, Busy, Handed, TypeOK,
       OneSender
  <1>8. (hangs = 0 => NeverHung)'
    BY DEF CountRead, modem, driver, NeverHung, Busy, Handed, TypeOK,
       OneSender, AiredOnce, HandlerKnown
  <1> QED
    BY <1>1, <1>2, <1>3, <1>4, <1>5, <1>6, <1>7, <1>8

\* What is damaged ends here.
LEMMA CountWriteKeeps ==
    ASSUME IInv, NEW n \in Heard, CountWrite(n) PROVE IInv'
  <1> USE Names DEF IInv
  <1>1. TypeOK'
    BY DEF CountWrite, modem, driver, TypeOK, Busy
  <1>2. OneSender'
    BY DEF CountWrite, modem, driver, OneSender, Busy, TypeOK
  <1>3. ThreadsOfPackets'
    BY DEF CountWrite, modem, driver, ThreadsOfPackets, Busy, TypeOK,
       OneSender
  <1>4. MainsFrame'
    BY DEF CountWrite, modem, driver, MainsFrame, Busy, TypeOK, OneSender
  <1>5. PacketIsNew'
    BY DEF CountWrite, modem, driver, PacketIsNew, TypeOK, ThreadsOfPackets
  <1>6. AiredOnce'
    BY DEF CountWrite, modem, driver, AiredOnce, Busy, Handed, Unsent, TypeOK,
       OneSender, ThreadsOfPackets, MainsFrame
  <1>7. HandlerKnown'
    BY DEF CountWrite, modem, driver, HandlerKnown, Busy, Handed, TypeOK,
       OneSender
  <1>8. (hangs = 0 => NeverHung)'
    BY DEF CountWrite, modem, driver, NeverHung, Busy, Handed, TypeOK,
       OneSender, AiredOnce, HandlerKnown
  <1> QED
    BY <1>1, <1>2, <1>3, <1>4, <1>5, <1>6, <1>7, <1>8

\* Only what is good gets to be sent.
LEMMA QueueKeeps ==
    ASSUME IInv, NEW n \in Heard, Queue(n) PROVE IInv'
  <1> USE Names DEF IInv
  <1>1. TypeOK'
    BY DEF Queue, modem, driver, counting, TypeOK, Busy
  <1>2. OneSender'
    BY DEF Queue, modem, driver, counting, OneSender, Busy, TypeOK
  <1>3. ThreadsOfPackets'
    BY DEF Queue, modem, driver, counting, ThreadsOfPackets, Busy, TypeOK,
       OneSender
  <1>4. MainsFrame'
    BY DEF Queue, modem, driver, counting, MainsFrame, Busy, TypeOK, OneSender
  <1>5. PacketIsNew'
    BY DEF Queue, modem, driver, counting, PacketIsNew, TypeOK,
       ThreadsOfPackets
  <1>6. AiredOnce'
    BY DEF Queue, modem, driver, counting, AiredOnce, Busy, Handed, Unsent,
       TypeOK, OneSender, ThreadsOfPackets, MainsFrame
  <1>7. HandlerKnown'
    BY DEF Queue, modem, driver, counting, HandlerKnown, Busy, Handed, TypeOK,
       OneSender
  <1>8. (hangs = 0 => NeverHung)'
    BY DEF Queue, modem, driver, counting, NeverHung, Busy, Handed, TypeOK,
       OneSender, AiredOnce, HandlerKnown
  <1> QED
    BY <1>1, <1>2, <1>3, <1>4, <1>5, <1>6, <1>7, <1>8

\* Main takes a frame without an answer.
LEMMA MainPutKeeps ==
    ASSUME IInv, MainPut PROVE IInv'
  <1> USE Names DEF IInv
  <1>1. TypeOK'
    BY DEF MainPut, modem, driver, counting, TypeOK, Busy
  <1>2. OneSender'
    BY DEF MainPut, modem, driver, counting, OneSender, Busy, TypeOK
  <1>3. ThreadsOfPackets'
    BY DEF MainPut, modem, driver, counting, ThreadsOfPackets, Busy, TypeOK,
       OneSender
  <1>4. MainsFrame'
    BY DEF MainPut, modem, driver, counting, MainsFrame, Busy, TypeOK,
       OneSender
  <1>5. PacketIsNew'
    BY DEF MainPut, modem, driver, counting, PacketIsNew, TypeOK,
       ThreadsOfPackets
  <1>6. AiredOnce'
    BY DEF MainPut, modem, driver, counting, AiredOnce, Busy, Handed, Unsent,
       TypeOK, OneSender, ThreadsOfPackets, MainsFrame
  <1>7. HandlerKnown'
    BY DEF MainPut, modem, driver, counting, HandlerKnown, Busy, Handed,
       TypeOK, OneSender
  <1>8. (hangs = 0 => NeverHung)'
    BY DEF MainPut, modem, driver, counting, NeverHung, Busy, Handed, TypeOK,
       OneSender, AiredOnce, HandlerKnown
  <1> QED
    BY <1>1, <1>2, <1>3, <1>4, <1>5, <1>6, <1>7, <1>8

\* The lock was free, so nobody has a frame in the modem.
LEMMA LockKeeps ==
    ASSUME IInv, NEW c \in Callers, Lock(c) PROVE IInv'
  <1> USE Names DEF IInv
  <1>1. TypeOK'
    BY DEF Lock, modem, driver, counting, TypeOK, Busy
  <1>2. OneSender'
    BY DEF Lock, modem, driver, counting, OneSender, Busy, TypeOK
  <1>3. ThreadsOfPackets'
    BY DEF Lock, modem, driver, counting, ThreadsOfPackets, Busy, TypeOK,
       OneSender
  <1>4. MainsFrame'
    BY DEF Lock, modem, driver, counting, MainsFrame, Busy, TypeOK, OneSender
  <1>5. PacketIsNew'
    BY DEF Lock, modem, driver, counting, PacketIsNew, TypeOK,
       ThreadsOfPackets
  <1>6. AiredOnce'
    BY DEF Lock, modem, driver, counting, AiredOnce, Busy, Handed, Unsent,
       TypeOK, OneSender, ThreadsOfPackets, MainsFrame
  <1>7. HandlerKnown'
    BY DEF Lock, modem, driver, counting, HandlerKnown, Busy, Handed, TypeOK,
       OneSender
  <1>8. (hangs = 0 => NeverHung)'
    BY DEF Lock, modem, driver, counting, NeverHung, Busy, Handed, TypeOK,
       OneSender, AiredOnce, HandlerKnown
  <1> QED
    BY <1>1, <1>2, <1>3, <1>4, <1>5, <1>6, <1>7, <1>8

\* No handler is installed, or running, from here on.
LEMMA StopReceiveKeeps ==
    ASSUME IInv, NEW c \in Callers, StopReceive(c) PROVE IInv'
  <1> USE Names DEF IInv
  <1>1. TypeOK'
    BY DEF StopReceive, Commanded, counting, TypeOK, Busy
  <1>2. OneSender'
    BY DEF StopReceive, Commanded, counting, OneSender, Busy, TypeOK
  <1>3. ThreadsOfPackets'
    BY DEF StopReceive, Commanded, counting, ThreadsOfPackets, Busy, TypeOK,
       OneSender
  <1>4. MainsFrame'
    BY DEF StopReceive, Commanded, counting, MainsFrame, Busy, TypeOK,
       OneSender
  <1>5. PacketIsNew'
    BY DEF StopReceive, Commanded, counting, PacketIsNew, TypeOK,
       ThreadsOfPackets
  <1>6. AiredOnce'
    BY DEF StopReceive, Commanded, counting, AiredOnce, Busy, Handed, Unsent,
       TypeOK, OneSender, ThreadsOfPackets, MainsFrame
  <1>7. HandlerKnown'
    BY DEF StopReceive, Commanded, counting, HandlerKnown, Busy, Handed,
       TypeOK, OneSender
  <1>8. (hangs = 0 => NeverHung)'
    BY DEF StopReceive, Commanded, counting, NeverHung, Busy, Handed, TypeOK,
       OneSender, AiredOnce, HandlerKnown
  <1> QED
    BY <1>1, <1>2, <1>3, <1>4, <1>5, <1>6, <1>7, <1>8

\* The frame that is handed over has not been out before.
LEMMA SendKeeps ==
    ASSUME IInv, NEW c \in Callers, Send(c) PROVE IInv'
  <1> USE Names DEF IInv
  <1>1. TypeOK'
    BY DEF Send, counting, TypeOK, Busy
  <1>2. OneSender'
    BY DEF Send, counting, OneSender, Busy, TypeOK
  <1>3. ThreadsOfPackets'
    BY DEF Send, counting, ThreadsOfPackets, Busy, TypeOK, OneSender
  <1>4. MainsFrame'
    BY DEF Send, counting, MainsFrame, Busy, TypeOK, OneSender
  <1>5. PacketIsNew'
    BY DEF Send, counting, PacketIsNew, TypeOK, ThreadsOfPackets
  <1>6. AiredOnce'
    BY DEF Send, counting, AiredOnce, Busy, Handed, Unsent, TypeOK, OneSender,
       ThreadsOfPackets, MainsFrame
  <1>7. HandlerKnown'
    BY DEF Send, counting, HandlerKnown, Busy, Handed, TypeOK, OneSender
  <1>8. (hangs = 0 => NeverHung)'
    BY DEF Send, counting, NeverHung, Busy, Handed, TypeOK, OneSender,
       AiredOnce, HandlerKnown
  <1> QED
    BY <1>1, <1>2, <1>3, <1>4, <1>5, <1>6, <1>7, <1>8

\* Standby before the modem was given up means that it is out.
LEMMA SentKeeps ==
    ASSUME IInv, NEW c \in Callers, Sent(c) PROVE IInv'
  <1> USE Names DEF IInv
  <1>1. TypeOK'
    BY DEF Sent, modem, driver, counting, TypeOK, Busy
  <1>2. OneSender'
    BY DEF Sent, modem, driver, counting, OneSender, Busy, TypeOK
  <1>3. ThreadsOfPackets'
    BY DEF Sent, modem, driver, counting, ThreadsOfPackets, Busy, TypeOK,
       OneSender
  <1>4. MainsFrame'
    BY DEF Sent, modem, driver, counting, MainsFrame, Busy, TypeOK, OneSender
  <1>5. PacketIsNew'
    BY DEF Sent, modem, driver, counting, PacketIsNew, TypeOK,
       ThreadsOfPackets
  <1>6. AiredOnce'
    BY DEF Sent, modem, driver, counting, AiredOnce, Busy, Handed, Unsent,
       TypeOK, OneSender, ThreadsOfPackets, MainsFrame
  <1>7. HandlerKnown'
    BY DEF Sent, modem, driver, counting, HandlerKnown, Busy, Handed, TypeOK,
       OneSender
  <1>8. (hangs = 0 => NeverHung)'
    BY DEF Sent, modem, driver, counting, NeverHung, Busy, Handed, TypeOK,
       OneSender, AiredOnce, HandlerKnown
  <1> QED
    BY <1>1, <1>2, <1>3, <1>4, <1>5, <1>6, <1>7, <1>8

\* Who gives up will not say TE_ok.
LEMMA GiveUpKeeps ==
    ASSUME IInv, NEW c \in Callers, GiveUp(c) PROVE IInv'
  <1> USE Names DEF IInv
  <1>1. TypeOK'
    BY DEF GiveUp, modem, driver, counting, TypeOK, Busy
  <1>2. OneSender'
    BY DEF GiveUp, modem, driver, counting, OneSender, Busy, TypeOK
  <1>3. ThreadsOfPackets'
    BY DEF GiveUp, modem, driver, counting, ThreadsOfPackets, Busy, TypeOK,
       OneSender
  <1>4. MainsFrame'
    BY DEF GiveUp, modem, driver, counting, MainsFrame, Busy, TypeOK,
       OneSender
  <1>5. PacketIsNew'
    BY DEF GiveUp, modem, driver, counting, PacketIsNew, TypeOK,
       ThreadsOfPackets
  <1>6. AiredOnce'
    BY DEF GiveUp, modem, driver, counting, AiredOnce, Busy, Handed, Unsent,
       TypeOK, OneSender, ThreadsOfPackets, MainsFrame
  <1>7. HandlerKnown'
    BY DEF GiveUp, modem, driver, counting, HandlerKnown, Busy, Handed,
       TypeOK, OneSender
  <1>8. (hangs = 0 => NeverHung)'
    BY DEF GiveUp, modem, driver, counting, NeverHung, Busy, Handed, TypeOK,
       OneSender, AiredOnce, HandlerKnown
  <1> QED
    BY <1>1, <1>2, <1>3, <1>4, <1>5, <1>6, <1>7, <1>8

\* The answer is given; a handler that still runs is overtaken.
LEMMA ListenKeeps ==
    ASSUME IInv, NEW c \in Callers, Listen(c) PROVE IInv'
  <1> USE Names DEF IInv
  <1>1. TypeOK'
    BY DEF Listen, Commanded, counting, TypeOK, Busy
  <1>2. OneSender'
    BY DEF Listen, Commanded, counting, OneSender, Busy, TypeOK
  <1>3. ThreadsOfPackets'
    BY DEF Listen, Commanded, counting, ThreadsOfPackets, Busy, TypeOK,
       OneSender
  <1>4. MainsFrame'
    BY DEF Listen, Commanded, counting, MainsFrame, Busy, TypeOK, OneSender,
       ThreadsOfPackets
  <1>5. PacketIsNew'
    BY DEF Listen, Commanded, counting, PacketIsNew, TypeOK, ThreadsOfPackets
  <1>6. AiredOnce'
    BY DEF Listen, Commanded, counting, AiredOnce, Busy, Handed, Unsent,
       TypeOK, OneSender, ThreadsOfPackets, MainsFrame
  <1>7. HandlerKnown'
    <2>1. isr' = "rx" /\ lock' = lock /\ pc' = [pc EXCEPT ![c] = "listen"]
      BY DEF Listen
    <2>2. lock = c
      BY DEF Listen, OneSender, Busy
    <2>3. handler' # "idle" => raced'
      BY DEF Listen
    <2>4. QED
      BY <2>1, <2>2, <2>3 DEF HandlerKnown, TypeOK
  <1>8. (hangs = 0 => NeverHung)'
    BY DEF Listen, Commanded, counting, NeverHung, Busy, Handed, TypeOK,
       OneSender, AiredOnce, HandlerKnown
  <1> QED
    BY <1>1, <1>2, <1>3, <1>4, <1>5, <1>6, <1>7, <1>8

\* A modem that did not hang receives again.
LEMMA ReturnKeeps ==
    ASSUME IInv, NEW c \in Callers, Return(c) PROVE IInv'
  <1> USE Names DEF IInv
  <1>1. TypeOK'
    BY DEF Return, Commanded, driver, counting, TypeOK, Busy
  <1>2. OneSender'
    BY DEF Return, Commanded, driver, counting, OneSender, Busy, TypeOK
  <1>3. ThreadsOfPackets'
    BY DEF Return, Commanded, driver, counting, ThreadsOfPackets, Busy,
       TypeOK, OneSender
  <1>4. MainsFrame'
    BY DEF Return, Commanded, driver, counting, MainsFrame, Busy, TypeOK,
       OneSender
  <1>5. PacketIsNew'
    BY DEF Return, Commanded, driver, counting, PacketIsNew, TypeOK,
       ThreadsOfPackets
  <1>6. AiredOnce'
    BY DEF Return, Commanded, driver, counting, AiredOnce, Busy, Handed,
       Unsent, TypeOK, OneSender, ThreadsOfPackets, MainsFrame
  <1>7. HandlerKnown'
    BY DEF Return, Commanded, driver, counting, HandlerKnown, Busy, Handed,
       TypeOK, OneSender
  <1>8. (hangs = 0 => NeverHung)'
    BY DEF Return, Commanded, driver, counting, NeverHung, Busy, Handed,
       TypeOK, OneSender, AiredOnce, HandlerKnown
  <1> QED
    BY <1>1, <1>2, <1>3, <1>4, <1>5, <1>6, <1>7, <1>8

\* Terminating changes nothing by itself.
LEMMA StopKeeps ==
    ASSUME IInv, Stop PROVE IInv'
  <1> USE Names DEF IInv
  <1>1. /\ TypeOK' /\ OneSender' /\ ThreadsOfPackets' /\ MainsFrame'
        /\ PacketIsNew' /\ AiredOnce' /\ HandlerKnown' /\ (hangs = 0 => NeverHung)'
    BY DEF Stop, modem, driver, threads, counting, TypeOK, OneSender,
       ThreadsOfPackets, MainsFrame, PacketIsNew, AiredOnce, HandlerKnown,
       NeverHung, Handed, Unsent
  <1> QED
    BY <1>1

\* After the destructor nobody waits for reception.
LEMMA EndKeeps ==
    ASSUME IInv, End PROVE IInv'
  <1> USE Names DEF IInv
  <1>1. TypeOK'
    BY DEF End, Commanded, threads, counting, TypeOK, Busy
  <1>2. PacketIsNew'
    BY DEF End, Commanded, threads, counting, PacketIsNew, TypeOK,
       ThreadsOfPackets
  <1>3. AiredOnce'
    BY DEF End, Commanded, threads, counting, AiredOnce, Busy, Handed, Unsent,
       TypeOK, OneSender, ThreadsOfPackets, MainsFrame
  <1>4. HandlerKnown'
    BY DEF End, Commanded, threads, counting, HandlerKnown, Busy, Handed,
       TypeOK, OneSender
  <1>5. (hangs = 0 => NeverHung)'
    BY DEF End, Commanded, threads, counting, NeverHung, Busy, Handed, TypeOK,
       OneSender, AiredOnce, HandlerKnown
  <1>6. OneSender' /\ ThreadsOfPackets' /\ MainsFrame'
    BY DEF End, Commanded, threads, counting, OneSender, ThreadsOfPackets,
       MainsFrame
  <1> QED
    BY <1>1, <1>2, <1>3, <1>4, <1>5, <1>6

-----------------------------------------------------------------------------
\* LoRa_begin() and LoRa_receive() establish the invariant.
LEMMA IInvInit == Init => IInv
  <1> SUFFICES ASSUME Init PROVE IInv
    OBVIOUS
  <1> USE Names DEF Init
  <1>1. TypeOK
    BY DEF TypeOK
  <1>2. OneSender /\ ThreadsOfPackets /\ MainsFrame /\ PacketIsNew
    BY DEF OneSender, ThreadsOfPackets, MainsFrame, PacketIsNew, Busy
  <1>3. AiredOnce /\ HandlerKnown /\ NeverHung
    BY DEF AiredOnce, HandlerKnown, NeverHung, Handed, Unsent
  <1>4. QED
    BY <1>1, <1>2, <1>3 DEF IInv

\* Every step of the modem, its handler and the senders keeps it.
LEMMA IInvNext == IInv /\ [Next]_vars => IInv'
  <1> SUFFICES ASSUME IInv, [Next]_vars PROVE IInv'
    OBVIOUS
  <1>1. CASE Receive \/ Transmitted \/ Hang \/ Recover
    BY <1>1, ReceiveKeeps, TransmittedKeeps, HangKeeps, RecoverKeeps
  <1>2. CASE Interrupt
    BY <1>2, RxDoneKeeps, TxDoneKeeps, TxDoneResetKeeps, TxDoneStandbyKeeps
    DEF Interrupt
  <1>3. CASE \E n \in Heard : Thread(n)
    BY <1>3, CountReadKeeps, CountWriteKeeps, QueueKeeps DEF Thread
  <1>4. CASE \E c \in Callers : Put(c)
    BY <1>4, LockKeeps, StopReceiveKeeps, SendKeeps, SentKeeps, GiveUpKeeps,
       ListenKeeps, ReturnKeeps DEF Put
  <1>5. CASE MainPut \/ Stop \/ End
    BY <1>5, MainPutKeeps, StopKeeps, EndKeeps
  <1>6. CASE UNCHANGED vars
    <2>1. UNCHANGED <<mode, irq, fifo, hung, hangs, isr, handler, kind>>
      BY <1>6 DEF vars, modem, driver
    <2>2. UNCHANGED <<tx, lock, pc, frame, answer, ended, aired, raced>>
      BY <1>6 DEF vars, threads
    <2>3. QED
      BY <2>1, <2>2
      DEF IInv, TypeOK, OneSender, ThreadsOfPackets, MainsFrame, PacketIsNew,
          AiredOnce, HandlerKnown, NeverHung, Handed, Unsent
  <1>7. QED
    BY <1>1, <1>2, <1>3, <1>4, <1>5, <1>6 DEF Next

\* So it always holds.
LEMMA IInvHolds == Spec => []IInv
  BY IInvInit, IInvNext, PTL DEF Spec

(***************************************************************************)
(* put_message_low() never sends a frame twice, digipeats only what came   *)
(* in undamaged, and says TE_ok only of what went out in full, for every   *)
(* number of senders and every delay of the interrupt handler.             *)
(***************************************************************************)
THEOREM SentWhenOk == Spec => []OkMeansSent
  <1>1. IInv => OkMeansSent
    <2> SUFFICES ASSUME IInv, NEW f \in Frames
                 PROVE  /\ aired[f] <= 1
                        /\ aired[f] = 1 /\ f \in Heard
                               => Digipeater /\ kind[f] = "good"
                        /\ answer[f] = "TE_ok" /\ hangs = 0 => aired[f] = 1
      BY DEF OkMeansSent
    <2>1. aired[f] <= 1
      BY DEF IInv, TypeOK
    <2>2. aired[f] = 1 /\ f \in Heard => Digipeater /\ kind[f] = "good"
      BY DEF IInv, AiredOnce
    <2>3. answer[f] = "TE_ok" /\ hangs = 0 => aired[f] = 1
      BY DEF IInv, NeverHung
    <2>4. QED
      BY <2>1, <2>2, <2>3
  <1>2. QED
    BY <1>1, IInvHolds, PTL

(***************************************************************************)
(* Unless reception was set up under a running txDoneISRf(), a modem that  *)
(* never hung receives whenever nobody sends.                              *)
(***************************************************************************)
THEOREM DeafOnlyWhenOvertaken == Spec => []DeafOnlyByRace
  <1>1. IInv => DeafOnlyByRace
    BY DEF IInv, NeverHung, DeafOnlyByRace, AtRest
  <1>2. QED
    BY <1>1, IInvHolds, PTL

-----------------------------------------------------------------------------
(* Counting.                                                               *)

Counted == {n \in Heard : pc[n] \notin {"idle", "count", "add"}}

\* Each thread adds one to what it read, which was at most the number of
\* those that were through; exactly that as long as it is alone.
CountInv ==
    /\ IsFiniteSet(Counted)
    /\ count \in Nat /\ reg \in [Heard -> Nat]
    /\ count <= Cardinality(Counted)
    /\ \A n \in Heard : pc[n] = "add" => reg[n] <= Cardinality(Counted)
    /\ ~overlap => /\ count = Cardinality(Counted)
                   /\ \A n \in Heard : pc[n] = "add" =>
                         reg[n] = count /\ \A o \in Heard : pc[o] = "add" => o = n

LEMMA CountInit == Init => CountInv
  <1> SUFFICES ASSUME Init PROVE CountInv
    OBVIOUS
  <1>1. /\ \A n \in Heard : pc[n] = "idle"
        /\ count = 0 /\ reg = [n \in Heard |-> 0]
    BY Names DEF Init
  <1>2. Counted = {}
    BY <1>1 DEF Counted
  <1>3. IsFiniteSet(Counted) /\ Cardinality(Counted) = 0
    BY <1>2, FS_EmptySet
  <1>4. QED
    BY <1>1, <1>3 DEF CountInv

\* Nobody else moves a thread into, out of or past the counting.
LEMMA NotCounting ==
    ASSUME CountInv, UNCHANGED counting,
           \A n \in Heard : \/ pc'[n] = pc[n]
                            \/ {pc[n], pc'[n]} \cap {"idle", "count", "add"} = {}
                            \/ pc[n] = "idle" /\ pc'[n] = "count"
    PROVE  CountInv'
  <1>1. Counted' = Counted
    BY DEF Counted
  <1>2. \A n \in Heard : pc'[n] = "add" <=> pc[n] = "add"
    OBVIOUS
  <1>3. count' = count /\ reg' = reg /\ overlap' = overlap
    BY DEF counting
  <1>4. QED
    BY <1>1, <1>2, <1>3 DEF CountInv

LEMMA CountReadCounts ==
    ASSUME IInv, CountInv, NEW n \in Heard, CountRead(n) PROVE CountInv'
  <1>1. /\ pc[n] = "count" /\ pc' = [pc EXCEPT ![n] = "add"]
        /\ reg' = [reg EXCEPT ![n] = count] /\ count' = count
        /\ overlap' = (overlap \/ \E o \in Heard : pc[o] = "add")
        /\ n \in Callers /\ pc = [c \in Callers |-> pc[c]]
        /\ Heard \subseteq Callers
    BY Names DEF CountRead, IInv, TypeOK
  <1>2. Counted' = Counted
    BY <1>1 DEF Counted
  <1>3. \A o \in Heard : pc'[o] = "add" <=> o = n \/ pc[o] = "add"
    BY <1>1
  <1>4. /\ reg' \in [Heard -> Nat] /\ reg'[n] = count
        /\ \A o \in Heard : o # n => reg'[o] = reg[o]
    BY <1>1 DEF CountInv
  <1>5. QED
    BY <1>1, <1>2, <1>3, <1>4 DEF CountInv

LEMMA CountWriteCounts ==
    ASSUME IInv, CountInv, NEW n \in Heard, CountWrite(n) PROVE CountInv'
  <1>1. /\ pc[n] = "add" /\ pc'[n] \in {"done", "queue"}
        /\ \A o \in Heard : o # n => pc'[o] = pc[o]
        /\ reg' = reg /\ count' = reg[n] + 1 /\ overlap' = overlap
    BY Names DEF CountWrite, IInv, TypeOK
  <1>2. Counted' = Counted \cup {n} /\ n \notin Counted
    BY <1>1 DEF Counted
  <1>3. /\ IsFiniteSet(Counted') /\ Cardinality(Counted) \in Nat
        /\ Cardinality(Counted') = Cardinality(Counted) + 1
    BY <1>2, FS_AddElement, FS_CardinalityType DEF CountInv
  <1>4. /\ reg[n] \in Nat /\ reg[n] <= Cardinality(Counted)
        /\ ~overlap => /\ reg[n] = Cardinality(Counted)
                       /\ \A o \in Heard : pc'[o] # "add"
    BY <1>1 DEF CountInv
  <1>5. \A o \in Heard : pc'[o] = "add" => pc[o] = "add"
    BY <1>1
  <1>6. \A o \in Heard : pc'[o] = "add" => reg'[o] <= Cardinality(Counted')
    <2> SUFFICES ASSUME NEW o \in Heard, pc[o] = "add"
                 PROVE  reg[o] <= Cardinality(Counted')
      BY <1>1, <1>5
    <2>1. reg[o] \in Nat /\ reg[o] <= Cardinality(Counted)
      BY DEF CountInv
    <2>2. QED
      BY <1>3, <2>1
  <1>7. count' \in Nat /\ count' <= Cardinality(Counted')
    BY <1>1, <1>3, <1>4
  <1>8. ~overlap' => /\ count' = Cardinality(Counted')
                     /\ \A o \in Heard : pc'[o] # "add"
    BY <1>1, <1>3, <1>4
  <1>9. reg' \in [Heard -> Nat]
    BY <1>1 DEF CountInv
  <1>10. QED
    BY <1>3, <1>6, <1>7, <1>8, <1>9 DEF CountInv

LEMMA CountNext == IInv /\ CountInv /\ [Next]_vars => CountInv'
  <1> SUFFICES ASSUME IInv, CountInv, [Next]_vars PROVE CountInv'
    OBVIOUS
  <1> USE Names
  <1>0. pc = [c \in Callers |-> pc[c]] /\ Heard \subseteq Callers
    BY DEF IInv, TypeOK
  <1>1. CASE Receive \/ Transmitted \/ Hang \/ Recover \/ TxDone \/ TxDoneReset
             \/ TxDoneStandby \/ Stop \/ End \/ UNCHANGED vars
    <2>1. UNCHANGED counting /\ pc' = pc
      BY <1>1 DEF Receive, Transmitted, Hang, Recover, TxDone, TxDoneReset,
                  TxDoneStandby, Stop, End, vars, threads, counting
    <2>2. QED
      BY <2>1, NotCounting
  <1>2. CASE RxDone
    <2>1. /\ UNCHANGED counting /\ pc[fifo] = "idle"
          /\ pc' \in {pc, [pc EXCEPT ![fifo] = "count"]}
      BY <1>2 DEF RxDone, IInv, PacketIsNew
    <2>2. QED
      BY <1>0, <2>1, NotCounting
  <1>3. ASSUME NEW n \in Heard, Queue(n) PROVE CountInv'
    <2>1. /\ UNCHANGED counting /\ pc[n] = "queue"
          /\ pc' \in {[pc EXCEPT ![n] = "put"], [pc EXCEPT ![n] = "done"]}
      BY <1>3 DEF Queue
    <2>2. QED
      BY <1>0, <2>1, NotCounting
  <1>4. CASE MainPut
    <2>1. UNCHANGED counting /\ pc' \in {pc, [pc EXCEPT !["main"] = "put"]}
      BY <1>4 DEF MainPut
    <2>2. QED
      BY <1>0, <2>1, NotCounting
  <1>5. ASSUME NEW c \in Callers, Put(c) PROVE CountInv'
    <2>1. /\ UNCHANGED counting /\ pc[c] \in Busy \cup {"put"}
          /\ pc' \in {[pc EXCEPT ![c] = x] : x \in Busy \cup {"done"}}
      BY <1>5 DEF Put, Lock, StopReceive, Send, Sent, GiveUp, Listen, Return,
                  Busy
    <2>2. QED
      BY <1>0, <2>1, NotCounting DEF Busy
  <1>6. QED
    BY <1>1, <1>2, <1>3, <1>4, <1>5, CountReadCounts, CountWriteCounts
    DEF Next, Interrupt, Thread

(***************************************************************************)
(* The packet counters never show more than what came in, and exactly that *)
(* as long as no two threads count at the same time, for any number of     *)
(* packets and threads.                                                    *)
(***************************************************************************)
THEOREM CountsAlwaysExactAlone == Spec => []CountsExactAlone
  <1>1. CountInv => CountsExactAlone
    BY DEF CountInv, Counted, CountsExactAlone
  <1>2. Spec => []CountInv
    BY CountInit, CountNext, IInvInit, IInvNext, PTL DEF Spec
  <1>3. QED
    BY <1>1, <1>2, PTL
=============================================================================

-------------------------------- MODULE Lora ---------------------------------
(***************************************************************************)
(* tranceiver-lora-sx1278.cpp and LoRa.c, built with HAS_GPIO: a half      *)
(* duplex modem shared by main, which sends, the interrupt handler, and a  *)
(* detached thread per packet received, which sends too when it            *)
(* digipeats.  put_message_low() has a lock; the handler and the modem     *)
(* itself do not care about it.                                            *)
(*                                                                         *)
(* The modem's registers that matter are its mode, its interrupt flags and *)
(* its FIFO.  pigpio calls the handler at an edge of DIO0 and also every   *)
(* 100 ms, so a flag that is set is looked at for as long as a handler is  *)
(* installed; there is one handler thread, installing another function     *)
(* does not wait for it, removing the function does.                       *)
(***************************************************************************)
EXTENDS Integers, FiniteSets

CONSTANTS
    MainFrames,     \* what main wants to send, each once
    TooLong,        \* those of them with more than 255 bytes
    Heard,          \* the frames that may come in, each once
    Digipeater,     \* the setting
    MaxHangs        \* bound on the times the modem hangs

ASSUME LoraAssumption ==
    /\ TooLong \subseteq MainFrames
    /\ MaxHangs \in Nat
    /\ MainFrames \cap Heard = {}
    /\ {"main", "free", "nothing"} \cap (MainFrames \cup Heard) = {}
    /\ Digipeater \in BOOLEAN

Frames == MainFrames \cup Heard
Callers == {"main"} \cup Heard  \* main and rx_f() of each frame

VARIABLES
    mode,       \* REG_OP_MODE: "STDBY", "TX", "RXCONT"
    irq,        \* REG_IRQ_FLAGS
    fifo,       \* the frame in the modem
    hung,       \* the modem does not come to an end and ignores commands
    hangs,      \* how often that happened
    isr,        \* the function installed for DIO0: "none", "rx", "tx"
    handler,    \* its thread: "idle", or where it is in txDoneISRf()
    kind,       \* of a frame that came in: "good", "crc", "empty"
    tx,         \* modem.tx
    lock,       \* who holds the lock, or "free"
    pc, frame,  \* of each caller: where it is, with which frame
    count,      \* valid_pkts and invalid_pkts together
    reg,        \* the value a thread read of it
    answer,     \* what put_message() returned for a frame
    stopping,   \* tranceiver::terminate
    ended,      \* LoRa_end() was called by the destructor
    aired,      \* observer: how often a frame went out in full
    raced,      \* observer: reception was set up under a running txDoneISRf()
    overlap     \* observer: two threads counted at the same time

modem == <<mode, irq, fifo, hung, hangs>>
driver == <<isr, handler>>
threads == <<tx, lock, pc, frame, answer>>
counting == <<count, reg, overlap>>
vars == <<modem, driver, kind, threads, counting, stopping, ended,
          aired, raced>>

-----------------------------------------------------------------------------
\* lora_set_*_mode(): a modem that hangs does not react.
Commanded(m) == IF hung THEN mode ELSE m

Init ==
    /\ mode = "RXCONT" /\ irq = {} /\ fifo = "nothing"  \* LoRa_begin, LoRa_receive
    /\ hung = FALSE /\ hangs = 0
    /\ isr = "rx" /\ handler = "idle"
    /\ kind = [n \in Heard |-> "none"]
    /\ tx = "nothing" /\ lock = "free"
    /\ pc = [c \in Callers |-> "idle"]
    /\ frame = [c \in Callers |-> "nothing"]
    /\ count = 0 /\ reg = [n \in Heard |-> 0] /\ overlap = FALSE
    /\ answer = [f \in Frames |-> "none"]
    /\ stopping = FALSE /\ ended = FALSE
    /\ aired = [f \in Frames |-> 0]
    /\ raced = FALSE

-----------------------------------------------------------------------------
(* The modem. *)

\* A packet comes in; one that was not fetched is overwritten.
Receive ==
    /\ mode = "RXCONT" /\ ~ended
    /\ \E n \in Heard, k \in {"good", "crc", "empty"} :
          /\ kind[n] = "none"
          /\ kind' = [kind EXCEPT ![n] = k]
          /\ fifo' = n
    /\ irq' = irq \cup {"RXDONE"}
    /\ UNCHANGED <<mode, hung, hangs, driver, threads, counting, stopping,
                   ended, aired, raced>>

\* The packet is out; the modem goes to standby by itself.
Transmitted ==
    /\ mode = "TX" /\ ~hung
    /\ mode' = "STDBY"
    /\ irq' = irq \cup {"TXDONE"}
    /\ aired' = [aired EXCEPT ![fifo] = @ + 1]
    /\ UNCHANGED <<fifo, hung, hangs, driver, kind, threads, counting,
                   stopping, ended, raced>>

Hang ==
    /\ mode = "TX" /\ ~hung /\ hangs < MaxHangs
    /\ hung' = TRUE /\ hangs' = hangs + 1
    /\ UNCHANGED <<mode, irq, fifo, driver, kind, threads, counting,
                   stopping, ended, aired, raced>>

Recover ==
    /\ hung
    /\ hung' = FALSE
    /\ UNCHANGED <<mode, irq, fifo, hangs, driver, kind, threads,
                   counting, stopping, ended, aired, raced>>

-----------------------------------------------------------------------------
(* The interrupt handler. *)

\* rxDoneISRf(): a packet with content gets a thread of its own.
RxDone ==
    /\ isr = "rx" /\ handler = "idle" /\ "RXDONE" \in irq
    /\ irq' = {}
    /\ pc' = IF kind[fifo] = "empty" THEN pc ELSE [pc EXCEPT ![fifo] = "count"]
    /\ frame' = [frame EXCEPT ![fifo] = fifo]
    /\ UNCHANGED <<mode, fifo, hung, hangs, driver, kind, tx, lock,
                   answer, counting, stopping, ended, aired, raced>>

\* txDoneISRf() sees the flag,
TxDone ==
    /\ isr = "tx" /\ handler = "idle" /\ "TXDONE" \in irq
    /\ handler' = "seen"
    /\ UNCHANGED <<modem, isr, kind, threads, counting, stopping, ended,
                   aired, raced>>

\* resets the flags
TxDoneReset ==
    /\ handler = "seen"
    /\ handler' = "reset"
    /\ irq' = {}
    /\ UNCHANGED <<mode, fifo, hung, hangs, isr, kind, threads, counting,
                   stopping, ended, aired, raced>>

\* and puts the modem in standby, where it has been already.
TxDoneStandby ==
    /\ handler = "reset"
    /\ handler' = "idle"
    /\ mode' = Commanded("STDBY")
    /\ UNCHANGED <<irq, fifo, hung, hangs, isr, kind, threads, counting,
                   stopping, ended, aired, raced>>

-----------------------------------------------------------------------------
(* rx_f(): the thread of packet n. *)

\* (*p)++ reads
CountRead(n) ==
    /\ pc[n] = "count" /\ ~ended
    /\ reg' = [reg EXCEPT ![n] = count]
    /\ overlap' = (overlap \/ \E o \in Heard : pc[o] = "add")
    /\ pc' = [pc EXCEPT ![n] = "add"]
    /\ UNCHANGED <<modem, driver, kind, tx, lock, frame, answer, count,
                   stopping, ended, aired, raced>>

(* Deliberately wrong variants, used to show that the properties bite. *)
CountWrite_NoReturn(n) ==
    /\ pc[n] = "add" /\ ~ended
    /\ count' = reg[n] + (IF kind[n] = "crc" THEN 2 ELSE 1)
    /\ pc' = [pc EXCEPT ![n] = "queue"]
    /\ UNCHANGED <<modem, driver, kind, tx, lock, frame, answer, reg, overlap,
                   stopping, ended, aired, raced>>

\* and writes.  What is wrong with the packet decides whether it ends here.
CountWrite(n) ==
    /\ pc[n] = "add" /\ ~ended
    /\ count' = reg[n] + 1
    /\ pc' = [pc EXCEPT ![n] = IF kind[n] = "crc" THEN "done" ELSE "queue"]
    /\ UNCHANGED <<modem, driver, kind, tx, lock, frame, answer, reg,
                   overlap, stopping, ended, aired, raced>>

\* queue_incoming_message(), whatever it says, and digipeating.
Queue(n) ==
    /\ pc[n] = "queue" /\ ~ended
    /\ pc' = [pc EXCEPT ![n] = IF Digipeater THEN "put" ELSE "done"]
    /\ UNCHANGED <<modem, driver, kind, tx, lock, frame, answer,
                   counting, stopping, ended, aired, raced>>

-----------------------------------------------------------------------------
(* put_message_low(), of main or of rx_f(). *)

\* Main's loop puts a message, until it has ended.
MainPut ==
    /\ pc["main"] \in {"idle", "done"} /\ ~stopping
    /\ \E f \in {g \in MainFrames : answer[g] = "none"} :
          IF f \in TooLong
          THEN /\ answer' = [answer EXCEPT ![f] = "TE_hardware"]
               /\ UNCHANGED <<pc, frame>>
          ELSE /\ frame' = [frame EXCEPT !["main"] = f]
               /\ pc' = [pc EXCEPT !["main"] = "put"]
               /\ UNCHANGED answer
    /\ UNCHANGED <<modem, driver, kind, tx, lock, counting, stopping,
                   ended, aired, raced>>

\* The lock, and the copy to modem.tx.
Lock(c) ==
    /\ pc[c] = "put" /\ lock = "free" /\ ~ended
    /\ lock' = c
    /\ tx' = frame[c]
    /\ pc' = [pc EXCEPT ![c] = "stop"]
    /\ UNCHANGED <<modem, driver, kind, frame, answer, counting,
                   stopping, ended, aired, raced>>

(* Deliberately wrong variants, used to show that the properties bite. *)
StopReceive_KeepsHandler(c) ==
    /\ pc[c] = "stop" /\ ~ended
    /\ mode' = Commanded("STDBY")
    /\ pc' = [pc EXCEPT ![c] = "ready"]
    /\ UNCHANGED <<irq, fifo, hung, hangs, driver, kind, tx, lock, frame,
                   answer, counting, stopping, ended, aired, raced>>

\* LoRa_stop_receive()
StopReceive(c) ==
    /\ pc[c] = "stop" /\ handler = "idle" /\ ~ended
    /\ isr' = "none"
    /\ mode' = Commanded("STDBY")
    /\ pc' = [pc EXCEPT ![c] = "ready"]
    /\ UNCHANGED <<irq, fifo, hung, hangs, handler, kind, tx, lock, frame,
                   answer, counting, stopping, ended, aired, raced>>

\* The first loop ends well: LoRa_send().  The flags are left as they are.
Send(c) ==
    /\ pc[c] = "ready" /\ mode = "STDBY" /\ ~ended
    /\ fifo' = tx
    /\ isr' = "tx"
    /\ mode' = "TX"
    /\ pc' = [pc EXCEPT ![c] = "sending"]
    /\ UNCHANGED <<irq, hung, hangs, handler, kind, tx, lock, frame,
                   answer, counting, stopping, ended, aired, raced>>

\* The second loop ends well.
Sent(c) ==
    /\ pc[c] = "sending" /\ mode = "STDBY" /\ ~ended
    /\ pc' = [pc EXCEPT ![c] = "ok"]
    /\ UNCHANGED <<modem, driver, kind, tx, lock, frame, answer,
                   counting, stopping, ended, aired, raced>>

(* Deliberately wrong variants. *)
GiveUp_Never(c) == FALSE /\ UNCHANGED vars

\* Either loop ends after its 60 seconds or because of terminate.
GiveUp(c) ==
    /\ pc[c] \in {"ready", "sending"} /\ mode # "STDBY" /\ ~ended
    /\ hung \/ stopping
    /\ pc' = [pc EXCEPT ![c] = "failed"]
    /\ UNCHANGED <<modem, driver, kind, tx, lock, frame, answer,
                   counting, stopping, ended, aired, raced>>

\* LoRa_receive(): standby, flags reset, handler installed,
Listen(c) ==
    /\ pc[c] \in {"ok", "failed"} /\ ~ended
    /\ mode' = Commanded("STDBY")
    /\ irq' = {}
    /\ isr' = "rx"
    /\ raced' = (raced \/ handler # "idle")
    /\ answer' = [answer EXCEPT ![frame[c]] = IF pc[c] = "ok" THEN "TE_ok"
                                                              ELSE "TE_hardware"]
    /\ pc' = [pc EXCEPT ![c] = "listen"]
    /\ UNCHANGED <<fifo, hung, hangs, handler, kind, tx, lock, frame,
                   counting, stopping, ended, aired>>

(* Deliberately wrong variants. *)
Return_Deaf(c) ==
    /\ pc[c] = "listen" /\ ~ended
    /\ lock' = "free"
    /\ pc' = [pc EXCEPT ![c] = "done"]
    /\ UNCHANGED <<modem, driver, kind, tx, frame, answer, counting,
                   stopping, ended, aired, raced>>

\* and continuous reception; the lock is released, the call returns.
Return(c) ==
    /\ pc[c] = "listen" /\ ~ended
    /\ mode' = Commanded("RXCONT")
    /\ lock' = "free"
    /\ pc' = [pc EXCEPT ![c] = "done"]
    /\ UNCHANGED <<irq, fifo, hung, hangs, driver, kind, tx, frame,
                   answer, counting, stopping, ended, aired, raced>>

-----------------------------------------------------------------------------
\* tranceiver::stop(), after main's loop; nobody waits for rx_f().
Stop ==
    /\ ~stopping /\ pc["main"] \in {"idle", "done"}
    /\ stopping' = TRUE
    /\ UNCHANGED <<modem, driver, kind, threads, counting, ended, aired,
                   raced>>

\* The destructor.  A thread that is left uses memory that was freed: it is
\* not followed any further.
End ==
    /\ stopping /\ ~ended /\ handler = "idle"
    /\ isr' = "none"
    /\ mode' = Commanded("STDBY")
    /\ ended' = TRUE
    /\ UNCHANGED <<irq, fifo, hung, hangs, handler, kind, threads,
                   counting, stopping, aired, raced>>

Put(c) == \/ Lock(c) \/ StopReceive(c) \/ Send(c) \/ Sent(c) \/ GiveUp(c)
          \/ Listen(c) \/ Return(c)

Thread(n) == CountRead(n) \/ CountWrite(n) \/ Queue(n)

Interrupt == RxDone \/ TxDone \/ TxDoneReset \/ TxDoneStandby

Next ==
    \/ Receive \/ Transmitted \/ Hang \/ Recover
    \/ Interrupt
    \/ \E n \in Heard : Thread(n)
    \/ MainPut
    \/ \E c \in Callers : Put(c)
    \/ Stop \/ End

Spec ==
    /\ Init /\ [][Next]_vars
    /\ WF_vars(Transmitted) /\ WF_vars(Interrupt)
    /\ \A n \in Heard : WF_vars(Thread(n))
    /\ \A c \in Callers : WF_vars(Put(c))

-----------------------------------------------------------------------------
(***************************************************************************)
(* No frame goes out twice, none that came in damaged goes out at all, and *)
(* TE_ok means that the frame went out in full, however the handler is     *)
(* delayed and whoever else wants to send, unless the modem hung before    *)
(* (LoRa_send() does not reset the flags of a packet that came to its end  *)
(* after its sender had given up).                                         *)
(* (tranceiver-lora-sx1278.cpp:79-113, LoRa.c:158-180, 261-271)            *)
(***************************************************************************)
OkMeansSent ==
    \A f \in Frames :
        /\ aired[f] <= 1
        /\ aired[f] = 1 /\ f \in Heard => Digipeater /\ kind[f] = "good"
        /\ answer[f] = "TE_ok" /\ hangs = 0 => aired[f] = 1

AtRest == lock = "free" /\ handler = "idle" /\ ~ended

(***************************************************************************)
(* LoRa.h:198 says of LoRa_receive() "Continuous mode. You have to         *)
(* manually stop receiving if you want to."  It is not so: a put that sees *)
(* the standby mode before the handler is through sets up reception, which *)
(* the handler then ends; the modem is deaf until something is sent.       *)
(* (LoRa.c:261-271, tranceiver-lora-sx1278.cpp:98-108)                     *)
(***************************************************************************)
ReceivesUntilStopped == AtRest => mode = "RXCONT"

(***************************************************************************)
(* That, and a modem that hangs, are the only ways to leave it deaf: every *)
(* other put, failed or not, ends with the modem receiving again.          *)
(* (LoRa.c:182-198, tranceiver-lora-sx1278.cpp:85-108)                     *)
(***************************************************************************)
DeafOnlyByRace == AtRest /\ ~raced /\ hangs = 0 => mode = "RXCONT"

(***************************************************************************)
(* The packet counters are exact as long as no two threads count at once;  *)
(* stats_inc_counter() is not atomic, and nothing waits for a thread.      *)
(* (stats.cpp:20-32, tranceiver-lora-sx1278.cpp:24-32, LoRa.c:248-257)     *)
(***************************************************************************)
CountsExactAlone ==
    LET counted == Cardinality({n \in Heard : pc[n] \notin {"idle", "count", "add"}})
    IN  /\ count <= counted
        /\ ~overlap => count = counted

(***************************************************************************)
(* Nobody waits for the modem for ever: each put comes to its end, with    *)
(* other senders waiting for the lock too and with a modem that hangs.     *)
(* (tranceiver-lora-sx1278.cpp:79, 90-102)                                 *)
(***************************************************************************)
PutReturns == \A c \in Callers : pc[c] = "put" ~> pc[c] = "done" \/ ended
=============================================================================

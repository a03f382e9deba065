----------------------------- MODULE VirtioNet ------------------------------
(***************************************************************************)
(* The virtio-net device of caiman-vmm (virtio/net.rs, virtio/tap.rs): two *)
(* virtqueues, the interrupt registers served on vCPU threads and the      *)
(* dataplane thread, which polls: it drains the transmit queue into the    *)
(* TAP, then moves at most one frame from the TAP to the receive queue.    *)
(*                                                                         *)
(* The rings of queue.rs are the subject of VirtioBlk; here a ring is the  *)
(* sequence of the heads in it: avail[q] holds what the driver published   *)
(* and next_avail has not taken, used[q] what add_used returned and the    *)
(* driver has not collected.                                               *)
(*                                                                         *)
(* The NetState mutex is held by the dataplane at dp \in Locked.  An MMIO  *)
(* access is one critical section, hence one step; the guest reads and     *)
(* writes the rings without the mutex.                                     *)
(***************************************************************************)
EXTENDS Naturals, Sequences, SequencesExt

CONSTANTS
  RxHeads, TxHeads,   \* descriptor chains of the two queues
  Layout,             \* [RxHeads -> how the driver lays out a receive chain]
  TxKinds,            \* the frames the driver sends
  MaxFrames,          \* bound: frames that reach the TAP from the host
  NoHead,             \* the dataplane holds no chain
  MaxSends            \* bound: frames the driver sends

\* What the code tells apart.  A receive chain's first device-writable
\* descriptor holds header and frame, or the header and only a part of the
\* frame, or there is none of 12 bytes.  A transmit chain is copied whole, or a
\* descriptor that exceeds tx_buf is left out, or no more than the header is left.
LayoutType == {"roomy", "small", "unusable"}
KindType == {"whole", "cut", "nothing"}

Heads == RxHeads \cup TxHeads


ASSUME NetAssumption ==
  /\ RxHeads \cap TxHeads = {}
  /\ NoHead \notin Heads
  /\ Layout \in [RxHeads -> LayoutType]
  /\ TxKinds \subseteq KindType
  /\ MaxFrames \in Nat /\ MaxSends \in Nat

VARIABLES
  avail, used,        \* the rings, [{"rx", "tx"} -> sequence of heads]
  buffer,             \* [Heads -> what a chain holds], see Buffer
  irq_status, irqfd,  \* the register and the pending interrupt
  dp, head, frame,    \* dataplane_loop: program point, chain in hand, rx_buf
  tapIn, tapOut,      \* frames waiting in the TAP; frames written to it
  arrived,            \* how many frames have reached the TAP
  isr,                \* the driver's interrupt handler
  free,               \* chains the driver may post, [{"rx", "tx"} -> set of heads]
  stopped,            \* the driver found no free chain and stopped its send queue
  posted,             \* how many frames the driver has posted
  received            \* frames the driver has taken from the receive queue

vars == <<avail, used, buffer, irq_status, irqfd, dp, head, frame, tapIn, tapOut, arrived,
          isr, free, stopped, posted, received>>
driver == <<isr, free, stopped, posted, received>>
tap == <<tapIn, tapOut, arrived>>

\* message is the number of the frame in a chain and whole whether all of it is
\* there; for a transmit chain kind is what read_chain will make of it.
Buffer == [kind: KindType, message: Nat, whole: BOOLEAN]
NoFrame == [kind |-> "nothing", message |-> 0, whole |-> FALSE]

Points == {"dead", "top", "txNext", "txUsed", "recv", "rxLock", "rxUsed", "rxStatus",
           "rxIrq"}
Locked == {"txNext", "txUsed", "rxUsed", "rxStatus"}
MutexFree == dp \notin Locked

\* start_dataplane: when Tap::new or up fails, the thread ends with a warning.
Init ==
  /\ avail = [q \in {"rx", "tx"} |-> <<>>] /\ used = avail
  /\ buffer = [h \in Heads |-> NoFrame]
  /\ irq_status = 0 /\ irqfd = FALSE
  /\ dp \in {"top", "dead"} /\ head = NoHead /\ frame = 0
  /\ tapIn = <<>> /\ tapOut = <<>> /\ arrived = 0
  /\ isr = "idle" /\ stopped = FALSE /\ posted = 0 /\ received = <<>>
  /\ free = [q \in {"rx", "tx"} |-> IF q = "rx" THEN RxHeads ELSE TxHeads]

-----------------------------------------------------------------------------
(***************************************************************************)
(* The guest driver and the host's side of the TAP (external).             *)
(***************************************************************************)

FrameArrives ==
  /\ arrived < MaxFrames
  /\ arrived' = arrived + 1
  /\ tapIn' = Append(tapIn, arrived')
  /\ UNCHANGED <<avail, used, buffer, irq_status, irqfd, dp, head, frame, tapOut, driver>>

PostRx(h) ==
  /\ h \in free["rx"]
  /\ free' = [free EXCEPT !["rx"] = @ \ {h}]
  /\ buffer' = [buffer EXCEPT ![h] = NoFrame]
  /\ avail' = [avail EXCEPT !["rx"] = Append(@, h)]
  /\ UNCHANGED <<used, irq_status, irqfd, dp, head, frame, tap, isr, stopped, posted, received>>

\* Sending first takes back the chains the device has returned, with or without
\* an interrupt, and stops the queue when no chain is left for the next frame.
Xmit(h, kind) ==
  LET reclaimed == free["tx"] \cup ToSet(used["tx"]) IN
  /\ ~stopped
  /\ posted < MaxSends
  /\ h \in reclaimed
  /\ posted' = posted + 1
  /\ free' = [free EXCEPT !["tx"] = reclaimed \ {h}]
  /\ stopped' = (free'["tx"] = {})
  /\ buffer' = [buffer EXCEPT ![h] = [kind |-> kind, message |-> posted', whole |-> TRUE]]
  /\ avail' = [avail EXCEPT !["tx"] = Append(@, h)]
  /\ used' = [used EXCEPT !["tx"] = <<>>]
  /\ UNCHANGED <<irq_status, irqfd, dp, head, frame, tap, isr, received>>

IsrStart ==
  /\ isr = "idle" /\ irqfd
  /\ irqfd' = FALSE
  /\ isr' = "read"
  /\ UNCHANGED <<avail, used, buffer, irq_status, dp, head, frame, tap, free, stopped, posted,
                 received>>

\* REG_IRQ_STATUS; the handler does nothing when no bit is set.
IsrRead ==
  /\ isr = "read" /\ MutexFree
  /\ isr' = IF irq_status = 0 THEN "idle" ELSE "ack"
  /\ UNCHANGED <<avail, used, buffer, irq_status, irqfd, dp, head, frame, tap, free, stopped,
                 posted, received>>

\* REG_IRQ_ACK
IsrAck ==
  /\ isr = "ack" /\ MutexFree
  /\ irq_status' = 0
  /\ isr' = "collect"
  /\ UNCHANGED <<avail, used, buffer, irqfd, dp, head, frame, tap, free, stopped, posted,
                 received>>

\* The handler looks at both queues until it finds them empty.
CollectRx ==
  /\ isr = "collect" /\ used["rx"] # <<>>
  /\ LET h == Head(used["rx"]) IN
       /\ used' = [used EXCEPT !["rx"] = Tail(@)]
       /\ free' = [free EXCEPT !["rx"] = @ \cup {h}]
       /\ received' = Append(received, [message |-> buffer[h].message, whole |-> buffer[h].whole])
  /\ UNCHANGED <<avail, buffer, irq_status, irqfd, dp, head, frame, tap, isr, stopped, posted>>

CollectTx ==
  /\ isr = "collect" /\ used["tx"] # <<>>
  /\ free' = [free EXCEPT !["tx"] = @ \cup ToSet(used["tx"])]
  /\ used' = [used EXCEPT !["tx"] = <<>>]
  /\ stopped' = FALSE
  /\ UNCHANGED <<avail, buffer, irq_status, irqfd, dp, head, frame, tap, isr, posted, received>>

IsrDone ==
  /\ isr = "collect" /\ used["rx"] = <<>> /\ used["tx"] = <<>>
  /\ isr' = "idle"
  /\ UNCHANGED <<avail, used, buffer, irq_status, irqfd, dp, head, frame, tap, free, stopped,
                 posted, received>>

-----------------------------------------------------------------------------
(***************************************************************************)
(* dataplane_loop                                                          *)
(***************************************************************************)

\* Mutant: next_avail reads the newest entry of the ring instead of the oldest.
TxTakeNewest ==
  /\ dp \in {"top", "txNext"} /\ avail["tx"] # <<>>
  /\ head' = Last(avail["tx"])
  /\ avail' = [avail EXCEPT !["tx"] = Front(@)]
  /\ dp' = "txUsed"
  /\ tapOut' = Append(tapOut, [message |-> buffer[head'].message, whole |-> TRUE])
  /\ UNCHANGED <<used, buffer, irq_status, irqfd, frame, tapIn, arrived, driver>>

\* At "top" the thread takes the mutex, at "txNext" it has it: next_avail,
\* read_chain and the copy into tx_buf; what is longer than the
\* header goes to the TAP, and the result of send is ignored.
TxTake ==
  /\ dp \in {"top", "txNext"} /\ avail["tx"] # <<>>
  /\ head' = Head(avail["tx"])
  /\ avail' = [avail EXCEPT !["tx"] = Tail(@)]
  /\ dp' = "txUsed"
  /\ \/ /\ buffer[head'].kind # "nothing"
        /\ tapOut' = Append(tapOut, [message |-> buffer[head'].message,
                                     whole |-> buffer[head'].kind = "whole"])
     \/ UNCHANGED tapOut
  /\ UNCHANGED <<used, buffer, irq_status, irqfd, frame, tapIn, arrived, driver>>

\* add_used, with neither irq_status nor irqfd
TxUsed ==
  /\ dp = "txUsed"
  /\ used' = [used EXCEPT !["tx"] = Append(@, head)]
  /\ head' = NoHead
  /\ dp' = "txNext"
  /\ UNCHANGED <<avail, buffer, irq_status, irqfd, frame, tap, driver>>

TxEmpty ==
  /\ dp \in {"top", "txNext"} /\ avail["tx"] = <<>>
  /\ dp' = "recv"
  /\ UNCHANGED <<avail, used, buffer, irq_status, irqfd, head, frame, tap, driver>>

\* tap.recv takes a frame, or the thread sleeps and starts again.
Recv ==
  /\ dp = "recv" /\ tapIn # <<>>
  /\ frame' = Head(tapIn)
  /\ tapIn' = Tail(tapIn)
  /\ dp' = "rxLock"
  /\ UNCHANGED <<avail, used, buffer, irq_status, irqfd, head, tapOut, arrived, driver>>

\* Mutant: the TAP is left in blocking mode, so recv waits for a frame.
RecvBlocks == FALSE

RecvNothing ==
  /\ dp = "recv" /\ tapIn = <<>>
  /\ dp' = "top"
  /\ UNCHANGED <<avail, used, buffer, irq_status, irqfd, head, frame, tap, driver>>

\* Mutant: a frame without a buffer is kept for another try.
RxNoBufferRequeues ==
  /\ dp = "rxLock" /\ avail["rx"] = <<>>
  /\ dp' = "top" /\ frame' = 0
  /\ tapIn' = Append(tapIn, frame)
  /\ UNCHANGED <<avail, used, buffer, irq_status, irqfd, head, tapOut, arrived, driver>>

\* The guest has posted no buffer: the frame is dropped.
RxNoBuffer ==
  /\ dp = "rxLock" /\ avail["rx"] = <<>>
  /\ dp' = "top" /\ frame' = 0
  /\ UNCHANGED <<avail, used, buffer, irq_status, irqfd, head, tap, driver>>

\* Mutant: next_avail does not advance last_avail_idx.
RxTakeStays ==
  /\ dp = "rxLock" /\ avail["rx"] # <<>>
  /\ dp' = "rxUsed" /\ head' = Head(avail["rx"])
  /\ buffer' = [buffer EXCEPT ![head'].message = frame, ![head'].whole = TRUE]
  /\ UNCHANGED <<avail, used, irq_status, irqfd, frame, tap, driver>>

\* next_avail and read_chain; header and frame go to the first descriptor the
\* device may write.  If that one is shorter than the header, the frame is dropped
\* and the chain is kept for ever.
RxTake ==
  /\ dp = "rxLock" /\ avail["rx"] # <<>>
  /\ avail' = [avail EXCEPT !["rx"] = Tail(@)]
  /\ LET h == Head(avail["rx"]) IN
       IF Layout[h] = "unusable"
       THEN dp' = "top" /\ frame' = 0 /\ UNCHANGED <<buffer, head>>
       ELSE /\ dp' = "rxUsed" /\ head' = h
            /\ buffer' = [buffer EXCEPT ![h].message = frame,
                                        ![h].whole = (Layout[h] = "roomy")]
            /\ UNCHANGED frame
  /\ UNCHANGED <<used, irq_status, irqfd, tap, driver>>

RxUsed ==
  /\ dp = "rxUsed"
  /\ used' = [used EXCEPT !["rx"] = Append(@, head)]
  /\ head' = NoHead /\ frame' = 0
  /\ dp' = "rxStatus"
  /\ UNCHANGED <<avail, buffer, irq_status, irqfd, tap, driver>>

\* Mutants: irq_status is counted up; irq_status is not set.
RxStatusCounts ==
  /\ dp = "rxStatus"
  /\ irq_status' = irq_status + 1
  /\ dp' = "rxIrq"
  /\ UNCHANGED <<avail, used, buffer, irqfd, head, frame, tap, driver>>

RxStatusForgotten ==
  /\ dp = "rxStatus"
  /\ dp' = "rxIrq"
  /\ UNCHANGED <<avail, used, buffer, irq_status, irqfd, head, frame, tap, driver>>

\* irq_status |= 1, then the lock is dropped
RxStatus ==
  /\ dp = "rxStatus"
  /\ irq_status' = 1
  /\ dp' = "rxIrq"
  /\ UNCHANGED <<avail, used, buffer, irqfd, head, frame, tap, driver>>

RxIrq ==
  /\ dp = "rxIrq"
  /\ irqfd' = TRUE
  /\ dp' = "top"
  /\ UNCHANGED <<avail, used, buffer, irq_status, head, frame, tap, driver>>

-----------------------------------------------------------------------------
Interrupt == IsrStart \/ IsrRead \/ IsrAck \/ CollectRx \/ CollectTx \/ IsrDone

Dataplane ==
  \/ TxTake \/ TxUsed \/ TxEmpty
  \/ Recv \/ RecvNothing \/ RxNoBuffer \/ RxTake \/ RxUsed \/ RxStatus \/ RxIrq

Next ==
  \/ FrameArrives
  \/ \E h \in RxHeads : PostRx(h)
  \/ \E h \in TxHeads, k \in TxKinds : Xmit(h, k)
  \/ Interrupt
  \/ Dataplane

Spec == Init /\ [][Next]_vars

\* The thread and the guest's interrupt handler are scheduled for ever; nobody
\* has to send, to post buffers or to transmit.  The handler gets the mutex in
\* the end although the thread polls it for ever: it drops it every 100 us.
FairSpec ==
  Spec /\ WF_vars(Dataplane) /\ WF_vars(IsrStart \/ CollectRx \/ CollectTx \/ IsrDone)
       /\ SF_vars(IsrRead) /\ SF_vars(IsrAck)

-----------------------------------------------------------------------------
(***************************************************************************)
(* Properties                                                              *)
(***************************************************************************)

\* The values each part of the state takes: rings of NetState.queues, registers,
\* program points of dataplane_loop, the TAP and the driver.
TypeOK ==
  /\ avail \in [{"rx", "tx"} -> Seq(Heads)]
  /\ used \in [{"rx", "tx"} -> Seq(Heads)]
  /\ buffer \in [Heads -> Buffer]
  /\ irq_status \in {0, 1} /\ irqfd \in BOOLEAN
  /\ dp \in Points /\ head \in Heads \cup {NoHead} /\ frame \in Nat
  /\ tapIn \in Seq(Nat) /\ arrived \in Nat
  /\ tapOut \in Seq([message: Nat, whole: BOOLEAN])
  /\ isr \in {"idle", "read", "ack", "collect"}
  /\ free \in [{"rx", "tx"} -> SUBSET Heads]
  /\ stopped \in BOOLEAN /\ posted \in Nat
  /\ received \in Seq([message: Nat, whole: BOOLEAN])

\* A frame in the used ring of the receive queue is always going to be noticed: the
\* handler is past its status read, or the status it will read is set and an
\* interrupt is on its way.  dataplane_loop sets irq_status under the mutex after
\* add_used and writes irqfd after the mutex is dropped, while the guest reads and
\* acknowledges in between.
NoLostRxIrq ==
  used["rx"] # <<>> =>
    \/ isr \in {"ack", "collect"}
    \/ dp = "rxStatus"
    \/ irq_status = 1 /\ (irqfd \/ isr = "read" \/ dp = "rxIrq")

\* The heads the dataplane has in hand for queue q.
InHand(q) == {head} \cap (IF q = "rx" THEN RxHeads ELSE TxHeads)

\* No chain is in two hands, or twice in a ring, and the device returns every chain
\* it takes, except receive chains without room for the header, which RX takes off
\* the ring and never gives back.
OneOwner ==
  \A q \in {"rx", "tx"} :
    /\ IsInjective(avail[q]) /\ IsInjective(used[q])
    /\ free[q] \cap (ToSet(avail[q]) \cup ToSet(used[q]) \cup InHand(q)) = {}
    /\ ToSet(avail[q]) \cap (ToSet(used[q]) \cup InHand(q)) = {}
    /\ ToSet(used[q]) \cap InHand(q) = {}
    /\ \A h \in (IF q = "rx" THEN RxHeads ELSE TxHeads) :
         \/ h \in free[q] \cup ToSet(avail[q]) \cup ToSet(used[q]) \cup InHand(q)
         \/ q = "rx" /\ Layout[h] = "unusable"

Contents(heads) ==
  [i \in DOMAIN heads |-> [message |-> buffer[heads[i]].message, whole |-> buffer[heads[i]].whole]]

Messages(heads) == [i \in DOMAIN heads |-> buffer[heads[i]].message]

RxLink == INSTANCE LossyFifo WITH
  sent <- arrived,
  inFlight <- (IF frame = 0 THEN <<>> ELSE <<frame>>) \o tapIn,
  delivered <- received \o Contents(used["rx"])

TxLink == INSTANCE LossyFifo WITH
  sent <- posted,
  inFlight <- Messages(avail["tx"]),
  delivered <- tapOut

\* The receive path is a lossy FIFO from the TAP to the guest: whatever the driver
\* posts, reuses and collects meanwhile, frames come in order and at most once.
RxIsFifo == RxLink!Spec

\* The transmit path is a lossy FIFO from the driver to the TAP, although chains are
\* reused as soon as they are returned.
TxIsFifo == TxLink!Spec

\* A polling dataplane needs no kick: unless the TAP could not be opened, every chain
\* posted for transmission is taken, and every frame put in the used ring of the
\* receive queue is collected.
EventuallyServed ==
  /\ \A h \in TxHeads :
       h \in ToSet(avail["tx"]) ~> (dp = "dead" \/ h \notin ToSet(avail["tx"]))
  /\ \A h \in RxHeads : h \in ToSet(used["rx"]) ~> h \notin ToSet(used["rx"])

\* A driver that stopped its send queue for want of a chain is told of the chains the
\* device has returned, or finds them itself: add_used is to notify the guest.
TxNotified ==
  (stopped /\ used["tx"] # <<>>) ~> ~stopped

=============================================================================

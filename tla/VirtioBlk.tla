----------------------------- MODULE VirtioBlk ------------------------------
(***************************************************************************)
(* The virtio-blk device of caiman-vmm: the split virtqueue in guest RAM   *)
(* (virtio/queue.rs), the MMIO registers the vCPU threads serve            *)
(* (virtio/blk.rs, kvm/vcpu.rs) and the dataplane thread that drains the   *)
(* queue (blk_dataplane), against a guest driver that follows the virtio   *)
(* rules: it publishes a chain before it notifies, and its interrupt       *)
(* handler reads and acknowledges the interrupt status before it looks at  *)
(* the used ring.                                                          *)
(*                                                                         *)
(* Ring indices are kept as counts since the queue was set up.  The code   *)
(* stores them in u16: whatever it stores, compares or turns into a slot   *)
(* number here is Wrap(count).                                             *)
(*                                                                         *)
(* The BlkState mutex is held by the dataplane exactly at dp \in Locked;   *)
(* each MMIO handler is a single critical section, hence a single step.    *)
(* An eventfd is kept as "its counter is not zero".                        *)
(***************************************************************************)
EXTENDS Naturals, Sequences, FiniteSets

CONSTANTS
  QueueSize,   \* REG_QUEUE_NUM, as the driver set it
  IdxMod,      \* the u16 range of ring indices, 2^16 in the code
  MaxPosts,    \* bound: chains the driver publishes in a behaviour
  Sectors, Values,
  Image,       \* what the image file holds at first
  Requests,    \* the requests the driver posts
  ReadOnly     \* the disk is attached read-only

RequestType ==
  [type: {"IN", "OUT", "FLUSH", "GET_ID", "OTHER"}, sector: Sectors, data: Values,
   devWrites: BOOLEAN,                        \* VIRTQ_DESC_F_WRITE on the data descriptor
   form: {"good", "short",                    \* a chain of one descriptor
          "badHeader", "badBuffer"}]          \* header or data outside guest memory

\* The driver negotiated a queue size that divides the index range, as virtio
\* demands of it; the device does not check.
ASSUME QueueAssumption ==
  /\ QueueSize \in Nat \ {0}
  /\ IdxMod \in Nat
  /\ QueueSize < IdxMod
  /\ \E k \in 1 .. IdxMod : IdxMod = k * QueueSize

ASSUME RequestAssumption ==
  /\ MaxPosts \in Nat
  /\ Image \in [Sectors -> Values]
  /\ Requests \subseteq RequestType
  /\ ReadOnly \in BOOLEAN

Heads == 0 .. (QueueSize - 1)
Slots == 0 .. (QueueSize - 1)
Wrap(n) == n % IdxMod
Slot(n) == Wrap(n) % QueueSize

VARIABLES
  \* guest RAM
  avail_idx, avail_ring,     \* written by the driver
  desc,                      \* the request in the chain headed by each descriptor
  buffers,                   \* [Heads -> what the device left in the chain's buffers]
  used_mem, used_ring,       \* used.idx and used.ring, written by the device
  \* BlkState, behind its mutex
  ready, last_avail_idx, used_idx, irq_status,
  \* eventfds
  kickfd, irqfd,
  cloned,                    \* every vCPU thread got its clone of kickfd
  \* the dataplane thread and the image file
  dp, head, disk,
  \* the guest driver
  drv, isr, last_used, free

guestMem == <<avail_idx, avail_ring, desc>>
blkState == <<ready, last_avail_idx, used_idx, irq_status>>
vars == <<avail_idx, avail_ring, desc, buffers, used_mem, used_ring, blkState,
          kickfd, irqfd, cloned, dp, head, disk, drv, isr, last_used, free>>

\* A zeroed descriptor table: every chain has one descriptor.
NoRequest == [form |-> "short"]

Untouched == [status |-> "untouched", data |-> "none"]

\* Program points of blk_dataplane; the mutex is held at those in Locked.
DpPoints == {"open", "dead", "blocked", "drain", "parse", "elem", "idx", "status", "inject"}
Locked == {"idx", "status"}
MutexFree == dp \notin Locked

Init ==
  /\ avail_idx = 0 /\ used_mem = 0 /\ last_avail_idx = 0 /\ used_idx = 0 /\ last_used = 0
  /\ avail_ring = [s \in Slots |-> 0]
  /\ used_ring = [s \in Slots |-> 0]
  /\ desc = [h \in Heads |-> NoRequest]
  /\ buffers = [h \in Heads |-> Untouched]
  /\ ready = FALSE /\ irq_status = 0
  /\ kickfd = FALSE /\ irqfd = FALSE /\ cloned \in BOOLEAN
  /\ dp = "open" /\ head = 0
  /\ disk = Image
  /\ drv = "idle" /\ isr = "idle"
  /\ free = Heads

-----------------------------------------------------------------------------
(***************************************************************************)
(* The guest driver.  Submission and the interrupt handler may run on      *)
(* different vCPUs.                                                        *)
(***************************************************************************)

\* The driver writes the ring addresses and QUEUE_READY.
SetUp ==
  /\ ~ready
  /\ MutexFree
  /\ ready' = TRUE
  /\ UNCHANGED <<guestMem, buffers, used_mem, used_ring, last_avail_idx, used_idx,
                 irq_status, kickfd, irqfd, dp, head, disk, drv, isr, last_used, free,
                 cloned>>

\* Build a chain in free descriptors and put its head in the avail ring.
Fill(h, r) ==
  /\ ready
  /\ drv = "idle"
  /\ avail_idx < MaxPosts
  /\ h \in free
  /\ free' = free \ {h}
  /\ desc' = [desc EXCEPT ![h] = r]
  /\ avail_ring' = [avail_ring EXCEPT ![Slot(avail_idx)] = h]
  /\ drv' = "filled"
  /\ UNCHANGED <<avail_idx, buffers, used_mem, used_ring, blkState, kickfd, irqfd, dp,
                 head, disk, isr, last_used, cloned>>

Publish ==
  /\ drv = "filled"
  /\ avail_idx' = avail_idx + 1
  /\ drv' = "published"
  /\ UNCHANGED <<avail_ring, desc, buffers, used_mem, used_ring, blkState, kickfd,
                 irqfd, dp, head, disk, isr, last_used, free, cloned>>

\* MMIO write of REG_QUEUE_NOTIFY: mmio_write kicks the dataplane.  A vCPU
\* whose clone of kickfd failed writes to an eventfd of its own.
Notify ==
  /\ drv = "published"
  /\ MutexFree
  /\ \/ kickfd' = TRUE
     \/ ~cloned /\ kickfd' = kickfd
  /\ drv' = "idle"
  /\ UNCHANGED <<guestMem, buffers, used_mem, used_ring, blkState, irqfd, dp, head,
                 disk, isr, last_used, free, cloned>>

\* The interrupt KVM injects for the irqfd enters the guest's handler.
TakeIrq ==
  /\ irqfd
  /\ isr = "idle"
  /\ irqfd' = FALSE
  /\ isr' = "entered"
  /\ UNCHANGED <<guestMem, buffers, used_mem, used_ring, blkState, kickfd, dp, head,
                 disk, drv, last_used, free, cloned>>

\* MMIO read of REG_IRQ_STATUS; zero means the interrupt is not ours.
ReadIrqStatus ==
  /\ isr = "entered"
  /\ MutexFree
  /\ isr' = IF irq_status = 0 THEN "idle" ELSE "ack"
  /\ UNCHANGED <<guestMem, buffers, used_mem, used_ring, blkState, kickfd, irqfd, dp,
                 head, disk, drv, last_used, free, cloned>>

\* MMIO write of REG_IRQ_ACK.
AckIrq ==
  /\ isr = "ack"
  /\ MutexFree
  /\ irq_status' = 0
  /\ isr' = "collect"
  /\ UNCHANGED <<guestMem, buffers, used_mem, used_ring, ready, last_avail_idx,
                 used_idx, kickfd, irqfd, dp, head, disk, drv, last_used, free, cloned>>

\* Take the next element of the used ring, consume the chain's buffers and free
\* its descriptors.
Collect ==
  /\ isr = "collect"
  /\ Wrap(last_used) # Wrap(used_mem)
  /\ last_used' = last_used + 1
  /\ LET h == used_ring[Slot(last_used)]
     IN  /\ free' = free \cup {h}
         /\ buffers' = [buffers EXCEPT ![h] = Untouched]
  /\ UNCHANGED <<guestMem, used_mem, used_ring, blkState, kickfd, irqfd, dp, head, disk,
                 drv, isr, cloned>>

LeaveIsr ==
  /\ isr = "collect"
  /\ Wrap(last_used) = Wrap(used_mem)
  /\ isr' = "idle"
  /\ UNCHANGED <<guestMem, buffers, used_mem, used_ring, blkState, kickfd, irqfd, dp,
                 head, disk, drv, last_used, free, cloned>>

-----------------------------------------------------------------------------
(***************************************************************************)
(* The dataplane thread.                                                   *)
(***************************************************************************)

\* blk_dataplane opens the image,
OpenImage ==
  /\ dp = "open"
  /\ dp' = "blocked"
  /\ UNCHANGED <<guestMem, buffers, used_mem, used_ring, blkState, kickfd, irqfd, head,
                 disk, drv, isr, last_used, free, cloned>>

\* or fails to: the thread ends with a warning, and the device stays as it is.
OpenFails ==
  /\ dp = "open"
  /\ dp' = "dead"
  /\ UNCHANGED <<guestMem, buffers, used_mem, used_ring, blkState, kickfd, irqfd, head,
                 disk, drv, isr, last_used, free, cloned>>

\* kickfd.read() returns and resets the counter.
WakeUp ==
  /\ dp = "blocked"
  /\ kickfd
  /\ kickfd' = FALSE
  /\ dp' = "drain"
  /\ UNCHANGED <<guestMem, buffers, used_mem, used_ring, blkState, irqfd, head, disk,
                 drv, isr, last_used, free, cloned>>

\* Virtqueue::next_avail: there is a chain the device has not taken yet.
HasAvail == ready /\ Wrap(last_avail_idx) # Wrap(avail_idx)

\* One critical section: next_avail and read_chain.
NextAvail ==
  /\ dp = "drain"
  /\ HasAvail
  /\ head' = avail_ring[Slot(last_avail_idx)]
  /\ last_avail_idx' = last_avail_idx + 1
  /\ dp' = "parse"
  /\ UNCHANGED <<guestMem, buffers, used_mem, used_ring, ready, used_idx, irq_status,
                 kickfd, irqfd, disk, drv, isr, last_used, free, cloned>>

\* Nothing to take: the inner loop breaks and the thread blocks again.
Drained ==
  /\ dp = "drain"
  /\ ~HasAvail
  /\ dp' = "blocked"
  /\ UNCHANGED <<guestMem, buffers, used_mem, used_ring, blkState, kickfd, irqfd, head,
                 disk, drv, isr, last_used, free, cloned>>

\* Mutant: the result of file.write_at is ignored.
ExecuteIgnoresError(r) ==
  {<<disk, [status |-> IF r.type = "OTHER" THEN "UNSUPP" ELSE "OK",
            data |-> IF r.type = "IN" THEN disk[r.sector] ELSE "none"]>>}

\* What the device does for a request r once its header is read: pairs of the
\* image file afterwards and what is left in the buffers.  file.read_at and
\* file.write_at may fail, and a buffer too short for the id stays as it is.  A read
\* into a buffer outside guest memory is answered with OK, a write from it is not.
Execute(r) ==
  LET ioerr == <<disk, [status |-> "IOERR", data |-> "none"]>>
      ok(d, v) == <<d, [status |-> "OK", data |-> v]>>
      there == r.form # "badBuffer"
      in == IF r.devWrites
            THEN {ok(disk, IF there THEN disk[r.sector] ELSE "none"), ioerr} ELSE {ioerr}
      out == IF ~ReadOnly /\ there
             THEN {ok([disk EXCEPT ![r.sector] = r.data], "none"), ioerr} ELSE {ioerr}
      getId == {ok(disk, v) :
                  v \in IF r.devWrites /\ there THEN {"serial", "none"} ELSE {"none"}}
  IN  CASE r.type = "IN" -> in
        [] r.type = "OUT" -> out
        [] r.type = "FLUSH" -> {ok(disk, "none")}
        [] r.type = "GET_ID" -> getId
        [] r.type = "OTHER" -> {<<disk, [status |-> "UNSUPP", data |-> "none"]>>}

\* The request is executed with no lock held and its status byte is written.
DoRequest ==
  /\ dp = "parse"
  /\ desc[head].form \in {"good", "badBuffer"}
  /\ \E e \in Execute(desc[head]) :
        /\ disk' = e[1]
        /\ buffers' = [buffers EXCEPT ![head] = e[2]]
  /\ dp' = "elem"
  /\ UNCHANGED <<guestMem, used_mem, used_ring, blkState, kickfd, irqfd, head, drv, isr,
                 last_used, free, cloned>>

\* chain.len() < 2: straight to add_used.
ShortChain ==
  /\ dp = "parse"
  /\ desc[head].form = "short"
  /\ dp' = "elem"
  /\ UNCHANGED <<guestMem, buffers, used_mem, used_ring, blkState, kickfd, irqfd, head,
                 disk, drv, isr, last_used, free, cloned>>

\* Mutant: break instead of continue.
BadHeaderBreaks ==
  /\ dp = "parse"
  /\ desc[head].form = "badHeader"
  /\ dp' = "blocked"
  /\ UNCHANGED <<guestMem, buffers, used_mem, used_ring, blkState, kickfd, irqfd, head,
                 disk, drv, isr, last_used, free, cloned>>

\* The header cannot be read: continue, with nothing put in the used ring.
BadHeader ==
  /\ dp = "parse"
  /\ desc[head].form = "badHeader"
  /\ dp' = "drain"
  /\ UNCHANGED <<guestMem, buffers, used_mem, used_ring, blkState, kickfd, irqfd, head,
                 disk, drv, isr, last_used, free, cloned>>

\* Mutant: the slot is computed after the index was advanced.
AddUsedElemLate ==
  /\ dp = "elem"
  /\ used_ring' = [used_ring EXCEPT ![Slot(used_idx + 1)] = head]
  /\ dp' = "idx"
  /\ UNCHANGED <<guestMem, buffers, used_mem, blkState, kickfd, irqfd, head, disk, drv,
                 isr, last_used, free, cloned>>

\* Virtqueue::add_used, first half: the element, under the mutex.
AddUsedElem ==
  /\ dp = "elem"
  /\ used_ring' = [used_ring EXCEPT ![Slot(used_idx)] = head]
  /\ dp' = "idx"
  /\ UNCHANGED <<guestMem, buffers, used_mem, blkState, kickfd, irqfd, head, disk, drv,
                 isr, last_used, free, cloned>>

\* Mutant: a failed request takes the quiet path of a short chain.
AddUsedIdxQuietOnError ==
  /\ dp = "idx"
  /\ used_idx' = used_idx + 1
  /\ used_mem' = used_idx + 1
  /\ dp' = IF buffers[head].status = "OK" THEN "status" ELSE "drain"
  /\ UNCHANGED <<guestMem, buffers, used_ring, ready, last_avail_idx, irq_status,
                 kickfd, irqfd, head, disk, drv, isr, last_used, free, cloned>>

\* Virtqueue::add_used, second half: the index the driver polls.  After a short
\* chain the loop continues without touching irq_status or the irqfd.
AddUsedIdx ==
  /\ dp = "idx"
  /\ used_idx' = used_idx + 1
  /\ used_mem' = used_idx + 1
  /\ dp' = IF desc[head].form = "short" THEN "drain" ELSE "status"
  /\ UNCHANGED <<guestMem, buffers, used_ring, ready, last_avail_idx, irq_status,
                 kickfd, irqfd, head, disk, drv, isr, last_used, free, cloned>>

\* Mutant: += where the code has |=.
SetIrqStatusAdds ==
  /\ dp = "status"
  /\ irq_status' = irq_status + 1
  /\ dp' = "inject"
  /\ UNCHANGED <<guestMem, buffers, used_mem, used_ring, ready, last_avail_idx,
                 used_idx, kickfd, irqfd, head, disk, drv, isr, last_used, free,
                 cloned>>

\* st.irq_status |= 1, and the mutex is released.
SetIrqStatus ==
  /\ dp = "status"
  /\ irq_status' = 1
  /\ dp' = "inject"
  /\ UNCHANGED <<guestMem, buffers, used_mem, used_ring, ready, last_avail_idx,
                 used_idx, kickfd, irqfd, head, disk, drv, isr, last_used, free,
                 cloned>>

\* Mutant: no inner loop, one request for each kick.
InjectOnePerKick ==
  /\ dp = "inject"
  /\ irqfd' = TRUE
  /\ dp' = "blocked"
  /\ UNCHANGED <<guestMem, buffers, used_mem, used_ring, blkState, kickfd, head, disk,
                 drv, isr, last_used, free, cloned>>

\* irqfd.write(1).
Inject ==
  /\ dp = "inject"
  /\ irqfd' = TRUE
  /\ dp' = "drain"
  /\ UNCHANGED <<guestMem, buffers, used_mem, used_ring, blkState, kickfd, head, disk,
                 drv, isr, last_used, free, cloned>>

-----------------------------------------------------------------------------

Dataplane ==
  \/ OpenImage \/ OpenFails \/ WakeUp \/ NextAvail \/ Drained
  \/ DoRequest \/ ShortChain \/ BadHeader
  \/ AddUsedElem \/ AddUsedIdx \/ SetIrqStatus \/ Inject

Isr == TakeIrq \/ ReadIrqStatus \/ AckIrq \/ Collect \/ LeaveIsr

Driver ==
  \/ SetUp
  \/ \E h \in Heads, r \in Requests : Fill(h, r)
  \/ Publish
  \/ Notify

Next == Driver \/ Isr \/ Dataplane

Spec == Init /\ [][Next]_vars

\* The dataplane is a thread of its own, the guest keeps running its interrupt
\* handler and finishes a submission it began; nothing obliges it to begin one.
FairSpec ==
  /\ Spec
  /\ WF_vars(Dataplane)
  /\ WF_vars(Isr)
  /\ WF_vars(Publish \/ Notify)

-----------------------------------------------------------------------------
(***************************************************************************)
(* Properties.                                                             *)
(***************************************************************************)

Answers == [status: {"OK", "IOERR", "UNSUPP", "untouched"},
            data: Values \cup {"none", "serial"}]

\* The type invariant of the queue, the device state and the threads.
TypeOK ==
  /\ avail_idx \in Nat /\ used_mem \in Nat /\ last_avail_idx \in Nat
  /\ used_idx \in Nat /\ last_used \in Nat
  /\ avail_ring \in [Slots -> Heads] /\ used_ring \in [Slots -> Heads]
  /\ desc \in [Heads -> Requests \cup {NoRequest}]
  /\ buffers \in [Heads -> Answers]
  /\ ready \in BOOLEAN /\ irq_status \in {0, 1}
  /\ kickfd \in BOOLEAN /\ irqfd \in BOOLEAN /\ cloned \in BOOLEAN
  /\ dp \in DpPoints /\ head \in Heads
  /\ disk \in [Sectors -> Values]
  /\ drv \in {"idle", "filled", "published"}
  /\ isr \in {"idle", "entered", "ack", "collect"}
  /\ free \subseteq Heads

\* The chains in the avail ring that the device has not taken, and the elements
\* of the used ring that the driver has not collected, as intervals of counts.
AvailWindow == last_avail_idx .. (avail_idx - 1)
UsedWindow == last_used .. (used_mem - 1)

\* A wake-up is never lost between the driver's QUEUE_NOTIFY and kickfd.read():
\* whenever the dataplane is blocked, or still opens the image, although a chain is
\* available, either the eventfd is set or the driver is still about to write
\* QUEUE_NOTIFY.  The vCPU threads must have their clones of the eventfd: main drops
\* a failed try_clone with ok().
NoLostKick ==
  cloned /\ dp \in {"open", "blocked"} /\ AvailWindow # {} => kickfd \/ drv = "published"

\* An interrupt is never lost between add_used, irq_status and the driver's
\* read-acknowledge-collect sequence: whenever a completion that the device
\* announces (every one but that of a short chain) is not collected yet, an
\* interrupt is pending, about to be injected, or being handled.
NoLostIrq ==
  (\E i \in UsedWindow : desc[used_ring[Slot(i)]].form # "short")
    => irqfd \/ dp \in {"status", "inject"} \/ isr # "idle"

\* The descriptor heads in the hands of each party.
Submitting == IF drv = "filled" THEN {avail_ring[Slot(avail_idx)]} ELSE {}
Posted == {avail_ring[Slot(i)] : i \in AvailWindow}
InDevice == IF dp \in {"parse", "elem", "idx"} THEN {head} ELSE {}
Completed == {used_ring[Slot(i)] : i \in UsedWindow}

\* No descriptor is in two hands at once and no ring entry is overwritten before
\* it was read, across the wrap of the u16 indices: what the driver owns, what is
\* posted, what the dataplane works on and what is completed are disjoint, and the
\* live entries of each ring name different heads.
Ownership ==
  /\ free \cap (Submitting \cup Posted \cup InDevice \cup Completed) = {}
  /\ Submitting \cap (Posted \cup InDevice \cup Completed) = {}
  /\ Posted \cap (InDevice \cup Completed) = {}
  /\ InDevice \cap Completed = {}
  /\ \A i, j \in AvailWindow : avail_ring[Slot(i)] = avail_ring[Slot(j)] => i = j
  /\ \A i, j \in UsedWindow : used_ring[Slot(i)] = used_ring[Slot(j)] => i = j

\* The device implements the disk the guest is promised.
Service == INSTANCE BlkService WITH
  Writable <- ~ReadOnly,
  queue <- (IF dp = "parse" THEN <<<<head, desc[head]>>>> ELSE <<>>)
           \o [i \in 1 .. (avail_idx - last_avail_idx) |->
                 LET h == avail_ring[Slot(last_avail_idx + i - 1)] IN <<h, desc[h]>>],
  answer <- [h \in Heads |->
               IF h \in Completed \/ (dp \in {"elem", "idx"} /\ h = head)
               THEN buffers[h] ELSE [status |-> "none", data |-> "none"]]

\* Requests are served in the order they were made available, each exactly once,
\* and reads return the last value written, whatever the interleaving of vCPU
\* threads, interrupt handler and dataplane.
ImplementsService == Service!Spec

\* Every request with a header that the driver published is eventually completed and
\* its descriptors are handed back, unless the image did not open, so that there is no
\* dataplane thread, or a vCPU thread has no clone of kickfd.
EventuallyCollected ==
  \A h \in Heads : (h \in Posted /\ desc[h].form \in {"good", "badBuffer"})
                     ~> (h \in free \/ dp = "dead" \/ ~cloned)

=============================================================================

-------------------------- MODULE VirtioBlkProofs ---------------------------
(***************************************************************************)
(* Proofs about VirtioBlk for every queue size, index range and set of     *)
(* requests.                                                               *)
(*                                                                         *)
(* The heart of the matter is a count: the descriptors the driver holds    *)
(* and the chains it has posted and not yet collected add up to the queue  *)
(* size, so that the part of both rings in use never spans more than       *)
(* QueueSize indices.  Within such a span different indices have different *)
(* slots (WindowSlots) and, as the span is shorter than the index range,   *)
(* comparing wrapped indices for equality is comparing the counts          *)
(* (WindowWrap).                                                           *)
(***************************************************************************)
EXTENDS VirtioBlk, FiniteSetTheorems, TLAPS

-----------------------------------------------------------------------------
(***************************************************************************)
(* Remainders with a symbolic modulus, for ring indices that wrap and the  *)
(* slots they select.                                                      *)
(***************************************************************************)

\* A remainder lies below its modulus.
LEMMA ModRange ==
  ASSUME NEW a \in Nat, NEW m \in Nat \ {0}
  PROVE  a % m \in Nat /\ a % m < m
BY SMT

\* A number is a multiple of the modulus plus its remainder.
LEMMA ModQuotient ==
  ASSUME NEW a \in Nat, NEW m \in Nat \ {0}
  PROVE  \E q \in Nat : a = q * m + (a % m)
<1>1. a = (a \div m) * m + (a % m)
  BY SMT
<1>2. a \div m \in Nat
  BY SMT
<1> QED
  BY <1>1, <1>2

\* A positive multiple is at least the modulus.
LEMMA MultipleBound ==
  ASSUME NEW m \in Nat \ {0}, NEW k \in Nat \ {0}
  PROVE  k * m >= m
BY SMT

\* Quotient and remainder are unique.
LEMMA QuotientUnique ==
  ASSUME NEW m \in Nat \ {0},
         NEW p \in Nat, NEW r \in Nat, r < m,
         NEW q \in Nat, NEW s \in Nat, s < m,
         p * m + r = q * m + s
  PROVE  p = q /\ r = s
<1>1. p * m \in Nat /\ q * m \in Nat
  BY SMT
<1>2. CASE p = q
  BY <1>1, <1>2, SMT
<1>3. CASE p > q
  <2>1. (p - q) * m >= m
    BY <1>3, MultipleBound, SMT
  <2>2. (p - q) * m = p * m - q * m
    BY SMT
  <2> QED
    BY <1>1, <2>1, <2>2, SMT
<1>4. CASE p < q
  <2>1. (q - p) * m >= m
    BY <1>4, MultipleBound, SMT
  <2>2. (q - p) * m = q * m - p * m
    BY SMT
  <2> QED
    BY <1>1, <2>1, <2>2, SMT
<1> QED
  BY <1>2, <1>3, <1>4, SMT

\* A decomposition determines the remainder.
LEMMA ModUnique ==
  ASSUME NEW a \in Nat, NEW m \in Nat \ {0}, NEW q \in Nat, NEW r \in Nat,
         r < m, a = q * m + r
  PROVE  a % m = r
<1>1. PICK p \in Nat : a = p * m + (a % m)
  BY ModQuotient
<1>2. a % m \in Nat /\ a % m < m
  BY ModRange
<1> DEFINE s == a % m
<1>3. p * m + s = q * m + r
  BY <1>1
<1>4. s \in Nat /\ s < m
  BY <1>2
<1> HIDE DEF s
<1>5. s = r
  BY <1>3, <1>4, QuotientUnique
<1> QED
  BY <1>5 DEF s

\* Two numbers less than a modulus apart that agree modulo it are equal.
LEMMA ModInjective ==
  ASSUME NEW a \in Nat, NEW b \in Nat, NEW m \in Nat \ {0},
         a <= b, b - a < m, a % m = b % m
  PROVE  a = b
<1>1. PICK p \in Nat : a = p * m + (a % m)
  BY ModQuotient
<1>2. PICK q \in Nat : b = q * m + (b % m)
  BY ModQuotient
<1>3. a % m \in Nat /\ p * m \in Nat /\ q * m \in Nat
  BY ModRange, SMT
<1>4. CASE p = q
  BY <1>1, <1>2, <1>4
<1>5. CASE p > q
  <2>1. (p - q) * m >= m
    BY <1>5, MultipleBound, SMT
  <2>2. (p - q) * m = p * m - q * m
    BY SMT
  <2> QED
    BY <1>1, <1>2, <1>3, <2>1, <2>2, SMT
<1>6. CASE p < q
  <2>1. (q - p) * m >= m
    BY <1>6, MultipleBound, SMT
  <2>2. (q - p) * m = q * m - p * m
    BY SMT
  <2> QED
    BY <1>1, <1>2, <1>3, <2>1, <2>2, SMT
<1> QED
  BY <1>4, <1>5, <1>6, SMT

\* Reducing first by a multiple of the modulus changes nothing.
LEMMA ModMod ==
  ASSUME NEW n \in Nat, NEW s \in Nat \ {0}, NEW k \in Nat \ {0}
  PROVE  (n % (k * s)) % s = n % s
<1>1. k * s \in Nat \ {0}
  BY SMT
<1>2. PICK p \in Nat : n = p * (k * s) + (n % (k * s))
  BY <1>1, ModQuotient
<1>3. PICK b \in Nat : b = n % (k * s)
  BY <1>1, ModRange
<1>4. PICK q \in Nat : b = q * s + (b % s)
  BY ModQuotient
<1>5. PICK r \in Nat : r = b % s /\ r < s
  BY ModRange
<1>6. n = (p * k + q) * s + r
  <2>1. p * (k * s) = (p * k) * s
    BY SMT
  <2>2. (p * k + q) * s = (p * k) * s + q * s
    BY SMT
  <2>3. n = p * (k * s) + b /\ b = q * s + r
    BY <1>2, <1>3, <1>4, <1>5
  <2>4. (p * k) * s \in Nat /\ q * s \in Nat
    BY SMT
  <2> QED
    BY <2>1, <2>2, <2>3, <2>4, SMT
<1>7. p * k + q \in Nat
  BY SMT
<1>8. n % s = r
  BY <1>5, <1>6, <1>7, ModUnique
<1> QED
  BY <1>3, <1>5, <1>8

-----------------------------------------------------------------------------
(***************************************************************************)
(* The inductive invariant.                                                *)
(***************************************************************************)

Filled == IF drv = "filled" THEN 1 ELSE 0
Busy == dp \in {"parse", "elem", "idx"}
PostedWindow == last_avail_idx .. (avail_idx + Filled - 1)

\* The indices follow each other around the rings.
Order ==
  /\ used_mem = used_idx
  /\ last_used <= used_idx
  /\ used_idx <= last_avail_idx
  /\ Busy => used_idx < last_avail_idx
  /\ last_avail_idx <= avail_idx
  /\ ~ready => avail_idx = 0 /\ drv = "idle"

\* Every descriptor is free or belongs to a chain that is not collected.
Counting == Cardinality(free) + (avail_idx + Filled - last_used) = QueueSize

\* Ownership, entry by entry, with the entry the driver has filled in but not
\* published counted as posted.
Distinct ==
  /\ \A i, j \in PostedWindow : avail_ring[Slot(i)] = avail_ring[Slot(j)] => i = j
  /\ \A i, j \in UsedWindow : used_ring[Slot(i)] = used_ring[Slot(j)] => i = j
  /\ \A i \in PostedWindow : avail_ring[Slot(i)] \notin free
  /\ \A j \in UsedWindow : used_ring[Slot(j)] \notin free
  /\ \A i \in PostedWindow, j \in UsedWindow : avail_ring[Slot(i)] # used_ring[Slot(j)]
  /\ Busy => /\ head \notin free
             /\ \A i \in PostedWindow : avail_ring[Slot(i)] # head
             /\ \A j \in UsedWindow : used_ring[Slot(j)] # head
  /\ dp = "idx" => used_ring[Slot(used_idx)] = head

\* Why no interrupt is lost: an announced completion keeps irq_status set until a
\* handler has acknowledged it, and irq_status keeps an interrupt on its way.
Unseen == \E i \in UsedWindow : desc[used_ring[Slot(i)]].form # "short"

IrqChain ==
  /\ Unseen => irq_status = 1 \/ isr = "collect" \/ dp = "status"
  /\ irq_status = 1 => irqfd \/ dp = "inject" \/ isr \in {"entered", "ack"}

IInv == TypeOK /\ Order /\ Counting /\ Distinct /\ NoLostKick /\ IrqChain

-----------------------------------------------------------------------------
(***************************************************************************)
(* Slots and wrapped indices.                                              *)
(***************************************************************************)

\* A slot number lies within the ring, and wrapping the index first does not change
\* it, because the ring divides the index range.
LEMMA SlotIsMod ==
  ASSUME NEW n \in Nat
  PROVE  Slot(n) = n % QueueSize /\ Slot(n) \in Slots
<1>1. PICK k \in 1 .. IdxMod : IdxMod = k * QueueSize
  BY QueueAssumption
<1>2. QueueSize \in Nat \ {0} /\ k \in Nat \ {0}
  BY QueueAssumption
<1>3. Slot(n) = n % QueueSize
  BY <1>1, <1>2, ModMod DEF Slot, Wrap
<1>4. n % QueueSize \in Nat /\ n % QueueSize < QueueSize
  BY <1>2, ModRange
<1> QED
  BY <1>2, <1>3, <1>4 DEF Slots

\* Virtqueue::next_avail and add_used address slots modulo the size: indices less
\* than a ring apart never share one.
LEMMA WindowSlots ==
  ASSUME NEW i \in Nat, NEW j \in Nat, i < j + QueueSize, j < i + QueueSize,
         Slot(i) = Slot(j)
  PROVE  i = j
<1>1. QueueSize \in Nat \ {0}
  BY QueueAssumption
<1>2. i % QueueSize = j % QueueSize
  BY SlotIsMod
<1>3. CASE i <= j
  <2>1. j - i < QueueSize
    BY <1>1, <1>3
  <2> QED
    BY <1>1, <1>2, <1>3, <2>1, ModInjective, Zenon
<1>4. CASE j <= i
  <2>1. i - j < QueueSize
    BY <1>1, <1>4
  <2> QED
    BY <1>1, <1>2, <1>4, <2>1, ModInjective, Zenon
<1>5. i <= j \/ j <= i
  OBVIOUS
<1> QED
  BY <1>3, <1>4, <1>5

\* Comparing u16 indices for equality, as next_avail does, is comparing counts as
\* long as the driver is no more than a ring ahead.
LEMMA WindowWrap ==
  ASSUME NEW i \in Nat, NEW j \in Nat, i <= j, j <= i + QueueSize, Wrap(i) = Wrap(j)
  PROVE  i = j
<1>1. IdxMod \in Nat \ {0} /\ QueueSize < IdxMod /\ QueueSize \in Nat
  BY QueueAssumption
<1>2. j - i < IdxMod
  BY <1>1
<1> QED
  BY <1>1, <1>2, ModInjective DEF Wrap

\* The driver's free descriptors are a finite set.
LEMMA FreeFinite ==
  ASSUME free \subseteq Heads
  PROVE  IsFiniteSet(free) /\ Cardinality(free) \in Nat
<1>1. IsFiniteSet(Heads)
  BY QueueAssumption, FS_Interval DEF Heads
<1>2. IsFiniteSet(free)
  BY <1>1, FS_Subset
<1> QED
  BY <1>2, FS_CardinalityType

\* The part of the rings in use spans at most QueueSize indices.
LEMMA Span ==
  ASSUME TypeOK, Counting
  PROVE  /\ Filled \in {0, 1}
         /\ avail_idx + Filled <= last_used + QueueSize
         /\ free # {} => avail_idx + Filled < last_used + QueueSize
<1>1. Filled \in {0, 1}
  BY DEF Filled
<1>2. IsFiniteSet(free) /\ Cardinality(free) \in Nat
  BY FreeFinite DEF TypeOK
<1>3. free # {} => Cardinality(free) # 0
  BY <1>2, FS_EmptySet
<1> QED
  BY <1>1, <1>2, <1>3, QueueAssumption DEF Counting, TypeOK

-----------------------------------------------------------------------------
(***************************************************************************)
(* Initial states.                                                         *)
(***************************************************************************)

LEMMA InitIInv == Init => IInv
<1> SUFFICES ASSUME Init PROVE IInv
  OBVIOUS
<1>1. TypeOK
  <2>1. 0 \in Heads
    BY QueueAssumption DEF Heads
  <2>2. Untouched \in Answers
    BY DEF Untouched, Answers
  <2>3. buffers \in [Heads -> Answers]
    BY <2>2 DEF Init
  <2>4. desc \in [Heads -> Requests \cup {NoRequest}]
    BY DEF Init
  <2> QED
    BY <2>1, <2>3, <2>4, RequestAssumption DEF Init, TypeOK, DpPoints
<1>2. Order /\ NoLostKick /\ IrqChain
  BY DEF Init, Order, Busy, NoLostKick, AvailWindow, IrqChain, Unseen, UsedWindow
<1>3. Counting
  <2>1. Cardinality(Heads) = QueueSize
    BY QueueAssumption, FS_Interval DEF Heads
  <2> QED
    BY <2>1, QueueAssumption DEF Init, Counting, Filled
<1>4. Distinct
  BY DEF Init, Distinct, Busy, UsedWindow, PostedWindow, Filled
<1> QED
  BY <1>1, <1>2, <1>3, <1>4 DEF IInv

-----------------------------------------------------------------------------
(***************************************************************************)
(* Types.                                                                  *)
(***************************************************************************)

\* What blk_dataplane may do to the image file and to the buffers of a well-formed
\* request keeps their types.
LEMMA ExecuteType ==
  ASSUME TypeOK, NEW r \in Requests, NEW e \in Execute(r)
  PROVE  e[1] \in [Sectors -> Values] /\ e[2] \in Answers
<1>1. r \in RequestType
  BY RequestAssumption
<1>2. /\ r.type \in {"IN", "OUT", "FLUSH", "GET_ID", "OTHER"}
      /\ r.sector \in Sectors /\ r.data \in Values
  BY <1>1 DEF RequestType
<1>3. disk \in [Sectors -> Values]
  BY DEF TypeOK
<1>4. [disk EXCEPT ![r.sector] = r.data] \in [Sectors -> Values]
  BY <1>2, <1>3
<1>5. disk[r.sector] \in Values
  BY <1>2, <1>3
<1>6. \A st \in {"OK", "IOERR", "UNSUPP"}, v \in Values \cup {"none", "serial"} :
        [status |-> st, data |-> v] \in Answers
  BY DEF Answers
<1>7. \/ \E v \in Values \cup {"none", "serial"}, st \in {"OK", "IOERR", "UNSUPP"} :
           e = <<disk, [status |-> st, data |-> v]>>
      \/ e = <<[disk EXCEPT ![r.sector] = r.data], [status |-> "OK", data |-> "none"]>>
  BY <1>2, <1>5 DEF Execute
<1> QED
  BY <1>3, <1>4, <1>6, <1>7

\* The type invariant is inductive by itself.
LEMMA TypeNext == TypeOK /\ [Next]_vars => TypeOK'
<1> SUFFICES ASSUME TypeOK, [Next]_vars PROVE TypeOK'
  OBVIOUS
<1> USE DEF TypeOK, DpPoints
<1>1. CASE SetUp
  BY <1>1 DEF SetUp, guestMem
<1>2. ASSUME NEW h \in Heads, NEW r \in Requests, Fill(h, r) PROVE TypeOK'
  BY <1>2 DEF Fill, blkState
<1>3. CASE Publish
  BY <1>3 DEF Publish, blkState
<1>4. CASE Notify
  BY <1>4 DEF Notify, guestMem, blkState
<1>5. CASE TakeIrq \/ ReadIrqStatus \/ LeaveIsr
  <2>1. CASE TakeIrq
    BY <2>1 DEF TakeIrq, guestMem, blkState
  <2>2. CASE ReadIrqStatus
    BY <2>2 DEF ReadIrqStatus, guestMem, blkState
  <2>3. CASE LeaveIsr
    BY <2>3 DEF LeaveIsr, guestMem, blkState
  <2> QED
    BY <1>5, <2>1, <2>2, <2>3
<1>6. CASE AckIrq
  BY <1>6 DEF AckIrq, guestMem
<1>7. CASE Collect
  <2>1. used_ring[Slot(last_used)] \in Heads
    BY SlotIsMod
  <2>2. Untouched \in Answers
    BY DEF Untouched, Answers
  <2> QED
    BY <1>7, <2>1, <2>2 DEF Collect, guestMem, blkState
<1>8. CASE OpenImage \/ OpenFails \/ WakeUp \/ Drained \/ ShortChain \/ BadHeader \/ Inject
  <2>1. CASE OpenImage \/ OpenFails
    BY <2>1 DEF OpenImage, OpenFails, guestMem, blkState
  <2>2. CASE Inject
    BY <2>2 DEF Inject, guestMem, blkState
  <2>3. CASE WakeUp
    BY <2>3 DEF WakeUp, guestMem, blkState
  <2>4. CASE Drained
    BY <2>4 DEF Drained, guestMem, blkState
  <2>5. CASE ShortChain
    BY <2>5 DEF ShortChain, guestMem, blkState
  <2>6. CASE BadHeader
    BY <2>6 DEF BadHeader, guestMem, blkState
  <2> QED
    BY <1>8, <2>1, <2>2, <2>3, <2>4, <2>5, <2>6
<1>9. CASE NextAvail
  <2>1. avail_ring[Slot(last_avail_idx)] \in Heads
    BY SlotIsMod
  <2> QED
    BY <1>9, <2>1 DEF NextAvail, guestMem
<1>10. CASE DoRequest
  <2>1. desc[head] \in Requests
    BY <1>10 DEF DoRequest, NoRequest
  <2>2. PICK e \in Execute(desc[head]) :
          disk' = e[1] /\ buffers' = [buffers EXCEPT ![head] = e[2]]
    BY <1>10 DEF DoRequest
  <2>3. e[1] \in [Sectors -> Values] /\ e[2] \in Answers
    BY <2>1, ExecuteType
  <2> QED
    BY <1>10, <2>2, <2>3 DEF DoRequest, guestMem, blkState
<1>11. CASE AddUsedElem
  BY <1>11 DEF AddUsedElem, guestMem, blkState
<1>12. CASE AddUsedIdx
  BY <1>12 DEF AddUsedIdx, guestMem
<1>13. CASE SetIrqStatus
  BY <1>13 DEF SetIrqStatus, guestMem
<1>14. CASE UNCHANGED vars
  BY <1>14 DEF vars, blkState
<1> QED
  BY <1>1, <1>2, <1>3, <1>4, <1>5, <1>6, <1>7, <1>8, <1>9, <1>10, <1>11, <1>12, <1>13,
     <1>14 DEF Next, Driver, Isr, Dataplane

-----------------------------------------------------------------------------
(***************************************************************************)
(* Order and count.                                                        *)
(***************************************************************************)

\* Steps that touch none of the state in Order, Counting and Distinct, except that
\* the dataplane moves on with the request it holds, or without one.
Aside ==
  /\ UNCHANGED <<avail_idx, avail_ring, used_mem, used_ring, last_avail_idx, used_idx,
                 drv, last_used, free, head>>
  /\ ready => ready'
  /\ Busy' => Busy
  /\ dp' = "idx" => dp = "idx"

LEMMA AsideSteps ==
  ASSUME IInv,
         \/ SetUp \/ TakeIrq \/ ReadIrqStatus \/ LeaveIsr \/ AckIrq \/ OpenImage
         \/ OpenFails \/ WakeUp \/ Drained \/ ShortChain \/ BadHeader \/ Inject
         \/ DoRequest \/ SetIrqStatus
         \/ UNCHANGED vars
  PROVE  Aside
<1> USE DEF Aside, Busy, guestMem, blkState
<1>1. CASE SetUp
  BY <1>1 DEF SetUp
<1>2. CASE TakeIrq \/ ReadIrqStatus \/ LeaveIsr \/ AckIrq
  BY <1>2 DEF TakeIrq, ReadIrqStatus, LeaveIsr, AckIrq
<1>3. CASE OpenImage \/ OpenFails \/ WakeUp \/ Drained \/ ShortChain \/ BadHeader
  BY <1>3 DEF OpenImage, OpenFails, WakeUp, Drained, ShortChain, BadHeader
<1>4. CASE Inject \/ DoRequest \/ SetIrqStatus
  BY <1>4 DEF Inject, DoRequest, SetIrqStatus
<1>5. CASE UNCHANGED vars
  BY <1>5 DEF vars
<1> QED
  BY <1>1, <1>2, <1>3, <1>4, <1>5

\* No step makes the indices overtake each other or loses count of a descriptor.
LEMMA OrderNext == IInv /\ [Next]_vars => (Order /\ Counting)'
<1> SUFFICES ASSUME IInv, [Next]_vars PROVE Order' /\ Counting'
  OBVIOUS
<1>a. TypeOK /\ Order /\ Counting /\ Distinct
  BY DEF IInv
<1>b. QueueSize \in Nat \ {0}
  BY QueueAssumption
<1>c. /\ avail_idx \in Nat /\ used_mem \in Nat /\ last_avail_idx \in Nat
      /\ used_idx \in Nat /\ last_used \in Nat
  BY <1>a DEF TypeOK
<1>d. IsFiniteSet(free) /\ Cardinality(free) \in Nat
  BY <1>a, FreeFinite DEF TypeOK
<1>e. avail_idx + Filled <= last_used + QueueSize /\ Filled \in {0, 1}
  BY <1>a, Span
<1>1. CASE Aside
  <2>1. Order'
    BY <1>a, <1>1 DEF Aside, Order
  <2>2. Counting'
    BY <1>a, <1>1 DEF Aside, Counting, Filled
  <2> QED
    BY <2>1, <2>2
<1>2. ASSUME NEW h \in Heads, NEW r \in Requests, Fill(h, r) PROVE Order' /\ Counting'
  <2>1. Order'
    BY <1>a, <1>2 DEF Fill, blkState, Order, Busy
  <2>2. Cardinality(free') = Cardinality(free) - 1
    BY <1>2, <1>d, FS_RemoveElement DEF Fill
  <2>3. Filled = 0 /\ Filled' = 1
    BY <1>2 DEF Fill, Filled
  <2>4. Counting'
    BY <1>a, <1>b, <1>c, <1>d, <1>2, <2>2, <2>3 DEF Fill, Counting
  <2> QED
    BY <2>1, <2>4
<1>3. CASE Publish
  <2>1. Order'
    BY <1>a, <1>c, <1>3 DEF Publish, blkState, Order, Busy
  <2>2. Filled = 1 /\ Filled' = 0
    BY <1>3 DEF Publish, Filled
  <2>3. Counting'
    BY <1>a, <1>b, <1>c, <1>d, <1>3, <2>2 DEF Publish, Counting
  <2> QED
    BY <2>1, <2>3
<1>4. CASE Notify
  BY <1>a, <1>4 DEF Notify, guestMem, blkState, Order, Busy, Counting, Filled
<1>5. CASE Collect
  <2>1. last_used < used_mem
    BY <1>a, <1>c, <1>5 DEF Collect, Order
  <2>2. used_ring[Slot(last_used)] \notin free
    BY <1>a, <1>c, <2>1 DEF Distinct, UsedWindow
  <2>3. Cardinality(free') = Cardinality(free) + 1
    BY <1>5, <1>d, <2>2, FS_AddElement DEF Collect
  <2>4. Order'
    BY <1>a, <1>c, <1>5, <2>1 DEF Collect, guestMem, blkState, Order, Busy
  <2>5. Filled' = Filled
    BY <1>5 DEF Collect, Filled
  <2>6. Counting'
    BY <1>a, <1>b, <1>c, <1>d, <1>e, <1>5, <2>3, <2>5 DEF Collect, guestMem, Counting
  <2> QED
    BY <2>4, <2>6
<1>6. CASE NextAvail
  <2>1. last_avail_idx < avail_idx
    BY <1>a, <1>c, <1>6 DEF NextAvail, HasAvail, Order
  <2>2. Order'
    BY <1>a, <1>c, <1>6, <2>1 DEF NextAvail, guestMem, Order, Busy
  <2>3. Counting'
    BY <1>a, <1>6 DEF NextAvail, guestMem, Counting, Filled
  <2> QED
    BY <2>2, <2>3
<1>7. CASE AddUsedElem
  BY <1>a, <1>7 DEF AddUsedElem, guestMem, blkState, Order, Busy, Counting, Filled
<1>8. CASE AddUsedIdx
  <2>1. Order'
    BY <1>a, <1>c, <1>8 DEF AddUsedIdx, guestMem, Order, Busy
  <2>2. Counting'
    BY <1>a, <1>8 DEF AddUsedIdx, guestMem, Counting, Filled
  <2> QED
    BY <2>1, <2>2
<1> QED
  BY <1>1, <1>2, <1>3, <1>4, <1>5, <1>6, <1>7, <1>8, AsideSteps
     DEF Next, Driver, Isr, Dataplane

-----------------------------------------------------------------------------
(***************************************************************************)
(* Ownership of the descriptors.                                           *)
(***************************************************************************)

\* No step puts a descriptor in two hands or overwrites a live ring entry.
LEMMA DistinctNext == IInv /\ [Next]_vars => Distinct'
<1> SUFFICES ASSUME IInv, [Next]_vars PROVE Distinct'
  OBVIOUS
<1>a. TypeOK /\ Order /\ Counting /\ Distinct
  BY DEF IInv
<1>b. QueueSize \in Nat \ {0}
  BY QueueAssumption
<1>c. /\ avail_idx \in Nat /\ used_mem \in Nat /\ last_avail_idx \in Nat
      /\ used_idx \in Nat /\ last_used \in Nat
      /\ avail_ring \in [Slots -> Heads] /\ used_ring \in [Slots -> Heads]
  BY <1>a DEF TypeOK
<1>d. /\ Filled \in {0, 1}
      /\ avail_idx + Filled <= last_used + QueueSize
      /\ free # {} => avail_idx + Filled < last_used + QueueSize
  BY <1>a, Span
<1>e. /\ used_mem = used_idx /\ last_used <= used_idx /\ used_idx <= last_avail_idx
      /\ last_avail_idx <= avail_idx
      /\ Busy => used_idx < last_avail_idx
  BY <1>a DEF Order
<1>f. \A n \in Nat : Slot(n) \in Slots
  BY SlotIsMod
<1>1. CASE Aside
  BY <1>a, <1>1 DEF Aside, Distinct, PostedWindow, UsedWindow, Filled
<1>2. ASSUME NEW h \in Heads, NEW r \in Requests, Fill(h, r) PROVE Distinct'
  <2>1. Filled = 0 /\ Filled' = 1
    BY <1>2 DEF Fill, Filled
  <2>2. avail_idx < last_used + QueueSize
    BY <1>2, <1>c, <1>d, <2>1 DEF Fill
  <2>3. \A n \in PostedWindow : Slot(n) # Slot(avail_idx)
    <3> SUFFICES ASSUME NEW n \in PostedWindow, Slot(n) = Slot(avail_idx) PROVE FALSE
      OBVIOUS
    <3>1. n \in Nat /\ n < avail_idx /\ last_used <= n
      BY <1>c, <1>e, <2>1 DEF PostedWindow
    <3> QED
      BY <1>b, <1>c, <2>2, <3>1, WindowSlots
  <2>4. \A n \in PostedWindow' : n = avail_idx \/ n \in PostedWindow
    BY <1>2, <1>c, <1>e, <2>1 DEF Fill, blkState, PostedWindow
  <2>5. avail_ring'[Slot(avail_idx)] = h
    BY <1>2, <1>c, <1>f DEF Fill
  <2>6. \A n \in PostedWindow : avail_ring'[Slot(n)] = avail_ring[Slot(n)]
    BY <1>2, <1>c, <1>f, <2>3 DEF Fill, PostedWindow
  <2>7. h \in free /\ free' = free \ {h} /\ UsedWindow' = UsedWindow
        /\ UNCHANGED <<used_ring, used_idx, head, dp>>
    BY <1>2 DEF Fill, blkState, UsedWindow
  <2> QED
    BY <1>a, <2>4, <2>5, <2>6, <2>7 DEF Distinct, Busy
<1>3. CASE Publish
  <2>1. Filled = 1 /\ Filled' = 0 /\ avail_idx' = avail_idx + 1
    BY <1>3 DEF Publish, Filled
  <2>2. PostedWindow' = PostedWindow
    BY <1>3, <1>c, <2>1 DEF Publish, blkState, PostedWindow
  <2> QED
    BY <1>a, <1>3, <2>2 DEF Publish, blkState, Distinct, UsedWindow, Busy
<1>4. CASE Notify
  <2>1. PostedWindow' = PostedWindow
    BY <1>4 DEF Notify, guestMem, blkState, PostedWindow, Filled
  <2> QED
    BY <1>a, <1>4, <2>1 DEF Notify, guestMem, blkState, Distinct, UsedWindow, Busy
<1>5. CASE Collect
  <2>1. last_used \in UsedWindow
    BY <1>c, <1>e, <1>5 DEF Collect, UsedWindow
  <2>2. \A j \in UsedWindow' : j \in UsedWindow /\ j # last_used
    BY <1>c, <1>5 DEF Collect, UsedWindow
  <2>3. PostedWindow' = PostedWindow
    BY <1>5 DEF Collect, guestMem, blkState, PostedWindow, Filled
  <2>4. free' = free \cup {used_ring[Slot(last_used)]}
        /\ UNCHANGED <<avail_ring, used_ring, used_idx, head, dp>>
    BY <1>5 DEF Collect, guestMem, blkState
  <2> QED
    BY <1>a, <2>1, <2>2, <2>3, <2>4 DEF Distinct, Busy
<1>6. CASE NextAvail
  <2>1. last_avail_idx \in PostedWindow
    BY <1>c, <1>d, <1>e, <1>6 DEF NextAvail, HasAvail, PostedWindow
  <2>2. \A n \in PostedWindow' : n \in PostedWindow /\ n # last_avail_idx
    BY <1>c, <1>d, <1>6 DEF NextAvail, guestMem, PostedWindow, Filled
  <2>3. head' = avail_ring[Slot(last_avail_idx)] /\ UsedWindow' = UsedWindow
        /\ dp' = "parse" /\ UNCHANGED <<avail_ring, used_ring, free>>
    BY <1>6 DEF NextAvail, guestMem, UsedWindow
  <2> QED
    BY <1>a, <2>1, <2>2, <2>3 DEF Distinct, Busy
<1>7. CASE AddUsedElem
  <2>1. used_idx < last_used + QueueSize
    BY <1>b, <1>c, <1>d, <1>e, <1>7 DEF AddUsedElem, Busy
  <2>2. \A j \in UsedWindow : used_ring'[Slot(j)] = used_ring[Slot(j)]
    <3> SUFFICES ASSUME NEW j \in UsedWindow PROVE used_ring'[Slot(j)] = used_ring[Slot(j)]
      OBVIOUS
    <3>1. j \in Nat /\ j < used_idx /\ last_used <= j
      BY <1>c, <1>e DEF UsedWindow
    <3>2. Slot(j) # Slot(used_idx)
      BY <1>b, <1>c, <2>1, <3>1, WindowSlots
    <3> QED
      BY <1>7, <1>c, <1>f, <3>1, <3>2 DEF AddUsedElem
  <2>3. used_ring'[Slot(used_idx)] = head
    BY <1>7, <1>c, <1>f DEF AddUsedElem
  <2>4. /\ PostedWindow' = PostedWindow /\ UsedWindow' = UsedWindow
        /\ UNCHANGED <<avail_ring, used_idx, free, head>> /\ Busy
    BY <1>7 DEF AddUsedElem, guestMem, blkState, PostedWindow, UsedWindow, Filled, Busy
  <2> QED
    BY <1>a, <2>2, <2>3, <2>4 DEF Distinct
<1>8. CASE AddUsedIdx
  <2>1. \A j \in UsedWindow' : j = used_idx \/ j \in UsedWindow
    BY <1>8, <1>c, <1>e DEF AddUsedIdx, UsedWindow
  <2>2. Busy /\ used_ring[Slot(used_idx)] = head
    BY <1>8, <1>a DEF AddUsedIdx, Distinct, Busy
  <2>3. /\ PostedWindow' = PostedWindow /\ ~Busy' /\ dp' # "idx"
        /\ UNCHANGED <<avail_ring, used_ring, free, head>>
    BY <1>8 DEF AddUsedIdx, guestMem, PostedWindow, Filled, Busy
  <2> QED
    BY <1>a, <2>1, <2>2, <2>3 DEF Distinct
<1> QED
  BY <1>1, <1>2, <1>3, <1>4, <1>5, <1>6, <1>7, <1>8, AsideSteps
     DEF Next, Driver, Isr, Dataplane

-----------------------------------------------------------------------------
(***************************************************************************)
(* Kicks and interrupts.                                                   *)
(***************************************************************************)

\* The dataplane blocks only after it has seen the queue empty, and whoever
\* publishes a chain afterwards still owes the kick.
LEMMA KickNext == IInv /\ [Next]_vars => NoLostKick'
<1> SUFFICES ASSUME IInv, [Next]_vars PROVE NoLostKick'
  OBVIOUS
<1>a. TypeOK /\ Order /\ Counting /\ NoLostKick
  BY DEF IInv
<1>b. /\ avail_idx \in Nat /\ last_avail_idx \in Nat /\ last_used \in Nat
      /\ used_idx \in Nat
  BY <1>a DEF TypeOK
<1>c. avail_idx + Filled <= last_used + QueueSize /\ Filled \in {0, 1}
  BY <1>a, Span
<1> USE DEF NoLostKick, AvailWindow, guestMem, blkState
<1>1. CASE Driver
  <2>1. CASE SetUp
    BY <1>a, <2>1 DEF SetUp
  <2>2. CASE \E h \in Heads, r \in Requests : Fill(h, r)
    BY <1>a, <2>2 DEF Fill
  <2>3. CASE Publish \/ Notify
    BY <2>3 DEF Publish, Notify
  <2> QED
    BY <1>1, <2>1, <2>2, <2>3 DEF Driver
<1>2. CASE Isr
  BY <1>a, <1>2 DEF Isr, TakeIrq, ReadIrqStatus, AckIrq, Collect, LeaveIsr
<1>3. CASE Drained
  <2>1. last_avail_idx = avail_idx
    <3>1. CASE ~ready
      BY <1>a, <1>b, <3>1 DEF Order
    <3>2. CASE Wrap(last_avail_idx) = Wrap(avail_idx)
      <4>1. last_avail_idx <= avail_idx
        BY <1>a DEF Order
      <4>2. avail_idx <= last_avail_idx + QueueSize
        BY <1>a, <1>b, <1>c, QueueAssumption DEF Order
      <4> QED
        BY <1>b, <3>2, <4>1, <4>2, WindowWrap, Zenon
    <3> QED
      BY <1>3, <3>1, <3>2 DEF Drained, HasAvail
  <2> QED
    BY <1>3, <1>b, <2>1 DEF Drained
<1>4. CASE Dataplane /\ ~Drained
  BY <1>4, <1>a
  DEF Dataplane, OpenImage, OpenFails, WakeUp, NextAvail, DoRequest, ShortChain, BadHeader,
      AddUsedElem, AddUsedIdx, SetIrqStatus, Inject
<1>5. CASE UNCHANGED vars
  BY <1>a, <1>5 DEF vars
<1> QED
  BY <1>1, <1>2, <1>3, <1>4, <1>5 DEF Next

\* The set of announced completions grows only under dp = "idx", which goes on to
\* "status", and the handler looks at the used ring after it has acknowledged.
LEMMA IrqNext == IInv /\ [Next]_vars => IrqChain'
<1> SUFFICES ASSUME IInv, [Next]_vars PROVE IrqChain'
  OBVIOUS
<1>a. TypeOK /\ Order /\ Counting /\ Distinct /\ IrqChain
  BY DEF IInv
<1>b. /\ used_mem \in Nat /\ used_idx \in Nat /\ last_used \in Nat
      /\ used_mem = used_idx /\ last_used <= used_idx
      /\ used_ring \in [Slots -> Heads] /\ desc \in [Heads -> Requests \cup {NoRequest}]
      /\ irq_status \in {0, 1}
  BY <1>a DEF TypeOK, Order
<1>c. \A n \in Nat : Slot(n) \in Slots
  BY SlotIsMod
<1>d. \A n \in UsedWindow : n \in Nat
  BY <1>b DEF UsedWindow
<1> USE DEF guestMem, blkState
<1>1. CASE SetUp \/ Publish \/ Notify
  BY <1>a, <1>1 DEF SetUp, Publish, Notify, IrqChain, Unseen, UsedWindow
<1>2. ASSUME NEW h \in Heads, NEW r \in Requests, Fill(h, r) PROVE IrqChain'
  <2>1. \A n \in UsedWindow : desc'[used_ring[Slot(n)]] = desc[used_ring[Slot(n)]]
    BY <1>2, <1>a, <1>b, <1>c, <1>d DEF Fill, Distinct
  <2>2. Unseen' => Unseen
    BY <1>2, <2>1 DEF Fill, Unseen, UsedWindow
  <2> QED
    BY <1>2, <1>a, <2>2 DEF Fill, IrqChain
<1>3. CASE TakeIrq \/ ReadIrqStatus \/ AckIrq
  <2>1. Unseen' => Unseen
    BY <1>3 DEF TakeIrq, ReadIrqStatus, AckIrq, Unseen, UsedWindow
  <2> QED
    BY <1>a, <1>b, <1>3, <2>1 DEF TakeIrq, ReadIrqStatus, AckIrq, IrqChain
<1>4. CASE Collect
  BY <1>a, <1>4 DEF Collect, IrqChain
<1>5. CASE LeaveIsr
  <2>1. used_mem <= last_used + QueueSize
    <3>1. avail_idx + Filled <= last_used + QueueSize /\ Filled \in {0, 1}
      BY <1>a, Span
    <3> QED
      BY <1>a, <1>b, <3>1, QueueAssumption DEF Order, TypeOK
  <2>2. last_used = used_mem
    BY <1>5, <1>b, <2>1, WindowWrap DEF LeaveIsr
  <2>3. ~Unseen'
    BY <1>5, <1>b, <2>2 DEF LeaveIsr, Unseen, UsedWindow
  <2> QED
    BY <1>5, <1>a, <2>3 DEF LeaveIsr, IrqChain
<1>6. CASE \/ OpenImage \/ OpenFails \/ WakeUp \/ NextAvail \/ Drained \/ DoRequest
           \/ ShortChain \/ BadHeader
  <2>1. Unseen' => Unseen
    BY <1>6
    DEF OpenImage, OpenFails, WakeUp, NextAvail, Drained, DoRequest, ShortChain, BadHeader,
        Unseen, UsedWindow
  <2> QED
    BY <1>6, <1>a, <2>1
    DEF OpenImage, OpenFails, WakeUp, NextAvail, Drained, DoRequest, ShortChain, BadHeader,
        IrqChain
<1>7. CASE AddUsedElem
  <2>1. used_idx < last_used + QueueSize
    <3>1. avail_idx + Filled <= last_used + QueueSize /\ Filled \in {0, 1}
      BY <1>a, Span
    <3> QED
      BY <1>7, <1>a, <1>b, <3>1, QueueAssumption DEF AddUsedElem, Order, TypeOK, Busy
  <2>2. \A n \in UsedWindow : Slot(n) # Slot(used_idx)
    BY <1>b, <1>d, <2>1, WindowSlots, QueueAssumption DEF UsedWindow
  <2>3. \A n \in UsedWindow : used_ring'[Slot(n)] = used_ring[Slot(n)]
    BY <1>7, <1>b, <1>c, <1>d, <2>2 DEF AddUsedElem
  <2>4. Unseen' => Unseen
    BY <1>7, <2>3 DEF AddUsedElem, Unseen, UsedWindow
  <2> QED
    BY <1>7, <1>a, <2>4 DEF AddUsedElem, IrqChain
<1>8. CASE AddUsedIdx
  <2>1. \A n \in UsedWindow' : n = used_idx \/ n \in UsedWindow
    BY <1>8, <1>b DEF AddUsedIdx, UsedWindow
  <2>2. used_ring[Slot(used_idx)] = head
    BY <1>8, <1>a DEF AddUsedIdx, Distinct
  <2>3. Unseen' => Unseen \/ dp' = "status"
    BY <1>8, <2>1, <2>2 DEF AddUsedIdx, Unseen
  <2> QED
    BY <1>8, <1>a, <2>3 DEF AddUsedIdx, IrqChain
<1>9. CASE SetIrqStatus \/ Inject
  <2>1. Unseen' => Unseen
    BY <1>9 DEF SetIrqStatus, Inject, Unseen, UsedWindow
  <2> QED
    BY <1>9, <1>a, <2>1 DEF SetIrqStatus, Inject, IrqChain
<1>10. CASE UNCHANGED vars
  BY <1>a, <1>10 DEF vars, IrqChain, Unseen, UsedWindow
<1> QED
  BY <1>1, <1>2, <1>3, <1>4, <1>5, <1>6, <1>7, <1>8, <1>9, <1>10
     DEF Next, Driver, Isr, Dataplane

-----------------------------------------------------------------------------
(***************************************************************************)
(* Theorems.                                                               *)
(***************************************************************************)

\* The inductive invariant holds in every reachable state.
THEOREM Invariance == Spec => []IInv
<1>1. IInv /\ [Next]_vars => IInv'
  BY TypeNext, OrderNext, DistinctNext, KickNext, IrqNext DEF IInv
<1> QED
  BY <1>1, InitIInv, PTL DEF Spec

\* The queue, the device state and both threads keep their types.
THEOREM TypeCorrect == Spec => []TypeOK
<1>1. IInv => TypeOK
  BY DEF IInv
<1> QED
  BY <1>1, Invariance, PTL

\* For every queue size: a QUEUE_NOTIFY is never lost while the dataplane goes to
\* sleep on its eventfd.
THEOREM KickNeverLost == Spec => []NoLostKick
<1>1. IInv => NoLostKick
  BY DEF IInv
<1> QED
  BY <1>1, Invariance, PTL

\* For every queue size and every set of requests: no completion that the device
\* announces stays behind without an interrupt.
THEOREM IrqNeverLost == Spec => []NoLostIrq
<1>1. IInv => NoLostIrq
  BY DEF IInv, IrqChain, Unseen, NoLostIrq
<1> QED
  BY <1>1, Invariance, PTL

\* For every queue size and index range it divides: next_avail, add_used and the
\* driver never disagree about who owns a descriptor, wrap-around included.
THEOREM OwnershipKept == Spec => []Ownership
<1>1. IInv => Ownership
  <2> SUFFICES ASSUME IInv PROVE Ownership
    OBVIOUS
  <2>a. TypeOK /\ Order /\ Distinct
    BY DEF IInv
  <2>b. /\ avail_idx \in Nat /\ last_avail_idx \in Nat /\ last_avail_idx <= avail_idx
        /\ Filled \in {0, 1}
    BY <2>a DEF TypeOK, Order, Filled
  <2>1. \A n \in AvailWindow : n \in PostedWindow
    BY <2>b DEF AvailWindow, PostedWindow
  <2>2. drv = "filled" => avail_idx \in PostedWindow /\ avail_idx \notin AvailWindow
    BY <2>b DEF AvailWindow, PostedWindow, Filled
  <2>3. \A x \in Posted : \E n \in PostedWindow : n # avail_idx /\ x = avail_ring[Slot(n)]
    BY <2>b, <2>1 DEF Posted, AvailWindow
  <2>4. \A x \in Submitting : avail_idx \in PostedWindow /\ x = avail_ring[Slot(avail_idx)]
    BY <2>2 DEF Submitting
  <2>5. \A x \in Completed : \E n \in UsedWindow : x = used_ring[Slot(n)]
    BY DEF Completed
  <2>6. \A x \in InDevice : Busy /\ x = head
    BY DEF InDevice, Busy
  <2>7. free \cap (Submitting \cup Posted \cup InDevice \cup Completed) = {}
    BY <2>a, <2>3, <2>4, <2>5, <2>6 DEF Distinct
  <2>8. Submitting \cap (Posted \cup InDevice \cup Completed) = {}
    BY <2>a, <2>3, <2>4, <2>5, <2>6 DEF Distinct
  <2>9. Posted \cap (InDevice \cup Completed) = {} /\ InDevice \cap Completed = {}
    BY <2>a, <2>3, <2>5, <2>6 DEF Distinct
  <2> QED
    BY <2>a, <2>1, <2>7, <2>8, <2>9 DEF Ownership, Distinct
<1> QED
  BY <1>1, Invariance, PTL

=============================================================================

-------------------------- MODULE VirtioNetProofs ---------------------------
(***************************************************************************)
(* Proofs about VirtioNet for any set of descriptor chains, any layout of  *)
(* the receive chains and any number of frames: types, chains with one     *)
(* owner, no lost receive interrupt, and both directions as lossy FIFOs.   *)
(***************************************************************************)
EXTENDS VirtioNet, SequenceTheorems, TLAPS

-----------------------------------------------------------------------------
(***************************************************************************)
(* Rings: sequences of heads without repetition.                           *)
(***************************************************************************)

\* A head appended to a ring it is not in.
LEMMA RingAppend ==
  ASSUME NEW S, NEW s \in Seq(S), NEW h \in S
  PROVE  /\ Append(s, h) \in Seq(S)
         /\ ToSet(Append(s, h)) = ToSet(s) \cup {h}
         /\ IsInjective(s) /\ h \notin ToSet(s) => IsInjective(Append(s, h))
<1> DEFINE t == Append(s, h)
<1>1. /\ t \in Seq(S) /\ Len(t) = Len(s) + 1 /\ Len(s) \in Nat
      /\ DOMAIN t = 1 .. Len(s) + 1 /\ DOMAIN s = 1 .. Len(s)
      /\ t[Len(s) + 1] = h
      /\ \A i \in 1 .. Len(s) : t[i] = s[i]
  OBVIOUS
<1> HIDE DEF t
<1>2. ToSet(t) = ToSet(s) \cup {h}
  <2>1. ASSUME NEW x \in ToSet(t) PROVE x \in ToSet(s) \cup {h}
    BY <1>1, <2>1 DEF ToSet
  <2>2. ASSUME NEW x \in ToSet(s) PROVE x \in ToSet(t)
    BY <1>1, <2>2 DEF ToSet
  <2>3. h \in ToSet(t)
    BY <1>1 DEF ToSet
  <2> QED
    BY <2>1, <2>2, <2>3
<1>3. ASSUME IsInjective(s), h \notin ToSet(s) PROVE IsInjective(t)
  <2> SUFFICES ASSUME NEW i \in 1 .. Len(s) + 1, NEW j \in 1 .. Len(s) + 1, t[i] = t[j]
               PROVE  i = j
    BY <1>1 DEF IsInjective
  <2>1. \A k \in 1 .. Len(s) : t[k] # h
    BY <1>1, <1>3 DEF ToSet
  <2> QED
    BY <1>1, <1>3, <2>1 DEF IsInjective
<1> QED
  BY <1>1, <1>2, <1>3 DEF t

\* The first head taken off a ring.
LEMMA RingTail ==
  ASSUME NEW S, NEW s \in Seq(S), s # <<>>
  PROVE  /\ Tail(s) \in Seq(S)
         /\ Head(s) \in S /\ Head(s) \in ToSet(s)
         /\ IsInjective(s) => IsInjective(Tail(s)) /\ ToSet(Tail(s)) = ToSet(s) \ {Head(s)}
<1> DEFINE t == Tail(s)
<1>1. /\ t \in Seq(S) /\ Len(t) = Len(s) - 1 /\ Len(s) \in Nat \ {0}
      /\ DOMAIN t = 1 .. Len(s) - 1 /\ DOMAIN s = 1 .. Len(s)
      /\ Head(s) = s[1] /\ Head(s) \in S
      /\ \A i \in 1 .. Len(s) - 1 : t[i] = s[i + 1]
  OBVIOUS
<1> HIDE DEF t
<1>2. \A i \in 2 .. Len(s) : i - 1 \in 1 .. Len(s) - 1 /\ t[i - 1] = s[i]
  BY <1>1
<1>3. Head(s) \in ToSet(s)
  BY <1>1 DEF ToSet
<1>4. ASSUME IsInjective(s) PROVE IsInjective(t) /\ ToSet(t) = ToSet(s) \ {Head(s)}
  <2>a. \A i, j \in 1 .. Len(s) : s[i] = s[j] => i = j
    BY <1>1, <1>4 DEF IsInjective
  <2>b. \A i, j \in 1 .. Len(s) - 1 : t[i] = t[j] => i = j
    <3>1. ASSUME NEW i \in 1 .. Len(s) - 1, NEW j \in 1 .. Len(s) - 1, t[i] = t[j]
          PROVE  i = j
      <4>1. i + 1 \in 1 .. Len(s) /\ j + 1 \in 1 .. Len(s) /\ s[i + 1] = s[j + 1]
        BY <1>1, <3>1
      <4> QED
        BY <2>a, <4>1
    <3> QED
      BY <3>1
  <2>1. IsInjective(t)
    BY <1>1, <2>b DEF IsInjective
  <2>2. ASSUME NEW x \in ToSet(t) PROVE x \in ToSet(s) /\ x # Head(s)
    <3>1. PICK i \in 1 .. Len(s) - 1 : x = t[i]
      BY <1>1, <2>2 DEF ToSet
    <3>2. i + 1 \in 1 .. Len(s) /\ i + 1 # 1 /\ x = s[i + 1] /\ 1 \in 1 .. Len(s)
      BY <1>1, <3>1
    <3> QED
      BY <1>4, <3>2 DEF ToSet, IsInjective
  <2>3. ASSUME NEW x \in ToSet(s), x # Head(s) PROVE x \in ToSet(t)
    <3>1. PICK i \in 1 .. Len(s) : x = s[i]
      BY <1>1, <2>3 DEF ToSet
    <3>2. i \in 2 .. Len(s)
      BY <1>1, <2>3, <3>1
    <3> QED
      BY <1>1, <1>2, <3>1, <3>2 DEF ToSet
  <2> QED
    BY <2>1, <2>2, <2>3
<1> QED
  BY <1>1, <1>3, <1>4 DEF t

\* A ring with nothing in it.
LEMMA RingEmpty == ToSet(<<>>) = {} /\ IsInjective(<<>>)
  BY DEF ToSet, IsInjective

\* The heads of a ring.
LEMMA RingRange ==
  ASSUME NEW S, NEW s \in Seq(S)
  PROVE  ToSet(s) \subseteq S /\ \A i \in DOMAIN s : s[i] \in ToSet(s)
  BY DEF ToSet
-----------------------------------------------------------------------------
(***************************************************************************)
(* Ownership: the chains of a queue are free, in the avail ring, in the    *)
(* used ring or in the dataplane's hand, and the moves between those.      *)
(***************************************************************************)

Queues == {"rx", "tx"}
HeadsOf(q) == IF q = "rx" THEN RxHeads ELSE TxHeads
Lost(q) == IF q = "rx" THEN {h \in RxHeads : Layout[h] = "unusable"} ELSE {}

\* What OneOwner says of one queue, as a relation between the four places.
Owned(q, f, a, u, m) ==
  /\ IsInjective(a) /\ IsInjective(u)
  /\ f \cap (ToSet(a) \cup ToSet(u) \cup m) = {}
  /\ ToSet(a) \cap (ToSet(u) \cup m) = {}
  /\ ToSet(u) \cap m = {}
  /\ HeadsOf(q) \ Lost(q) \subseteq f \cup ToSet(a) \cup ToSet(u) \cup m

\* Heads stay with their queue, and the dataplane holds one only between taking it and
\* returning it.
RingsOfQueue ==
  \A q \in Queues :
    avail[q] \in Seq(HeadsOf(q)) /\ used[q] \in Seq(HeadsOf(q)) /\ free[q] \subseteq HeadsOf(q)

HandTyped ==
  /\ dp = "txUsed" => head \in TxHeads
  /\ dp = "rxUsed" => head \in RxHeads
  /\ dp \notin {"txUsed", "rxUsed"} => head = NoHead

Ownership == \A q \in Queues : Owned(q, free[q], avail[q], used[q], InHand(q))

\* Ownership is OneOwner, written with the four places as parameters.
LEMMA OwnershipIsOneOwner == Ownership <=> OneOwner
BY DEF Ownership, OneOwner, Owned, HeadsOf, Lost, Queues

\* The driver posts a free chain.
LEMMA MovePost ==
  ASSUME NEW q \in Queues, NEW f, NEW a \in Seq(HeadsOf(q)), NEW u, NEW m,
         Owned(q, f, a, u, m), NEW h \in f \cap HeadsOf(q)
  PROVE  Owned(q, f \ {h}, Append(a, h), u, m)
BY RingAppend DEF Owned

\* The dataplane takes the oldest chain, and keeps it or loses it.
LEMMA MoveTake ==
  ASSUME NEW q \in Queues, NEW f, NEW a \in Seq(HeadsOf(q)), NEW u,
         Owned(q, f, a, u, {}), a # <<>>
  PROVE  /\ Owned(q, f, Tail(a), u, {Head(a)})
         /\ Head(a) \in Lost(q) => Owned(q, f, Tail(a), u, {})
BY RingTail DEF Owned

\* add_used returns the chain in hand.
LEMMA MoveReturn ==
  ASSUME NEW q \in Queues, NEW f, NEW a, NEW u \in Seq(HeadsOf(q)), NEW h \in HeadsOf(q),
         Owned(q, f, a, u, {h})
  PROVE  Owned(q, f, a, Append(u, h), {})
BY RingAppend DEF Owned

\* The driver collects the oldest used chain,
LEMMA MoveCollect ==
  ASSUME NEW q \in Queues, NEW f, NEW a, NEW u \in Seq(HeadsOf(q)), NEW m,
         Owned(q, f, a, u, m), u # <<>>
  PROVE  Owned(q, f \cup {Head(u)}, a, Tail(u), m)
BY RingTail DEF Owned

\* or all of them.
LEMMA MoveReclaim ==
  ASSUME NEW q \in Queues, NEW f, NEW a, NEW u, NEW m, Owned(q, f, a, u, m)
  PROVE  Owned(q, f \cup ToSet(u), a, <<>>, m)
BY RingEmpty DEF Owned
-----------------------------------------------------------------------------
(***************************************************************************)
(* The inductive invariant.                                                *)
(***************************************************************************)

\* rx_buf holds a frame from recv until add_used, and by then the chain in hand holds it.
FrameHeld ==
  /\ frame # 0 <=> dp \in {"rxLock", "rxUsed"}
  /\ \A i \in DOMAIN tapIn : tapIn[i] # 0
  /\ dp = "rxUsed" => buffer[head].message = frame

IInv == TypeOK /\ RingsOfQueue /\ HandTyped /\ FrameHeld /\ Ownership /\ NoLostRxIrq

\* One ring of a pair is changed.
LEMMA RingUpdate ==
  ASSUME NEW x \in [Queues -> Seq(Heads)], \A r \in Queues : x[r] \in Seq(HeadsOf(r)),
         NEW q \in Queues, NEW a \in Seq(HeadsOf(q)), NEW y, y = [x EXCEPT ![q] = a]
  PROVE  /\ y \in [Queues -> Seq(Heads)]
         /\ \A r \in Queues : y[r] \in Seq(HeadsOf(r)) /\ y[r] = IF r = q THEN a ELSE x[r]
<1>1. a \in Seq(Heads)
  BY DEF HeadsOf, Heads
<1> QED
  BY <1>1

\* The places of the chains have their types.
LEMMA PlacesTyped ==
  ASSUME TypeOK, RingsOfQueue, HandTyped
  PROVE  /\ avail \in [Queues -> Seq(Heads)] /\ used \in [Queues -> Seq(Heads)]
         /\ \A q \in Queues : avail[q] \in Seq(HeadsOf(q)) /\ used[q] \in Seq(HeadsOf(q))
         /\ free \in [Queues -> SUBSET Heads] /\ \A q \in Queues : free[q] \subseteq HeadsOf(q)
         /\ dp = "txUsed" => InHand("tx") = {head} /\ InHand("rx") = {}
         /\ dp = "rxUsed" => InHand("rx") = {head} /\ InHand("tx") = {}
         /\ dp \notin {"txUsed", "rxUsed"} => \A q \in Queues : InHand(q) = {}
BY NetAssumption DEF TypeOK, RingsOfQueue, HandTyped, Queues, InHand, Heads

\* Every step keeps types, rings and hands.
LEMMA NextTyped ==
  TypeOK /\ RingsOfQueue /\ HandTyped /\ [Next]_vars => (TypeOK /\ RingsOfQueue /\ HandTyped)'
<1> SUFFICES ASSUME TypeOK, RingsOfQueue, HandTyped, [Next]_vars
             PROVE  (TypeOK /\ RingsOfQueue /\ HandTyped)'
  OBVIOUS
<1>p. /\ avail \in [Queues -> Seq(Heads)] /\ used \in [Queues -> Seq(Heads)]
      /\ \A q \in Queues : avail[q] \in Seq(HeadsOf(q)) /\ used[q] \in Seq(HeadsOf(q))
      /\ free \in [Queues -> SUBSET Heads] /\ \A q \in Queues : free[q] \subseteq HeadsOf(q)
  BY PlacesTyped
<1>1. CASE FrameArrives
  <2>1. TypeOK'
    BY <1>1 DEF FrameArrives, TypeOK, driver
  <2>2. RingsOfQueue'
    BY <1>1 DEF FrameArrives, RingsOfQueue, driver
  <2>3. HandTyped'
    BY <1>1 DEF FrameArrives, HandTyped
  <2> QED
    BY <2>1, <2>2, <2>3
<1>2. ASSUME NEW h \in RxHeads, PostRx(h) PROVE (TypeOK /\ RingsOfQueue /\ HandTyped)'
  <2>1. buffer' \in [Heads -> Buffer]
    BY <1>2 DEF PostRx, TypeOK, NoFrame, Buffer, KindType
  <2>2. RingsOfQueue'
    BY <1>2 DEF PostRx, RingsOfQueue
  <2>3. TypeOK'
    BY <1>2, <2>1 DEF PostRx, TypeOK, tap
  <2>4. HandTyped'
    BY <1>2 DEF PostRx, HandTyped
  <2> QED
    BY <2>3, <2>2, <2>4
<1>3. ASSUME NEW h \in TxHeads, NEW k \in TxKinds, Xmit(h, k)
      PROVE  (TypeOK /\ RingsOfQueue /\ HandTyped)'
  <2>1. h \in free["tx"] \cup ToSet(used["tx"]) /\ h \in HeadsOf("tx")
    BY <1>3 DEF Xmit, HeadsOf
  <2>2. /\ avail' = [avail EXCEPT !["tx"] = Append(avail["tx"], h)]
        /\ Append(avail["tx"], h) \in Seq(HeadsOf("tx"))
    BY <1>3, <1>p, <2>1 DEF Xmit, Queues
  <2>3. avail' \in [Queues -> Seq(Heads)] /\ \A q \in Queues : avail'[q] \in Seq(HeadsOf(q))
    BY <1>p, <2>2, RingUpdate DEF Queues
  <2>4. used' \in [Queues -> Seq(Heads)] /\ \A q \in Queues : used'[q] \in Seq(HeadsOf(q))
    BY <1>3, <1>p DEF Xmit, Queues
  <2>5. ToSet(used["tx"]) \subseteq HeadsOf("tx") /\ HeadsOf("tx") \subseteq Heads
    BY <1>p, RingRange DEF Queues, HeadsOf, Heads
  <2>6. free' \in [Queues -> SUBSET Heads] /\ \A q \in Queues : free'[q] \subseteq HeadsOf(q)
    BY <1>3, <1>p, <2>5 DEF Xmit
  <2>7. posted' \in Nat /\ stopped' \in BOOLEAN
    BY <1>3 DEF Xmit, TypeOK
  <2>8. buffer' \in [Heads -> Buffer]
    BY <1>3, <2>7, NetAssumption DEF Xmit, TypeOK, Buffer
  <2>9. RingsOfQueue'
    BY <2>3, <2>4, <2>6 DEF RingsOfQueue
  <2>10. TypeOK'
    BY <1>3, <2>6, <2>8 DEF Xmit, TypeOK, tap
  <2>11. HandTyped'
    BY <1>3 DEF Xmit, HandTyped
  <2> QED
    BY <2>10, <2>9, <2>11
<1>4. CASE IsrStart
  <2>1. TypeOK'
    BY <1>4 DEF IsrStart, TypeOK, tap
  <2>2. RingsOfQueue'
    BY <1>4 DEF IsrStart, RingsOfQueue
  <2>3. HandTyped'
    BY <1>4 DEF IsrStart, HandTyped
  <2> QED
    BY <2>1, <2>2, <2>3
<1>5. CASE IsrRead
  <2>1. TypeOK'
    BY <1>5 DEF IsrRead, TypeOK, tap
  <2>2. RingsOfQueue'
    BY <1>5 DEF IsrRead, RingsOfQueue
  <2>3. HandTyped'
    BY <1>5 DEF IsrRead, HandTyped
  <2> QED
    BY <2>1, <2>2, <2>3
<1>6. CASE IsrAck
  <2>1. TypeOK'
    BY <1>6 DEF IsrAck, TypeOK, tap
  <2>2. RingsOfQueue'
    BY <1>6 DEF IsrAck, RingsOfQueue
  <2>3. HandTyped'
    BY <1>6 DEF IsrAck, HandTyped
  <2> QED
    BY <2>1, <2>2, <2>3
<1>7. CASE CollectRx
  <2>1. received' \in Seq([message: Nat, whole: BOOLEAN])
    BY <1>7 DEF CollectRx, TypeOK, Buffer
  <2>2. RingsOfQueue'
    BY <1>7 DEF CollectRx, RingsOfQueue
  <2>3. TypeOK'
    BY <1>7, <2>1 DEF CollectRx, TypeOK, tap
  <2>4. HandTyped'
    BY <1>7 DEF CollectRx, HandTyped
  <2> QED
    BY <2>3, <2>2, <2>4
<1>8. CASE CollectTx
  <2>1. used' \in [Queues -> Seq(Heads)] /\ \A q \in Queues : used'[q] \in Seq(HeadsOf(q))
    BY <1>8, <1>p DEF CollectTx, Queues
  <2>2. ToSet(used["tx"]) \subseteq HeadsOf("tx") /\ HeadsOf("tx") \subseteq Heads
    BY <1>p, RingRange DEF Queues, HeadsOf, Heads
  <2>3. free' \in [Queues -> SUBSET Heads] /\ \A q \in Queues : free'[q] \subseteq HeadsOf(q)
    BY <1>8, <1>p, <2>2 DEF CollectTx
  <2>4. RingsOfQueue'
    BY <1>8, <2>3 DEF CollectTx, RingsOfQueue
  <2>5. TypeOK'
    BY <1>8, <2>1, <2>3 DEF CollectTx, TypeOK, tap
  <2>6. HandTyped'
    BY <1>8 DEF CollectTx, HandTyped
  <2> QED
    BY <2>5, <2>4, <2>6
<1>9. CASE IsrDone
  <2>1. TypeOK'
    BY <1>9 DEF IsrDone, TypeOK, tap
  <2>2. RingsOfQueue'
    BY <1>9 DEF IsrDone, RingsOfQueue
  <2>3. HandTyped'
    BY <1>9 DEF IsrDone, HandTyped
  <2> QED
    BY <2>1, <2>2, <2>3
<1>10. CASE TxTake
  <2>1. /\ avail' = [avail EXCEPT !["tx"] = Tail(avail["tx"])]
        /\ Tail(avail["tx"]) \in Seq(HeadsOf("tx"))
        /\ head' = Head(avail["tx"]) /\ head' \in TxHeads
    BY <1>10, <1>p DEF TxTake, Queues, HeadsOf
  <2>2. buffer[head'] \in Buffer
    BY <2>1 DEF TypeOK, Heads
  <2>3. tapOut' \in Seq([message: Nat, whole: BOOLEAN])
    <3> DEFINE M == [message: Nat, whole: BOOLEAN]
    <3>1. PICK m \in M : tapOut' = tapOut \/ tapOut' = Append(tapOut, m)
      <4>1. PICK w \in BOOLEAN : w = (buffer[head'].kind = "whole")
        OBVIOUS
      <4>2. \/ tapOut' = tapOut
            \/ tapOut' = Append(tapOut, [message |-> buffer[head'].message, whole |-> w])
        BY <1>10, <4>1 DEF TxTake
      <4>3. [message |-> buffer[head'].message, whole |-> w] \in M
        BY <2>2 DEF Buffer
      <4> QED
        BY <4>2, <4>3
    <3>2. tapOut \in Seq(M)
      BY DEF TypeOK
    <3> HIDE DEF M
    <3>3. tapOut' \in Seq(M)
      BY <3>1, <3>2
    <3> QED
      BY <3>3 DEF M
  <2>4. RingsOfQueue'
    BY <1>10 DEF TxTake, RingsOfQueue, driver
  <2>5. TypeOK'
    BY <1>10, <2>3 DEF TxTake, TypeOK, Points, driver
  <2>6. HandTyped'
    BY <1>10, <2>1 DEF TxTake, HandTyped
  <2> QED
    BY <2>5, <2>4, <2>6
<1>11. CASE TxUsed
  <2>1. /\ used' = [used EXCEPT !["tx"] = Append(used["tx"], head)]
        /\ Append(used["tx"], head) \in Seq(HeadsOf("tx"))
    BY <1>11, <1>p DEF TxUsed, Queues, HandTyped, HeadsOf
  <2>2. used' \in [Queues -> Seq(Heads)] /\ \A q \in Queues : used'[q] \in Seq(HeadsOf(q))
    BY <1>p, <2>1, RingUpdate DEF Queues
  <2>3. RingsOfQueue'
    BY <1>11, <2>2 DEF TxUsed, RingsOfQueue, driver
  <2>4. TypeOK'
    BY <1>11, <2>2 DEF TxUsed, TypeOK, Points, driver, tap
  <2>5. HandTyped'
    BY <1>11 DEF TxUsed, HandTyped
  <2> QED
    BY <2>4, <2>3, <2>5
<1>12. CASE TxEmpty
  <2>1. TypeOK'
    BY <1>12 DEF TxEmpty, TypeOK, driver, tap, Points
  <2>2. RingsOfQueue'
    BY <1>12 DEF TxEmpty, RingsOfQueue, driver
  <2>3. HandTyped'
    BY <1>12 DEF TxEmpty, HandTyped
  <2> QED
    BY <2>1, <2>2, <2>3
<1>13. CASE Recv
  <2>1. TypeOK'
    BY <1>13 DEF Recv, TypeOK, driver, Points
  <2>2. RingsOfQueue'
    BY <1>13 DEF Recv, RingsOfQueue, driver
  <2>3. HandTyped'
    BY <1>13 DEF Recv, HandTyped
  <2> QED
    BY <2>1, <2>2, <2>3
<1>14. CASE RecvNothing
  <2>1. TypeOK'
    BY <1>14 DEF RecvNothing, TypeOK, driver, tap, Points
  <2>2. RingsOfQueue'
    BY <1>14 DEF RecvNothing, RingsOfQueue, driver
  <2>3. HandTyped'
    BY <1>14 DEF RecvNothing, HandTyped
  <2> QED
    BY <2>1, <2>2, <2>3
<1>15. CASE RxNoBuffer
  <2>1. TypeOK'
    BY <1>15 DEF RxNoBuffer, TypeOK, driver, tap, Points
  <2>2. RingsOfQueue'
    BY <1>15 DEF RxNoBuffer, RingsOfQueue, driver
  <2>3. HandTyped'
    BY <1>15 DEF RxNoBuffer, HandTyped
  <2> QED
    BY <2>1, <2>2, <2>3
<1>16. CASE RxTake
  <2>1. /\ avail' = [avail EXCEPT !["rx"] = Tail(avail["rx"])]
        /\ Tail(avail["rx"]) \in Seq(HeadsOf("rx")) /\ Head(avail["rx"]) \in RxHeads
    BY <1>16, <1>p DEF RxTake, Queues, HeadsOf
  <2>2. buffer' \in [Heads -> Buffer]
    <3>1. PICK h \in Heads, w \in BOOLEAN :
            \/ buffer' = buffer
            \/ buffer' = [buffer EXCEPT ![h].message = frame, ![h].whole = w]
      BY <1>16, <2>1 DEF RxTake, Heads
    <3>2. buffer[h] \in Buffer
      BY DEF TypeOK
    <3>3. [[buffer[h] EXCEPT !.message = frame] EXCEPT !.whole = w] \in Buffer
      BY <3>2 DEF Buffer, TypeOK
    <3> QED
      BY <3>1, <3>3 DEF TypeOK
  <2>3. RingsOfQueue'
    BY <1>16 DEF RxTake, RingsOfQueue, driver
  <2>4. dp' \in Points /\ head' \in Heads \cup {NoHead} /\ frame' \in Nat
    BY <1>16 DEF RxTake, TypeOK, Points
  <2>5. TypeOK'
    BY <1>16, <2>2, <2>4 DEF RxTake, TypeOK, driver, tap
  <2>6. HandTyped'
    BY <1>16, <2>1 DEF RxTake, HandTyped
  <2> QED
    BY <2>5, <2>3, <2>6
<1>17. CASE RxUsed
  <2>1. /\ used' = [used EXCEPT !["rx"] = Append(used["rx"], head)]
        /\ Append(used["rx"], head) \in Seq(HeadsOf("rx"))
    BY <1>17, <1>p DEF RxUsed, Queues, HandTyped, HeadsOf
  <2>2. used' \in [Queues -> Seq(Heads)] /\ \A q \in Queues : used'[q] \in Seq(HeadsOf(q))
    BY <1>p, <2>1, RingUpdate DEF Queues
  <2>3. RingsOfQueue'
    BY <1>17, <2>2 DEF RxUsed, RingsOfQueue, driver
  <2>4. TypeOK'
    BY <1>17, <2>2 DEF RxUsed, TypeOK, Points, driver, tap
  <2>5. HandTyped'
    BY <1>17 DEF RxUsed, HandTyped
  <2> QED
    BY <2>4, <2>3, <2>5
<1>18. CASE RxStatus
  <2>1. TypeOK'
    BY <1>18 DEF RxStatus, TypeOK, driver, tap, Points
  <2>2. RingsOfQueue'
    BY <1>18 DEF RxStatus, RingsOfQueue, driver
  <2>3. HandTyped'
    BY <1>18 DEF RxStatus, HandTyped
  <2> QED
    BY <2>1, <2>2, <2>3
<1>19. CASE RxIrq
  <2>1. TypeOK'
    BY <1>19 DEF RxIrq, TypeOK, driver, tap, Points
  <2>2. RingsOfQueue'
    BY <1>19 DEF RxIrq, RingsOfQueue, driver
  <2>3. HandTyped'
    BY <1>19 DEF RxIrq, HandTyped
  <2> QED
    BY <2>1, <2>2, <2>3
<1>20. CASE UNCHANGED vars
  BY <1>20 DEF vars, TypeOK, RingsOfQueue, HandTyped
<1> QED
  BY <1>1, <1>2, <1>3, <1>4, <1>5, <1>6, <1>7, <1>8, <1>9, <1>10, <1>11, <1>12, <1>13, <1>14,
     <1>15, <1>16, <1>17, <1>18, <1>19, <1>20
  DEF Next, Interrupt, Dataplane

\* Every step keeps the interrupt of a received frame.
LEMMA NextNoLostRxIrq == TypeOK /\ NoLostRxIrq /\ [Next]_vars => NoLostRxIrq'
<1> SUFFICES ASSUME TypeOK, NoLostRxIrq, [Next]_vars PROVE NoLostRxIrq'
  OBVIOUS
<1> USE DEF TypeOK, driver, tap, MutexFree, Locked
<1>1. CASE FrameArrives
  BY <1>1 DEF FrameArrives, NoLostRxIrq
<1>2. ASSUME NEW h \in RxHeads, PostRx(h) PROVE NoLostRxIrq'
  BY <1>2 DEF PostRx, NoLostRxIrq
<1>3. ASSUME NEW h \in TxHeads, NEW k \in TxKinds, Xmit(h, k) PROVE NoLostRxIrq'
  BY <1>3 DEF Xmit, NoLostRxIrq
<1>4. CASE IsrStart
  BY <1>4 DEF IsrStart, NoLostRxIrq
<1>5. CASE IsrRead
  BY <1>5 DEF IsrRead, NoLostRxIrq
<1>6. CASE IsrAck
  BY <1>6 DEF IsrAck, NoLostRxIrq
<1>7. CASE CollectRx
  BY <1>7 DEF CollectRx, NoLostRxIrq
<1>8. CASE CollectTx
  BY <1>8 DEF CollectTx, NoLostRxIrq
<1>9. CASE IsrDone
  BY <1>9 DEF IsrDone, NoLostRxIrq
<1>10. CASE TxTake
  BY <1>10 DEF TxTake, NoLostRxIrq
<1>11. CASE TxUsed
  BY <1>11 DEF TxUsed, NoLostRxIrq
<1>12. CASE TxEmpty
  BY <1>12 DEF TxEmpty, NoLostRxIrq
<1>13. CASE Recv
  BY <1>13 DEF Recv, NoLostRxIrq
<1>14. CASE RecvNothing
  BY <1>14 DEF RecvNothing, NoLostRxIrq
<1>15. CASE RxNoBuffer
  BY <1>15 DEF RxNoBuffer, NoLostRxIrq
<1>16. CASE RxTake
  BY <1>16 DEF RxTake, NoLostRxIrq
<1>17. CASE RxUsed
  BY <1>17 DEF RxUsed, NoLostRxIrq
<1>18. CASE RxStatus
  BY <1>18 DEF RxStatus, NoLostRxIrq
<1>19. CASE RxIrq
  BY <1>19 DEF RxIrq, NoLostRxIrq
<1>20. CASE UNCHANGED vars
  BY <1>20 DEF vars, NoLostRxIrq
<1> QED
  BY <1>1, <1>2, <1>3, <1>4, <1>5, <1>6, <1>7, <1>8, <1>9, <1>10, <1>11, <1>12, <1>13, <1>14,
     <1>15, <1>16, <1>17, <1>18, <1>19, <1>20
  DEF Next, Interrupt, Dataplane

\* Every step moves at most one kind of chain from one place to another.
LEMMA NextOwnership == TypeOK /\ RingsOfQueue /\ HandTyped /\ Ownership /\ [Next]_vars => Ownership'
<1> SUFFICES ASSUME TypeOK, RingsOfQueue, HandTyped, Ownership, [Next]_vars PROVE Ownership'
  OBVIOUS
<1>p. /\ avail \in [Queues -> Seq(Heads)] /\ used \in [Queues -> Seq(Heads)]
      /\ \A q \in Queues : avail[q] \in Seq(HeadsOf(q)) /\ used[q] \in Seq(HeadsOf(q))
      /\ free \in [Queues -> SUBSET Heads] /\ \A q \in Queues : free[q] \subseteq HeadsOf(q)
      /\ dp = "txUsed" => InHand("tx") = {head} /\ InHand("rx") = {}
      /\ dp = "rxUsed" => InHand("rx") = {head} /\ InHand("tx") = {}
      /\ dp \notin {"txUsed", "rxUsed"} => \A q \in Queues : InHand(q) = {}
  BY PlacesTyped
<1>1. CASE FrameArrives
  BY <1>1 DEF FrameArrives, Ownership, InHand, driver
<1>2. ASSUME NEW h \in RxHeads, PostRx(h) PROVE Ownership'
  <2>1. h \in free["rx"] \cap HeadsOf("rx")
    BY <1>2 DEF PostRx, HeadsOf
  <2>2. Owned("rx", free["rx"] \ {h}, Append(avail["rx"], h), used["rx"], InHand("rx"))
    BY <1>p, <2>1, MovePost DEF Queues, Ownership
  <2>3. /\ free'["rx"] = free["rx"] \ {h} /\ avail'["rx"] = Append(avail["rx"], h)
        /\ free'["tx"] = free["tx"] /\ avail'["tx"] = avail["tx"] /\ UNCHANGED <<used, head>>
    BY <1>2, <1>p DEF PostRx, Queues
  <2> QED
    BY <2>2, <2>3 DEF Ownership, Queues, InHand
<1>3. ASSUME NEW h \in TxHeads, NEW k \in TxKinds, Xmit(h, k) PROVE Ownership'
  <2> DEFINE reclaimed == free["tx"] \cup ToSet(used["tx"])
  <2>1. h \in reclaimed \cap HeadsOf("tx")
    BY <1>3 DEF Xmit, HeadsOf
  <2>2. Owned("tx", reclaimed, avail["tx"], <<>>, InHand("tx"))
    BY MoveReclaim DEF Queues, Ownership
  <2>3. /\ free'["tx"] = reclaimed \ {h} /\ avail'["tx"] = Append(avail["tx"], h)
        /\ used'["tx"] = <<>> /\ used'["rx"] = used["rx"]
        /\ free'["rx"] = free["rx"] /\ avail'["rx"] = avail["rx"] /\ head' = head
    BY <1>3, <1>p DEF Xmit, Queues
  <2> HIDE DEF reclaimed
  <2>4. Owned("tx", reclaimed \ {h}, Append(avail["tx"], h), <<>>, InHand("tx"))
    BY <1>p, <2>1, <2>2, MovePost DEF Queues
  <2> QED
    BY <2>3, <2>4 DEF Ownership, Queues, InHand
<1>4. CASE IsrStart
  BY <1>4 DEF IsrStart, Ownership, InHand
<1>5. CASE IsrRead
  BY <1>5 DEF IsrRead, Ownership, InHand
<1>6. CASE IsrAck
  BY <1>6 DEF IsrAck, Ownership, InHand
<1>7. CASE CollectRx
  <2>1. Owned("rx", free["rx"] \cup {Head(used["rx"])}, avail["rx"], Tail(used["rx"]), InHand("rx"))
    BY <1>7, <1>p, MoveCollect DEF CollectRx, Queues, Ownership
  <2>2. /\ free'["rx"] = free["rx"] \cup {Head(used["rx"])} /\ used'["rx"] = Tail(used["rx"])
        /\ free'["tx"] = free["tx"] /\ used'["tx"] = used["tx"] /\ UNCHANGED <<avail, head>>
    BY <1>7, <1>p DEF CollectRx, Queues
  <2> QED
    BY <2>1, <2>2 DEF Ownership, Queues, InHand
<1>8. CASE CollectTx
  <2>1. Owned("tx", free["tx"] \cup ToSet(used["tx"]), avail["tx"], <<>>, InHand("tx"))
    BY MoveReclaim DEF Queues, Ownership
  <2>2. /\ free'["tx"] = free["tx"] \cup ToSet(used["tx"]) /\ used'["tx"] = <<>>
        /\ free'["rx"] = free["rx"] /\ used'["rx"] = used["rx"] /\ UNCHANGED <<avail, head>>
    BY <1>8, <1>p DEF CollectTx, Queues
  <2> QED
    BY <2>1, <2>2 DEF Ownership, Queues, InHand
<1>9. CASE IsrDone
  BY <1>9 DEF IsrDone, Ownership, InHand
<1>10. CASE TxTake
  <2>1. Owned("tx", free["tx"], Tail(avail["tx"]), used["tx"], {Head(avail["tx"])})
    <3> QED
      BY <1>10, <1>p, MoveTake DEF TxTake, Queues, Ownership
  <2>2. /\ avail'["tx"] = Tail(avail["tx"]) /\ avail'["rx"] = avail["rx"]
        /\ UNCHANGED <<free, used>>
        /\ head' = Head(avail["tx"])
    BY <1>10, <1>p DEF TxTake, Queues, driver
  <2>3. head' \in TxHeads
    BY <1>10, <1>p DEF TxTake, Queues, HeadsOf
  <2>4. InHand("tx")' = {head'} /\ InHand("rx")' = {} /\ InHand("rx") = {}
    BY <1>10, <1>p, <2>3, NetAssumption DEF TxTake, InHand, Queues
  <2> QED
    BY <2>1, <2>2, <2>4 DEF Ownership, Queues
<1>11. CASE TxUsed
  <2>1. Owned("tx", free["tx"], avail["tx"], Append(used["tx"], head), {})
    BY <1>11, <1>p, MoveReturn DEF TxUsed, Queues, Ownership, HandTyped, HeadsOf
  <2>2. /\ used'["tx"] = Append(used["tx"], head) /\ used'["rx"] = used["rx"]
        /\ UNCHANGED <<free, avail>> /\ head' = NoHead
    BY <1>11, <1>p DEF TxUsed, Queues, driver
  <2>3. InHand("tx")' = {} /\ InHand("rx")' = {} /\ InHand("rx") = {}
    BY <1>11, <1>p, NetAssumption DEF TxUsed, InHand, Heads
  <2> QED
    BY <2>1, <2>2, <2>3 DEF Ownership, Queues
<1>12. CASE TxEmpty
  BY <1>12 DEF TxEmpty, Ownership, InHand, driver
<1>13. CASE Recv
  BY <1>13 DEF Recv, Ownership, InHand, driver
<1>14. CASE RecvNothing
  BY <1>14 DEF RecvNothing, Ownership, InHand, driver
<1>15. CASE RxNoBuffer
  BY <1>15 DEF RxNoBuffer, Ownership, InHand, driver
<1>16. CASE RxTake
  <2>1. InHand("rx") = {} /\ InHand("tx") = {} /\ head = NoHead
    BY <1>16, <1>p DEF RxTake, Queues, HandTyped
  <2>2. /\ Owned("rx", free["rx"], Tail(avail["rx"]), used["rx"], {Head(avail["rx"])})
        /\ Head(avail["rx"]) \in Lost("rx") =>
             Owned("rx", free["rx"], Tail(avail["rx"]), used["rx"], {})
    BY <1>16, <1>p, MoveTake DEF RxTake, Queues, Ownership
  <2>3. /\ avail'["rx"] = Tail(avail["rx"]) /\ avail'["tx"] = avail["tx"]
        /\ UNCHANGED <<free, used>>
    BY <1>16, <1>p DEF RxTake, Queues, driver
  <2>4. Head(avail["rx"]) \in RxHeads
    BY <1>16, <1>p DEF RxTake, Queues, HeadsOf
  <2>5. CASE Layout[Head(avail["rx"])] = "unusable"
    <3>1. Head(avail["rx"]) \in Lost("rx") /\ head' = head
      BY <1>16, <2>4, <2>5 DEF RxTake, Lost
    <3> QED
      BY <2>1, <2>2, <2>3, <3>1 DEF Ownership, Queues, InHand
  <2>6. CASE Layout[Head(avail["rx"])] # "unusable"
    <3>1. head' = Head(avail["rx"])
      BY <1>16, <2>6 DEF RxTake
    <3>2. InHand("rx")' = {head'} /\ InHand("tx")' = {}
      BY <2>4, <3>1, NetAssumption DEF InHand
    <3> QED
      BY <2>1, <2>2, <2>3, <3>1, <3>2 DEF Ownership, Queues
  <2> QED
    BY <2>5, <2>6
<1>17. CASE RxUsed
  <2>1. Owned("rx", free["rx"], avail["rx"], Append(used["rx"], head), {})
    BY <1>17, <1>p, MoveReturn DEF RxUsed, Queues, Ownership, HandTyped, HeadsOf
  <2>2. /\ used'["rx"] = Append(used["rx"], head) /\ used'["tx"] = used["tx"]
        /\ UNCHANGED <<free, avail>> /\ head' = NoHead
    BY <1>17, <1>p DEF RxUsed, Queues, driver
  <2>3. InHand("rx")' = {} /\ InHand("tx")' = {} /\ InHand("tx") = {}
    BY <1>17, <1>p, NetAssumption DEF RxUsed, InHand, Heads
  <2> QED
    BY <2>1, <2>2, <2>3 DEF Ownership, Queues
<1>18. CASE RxStatus
  BY <1>18 DEF RxStatus, Ownership, InHand, driver
<1>19. CASE RxIrq
  BY <1>19 DEF RxIrq, Ownership, InHand, driver
<1>20. CASE UNCHANGED vars
  BY <1>20 DEF vars, Ownership, InHand
<1> QED
  BY <1>1, <1>2, <1>3, <1>4, <1>5, <1>6, <1>7, <1>8, <1>9, <1>10, <1>11, <1>12, <1>13, <1>14,
     <1>15, <1>16, <1>17, <1>18, <1>19, <1>20
  DEF Next, Interrupt, Dataplane

\* Every step keeps the frame in hand in its chain.
LEMMA NextFrameHeld ==
  TypeOK /\ RingsOfQueue /\ HandTyped /\ Ownership /\ FrameHeld /\ [Next]_vars => FrameHeld'
<1> SUFFICES ASSUME TypeOK, RingsOfQueue, HandTyped, Ownership, FrameHeld, [Next]_vars
             PROVE  FrameHeld'
  OBVIOUS
<1>p. /\ avail \in [Queues -> Seq(Heads)] /\ used \in [Queues -> Seq(Heads)]
      /\ \A q \in Queues : avail[q] \in Seq(HeadsOf(q)) /\ used[q] \in Seq(HeadsOf(q))
      /\ free \in [Queues -> SUBSET Heads] /\ \A q \in Queues : free[q] \subseteq HeadsOf(q)
      /\ dp = "txUsed" => InHand("tx") = {head} /\ InHand("rx") = {}
      /\ dp = "rxUsed" => InHand("rx") = {head} /\ InHand("tx") = {}
      /\ dp \notin {"txUsed", "rxUsed"} => \A q \in Queues : InHand(q) = {}
  BY PlacesTyped
<1>1. CASE FrameArrives
  <2>1. /\ tapIn' = Append(tapIn, arrived + 1) /\ arrived + 1 # 0 /\ arrived + 1 \in Nat
        /\ tapIn \in Seq(Nat) /\ UNCHANGED <<frame, dp, head, buffer>>
    BY <1>1 DEF FrameArrives, TypeOK
  <2> QED
    BY <2>1 DEF FrameHeld
<1>2. ASSUME NEW h \in RxHeads, PostRx(h) PROVE FrameHeld'
  <2>1. dp = "rxUsed" => head # h /\ head \in Heads
    BY <1>2, <1>p DEF PostRx, Ownership, Owned, Queues, HandTyped, Heads
  <2> QED
    BY <1>2, <2>1 DEF PostRx, FrameHeld, tap
<1>3. ASSUME NEW h \in TxHeads, NEW k \in TxKinds, Xmit(h, k) PROVE FrameHeld'
  <2>1. dp = "rxUsed" => head # h /\ head \in Heads
    BY <1>3, NetAssumption DEF HandTyped, Heads
  <2> QED
    BY <1>3, <2>1 DEF Xmit, FrameHeld, tap
<1>4. CASE IsrStart
  BY <1>4 DEF IsrStart, FrameHeld, tap
<1>5. CASE IsrRead
  BY <1>5 DEF IsrRead, FrameHeld, tap
<1>6. CASE IsrAck
  BY <1>6 DEF IsrAck, FrameHeld, tap
<1>7. CASE CollectRx
  BY <1>7 DEF CollectRx, FrameHeld, tap
<1>8. CASE CollectTx
  BY <1>8 DEF CollectTx, FrameHeld, tap
<1>9. CASE IsrDone
  BY <1>9 DEF IsrDone, FrameHeld, tap
<1>10. CASE TxTake
  BY <1>10 DEF TxTake, FrameHeld
<1>11. CASE TxUsed
  BY <1>11 DEF TxUsed, FrameHeld, tap
<1>12. CASE TxEmpty
  BY <1>12 DEF TxEmpty, FrameHeld, tap
<1>13. CASE Recv
  <2>1. tapIn \in Seq(Nat) /\ tapIn # <<>> /\ frame' = Head(tapIn) /\ tapIn' = Tail(tapIn)
    BY <1>13 DEF Recv, TypeOK
  <2>2. frame' # 0 /\ \A i \in DOMAIN tapIn' : tapIn'[i] # 0
    BY <2>1 DEF FrameHeld
  <2> QED
    BY <1>13, <2>2 DEF Recv, FrameHeld
<1>14. CASE RecvNothing
  BY <1>14 DEF RecvNothing, FrameHeld, tap
<1>15. CASE RxNoBuffer
  BY <1>15 DEF RxNoBuffer, FrameHeld, tap
<1>16. CASE RxTake
  <2>1. Head(avail["rx"]) \in RxHeads
    BY <1>16, <1>p DEF RxTake, Queues, HeadsOf
  <2>2. CASE Layout[Head(avail["rx"])] = "unusable"
    BY <1>16, <2>2 DEF RxTake, FrameHeld, tap
  <2>3. CASE Layout[Head(avail["rx"])] # "unusable"
    <3>1. PICK w : /\ head' = Head(avail["rx"]) /\ dp' = "rxUsed" /\ UNCHANGED <<frame, tapIn>>
                   /\ buffer' = [buffer EXCEPT ![head'].message = frame, ![head'].whole = w]
      BY <1>16, <2>3 DEF RxTake, tap
    <3>2. buffer \in [Heads -> Buffer] /\ head' \in Heads
      BY <2>1, <3>1 DEF TypeOK, Heads
    <3>3. buffer'[head'].message = frame
      BY <3>1, <3>2 DEF Buffer
    <3> QED
      BY <1>16, <3>1, <3>3 DEF RxTake, FrameHeld
  <2> QED
    BY <2>2, <2>3
<1>17. CASE RxUsed
  BY <1>17 DEF RxUsed, FrameHeld, tap
<1>18. CASE RxStatus
  BY <1>18 DEF RxStatus, FrameHeld, tap
<1>19. CASE RxIrq
  BY <1>19 DEF RxIrq, FrameHeld, tap
<1>20. CASE UNCHANGED vars
  BY <1>20 DEF vars, FrameHeld
<1> QED
  BY <1>1, <1>2, <1>3, <1>4, <1>5, <1>6, <1>7, <1>8, <1>9, <1>10, <1>11, <1>12, <1>13, <1>14,
     <1>15, <1>16, <1>17, <1>18, <1>19, <1>20
  DEF Next, Interrupt, Dataplane

Delivery == [message: Nat, whole: BOOLEAN]

\* The dataplane starts, or ends at once, with empty rings and all chains free.
LEMMA InitIInv == Init => IInv
<1> SUFFICES ASSUME Init PROVE IInv
  OBVIOUS
<1>1. /\ avail \in [Queues -> Seq(Heads)] /\ used \in [Queues -> Seq(Heads)]
      /\ \A q \in Queues : avail[q] = <<>> /\ used[q] = <<>> /\ free[q] = HeadsOf(q)
      /\ free \in [Queues -> SUBSET Heads]
  BY DEF Init, Queues, HeadsOf, Heads
<1>2. RingsOfQueue
  BY <1>1 DEF RingsOfQueue
<1>3. TypeOK
  <2>1. NoFrame \in Buffer
    BY DEF NoFrame, Buffer, KindType
  <2>2. buffer \in [Heads -> Buffer]
    BY <2>1 DEF Init
  <2>3. tapIn \in Seq(Nat) /\ tapOut \in Seq(Delivery) /\ received \in Seq(Delivery)
    BY DEF Init
  <2> QED
    BY <1>1, <2>2, <2>3 DEF Init, TypeOK, Points, Delivery
<1>4. HandTyped /\ FrameHeld /\ \A q \in Queues : InHand(q) = {}
  BY NetAssumption DEF Init, HandTyped, FrameHeld, InHand, Heads
<1>5. Ownership
  BY <1>1, <1>4, RingEmpty DEF Ownership, Owned
<1>6. NoLostRxIrq
  BY <1>1 DEF NoLostRxIrq, Queues
<1> QED
  BY <1>2, <1>3, <1>4, <1>5, <1>6 DEF IInv

\* Every step keeps the invariant.
LEMMA NextIInv == IInv /\ [Next]_vars => IInv'
BY NextTyped, NextOwnership, NextFrameHeld, NextNoLostRxIrq DEF IInv

\* The invariant holds in every behaviour of the device, its driver and the TAP.
THEOREM NetInvariant == Spec => []IInv
BY InitIInv, NextIInv, PTL DEF Spec

\* Types hold for any set of chains and any number of frames.
THEOREM TypeCorrect == Spec => []TypeOK
BY NetInvariant, PTL DEF IInv

\* A frame in the used ring of the receive queue is always going to be noticed, however
\* the handler's read and acknowledgement fall between add_used, irq_status and irqfd.
THEOREM RxIrqNotLost == Spec => []NoLostRxIrq
BY NetInvariant, PTL DEF IInv

\* No chain is in two hands or twice in a ring, and none is lost but the receive chains
\* without room for a header, whatever the driver's layouts.
THEOREM ChainsOwned == Spec => []OneOwner
<1>1. IInv => OneOwner
  BY OwnershipIsOneOwner DEF IInv
<1> QED
  BY <1>1, NetInvariant, PTL

-----------------------------------------------------------------------------
(***************************************************************************)
(* Both directions are lossy FIFOs.                                        *)
(***************************************************************************)

\* Contents and Messages with the buffers as a parameter.
Entry(b, h) == [message |-> b[h].message, whole |-> b[h].whole]
ContentsIn(b, u) == [i \in DOMAIN u |-> Entry(b, u[i])]
MessagesIn(b, u) == [i \in DOMAIN u |-> b[u[i]].message]

RxInFlight == (IF frame = 0 THEN <<>> ELSE <<frame>>) \o tapIn
RxDelivered == received \o ContentsIn(buffer, used["rx"])
TxInFlight == MessagesIn(buffer, avail["tx"])

\* What is in the chains of a ring: its length, and one entry after another.
LEMMA ContentsOfRing ==
  ASSUME NEW S, S \subseteq Heads, NEW u \in Seq(S), NEW b \in [Heads -> Buffer]
  PROVE  /\ ContentsIn(b, u) \in Seq(Delivery) /\ MessagesIn(b, u) \in Seq(Nat)
         /\ Len(ContentsIn(b, u)) = Len(u) /\ Len(MessagesIn(b, u)) = Len(u)
         /\ \A i \in 1 .. Len(u) :
              /\ ContentsIn(b, u)[i] = Entry(b, u[i])
              /\ MessagesIn(b, u)[i] = b[u[i]].message
<1>1. DOMAIN u = 1 .. Len(u) /\ Len(u) \in Nat
  OBVIOUS
<1>2. ASSUME NEW i \in 1 .. Len(u)
      PROVE  Entry(b, u[i]) \in Delivery /\ b[u[i]].message \in Nat
  <2>1. b[u[i]] \in Buffer
    OBVIOUS
  <2> QED
    BY <2>1 DEF Buffer, Delivery, Entry
<1>3. ContentsIn(b, u) \in [1 .. Len(u) -> Delivery]
  BY <1>1, <1>2 DEF ContentsIn
<1>4. MessagesIn(b, u) \in [1 .. Len(u) -> Nat]
  BY <1>1, <1>2 DEF MessagesIn
<1>5. ContentsIn(b, u) \in Seq(Delivery) /\ Len(ContentsIn(b, u)) = Len(u)
  BY <1>1, <1>3
<1>6. MessagesIn(b, u) \in Seq(Nat) /\ Len(MessagesIn(b, u)) = Len(u)
  BY <1>1, <1>4
<1> QED
  BY <1>5, <1>6 DEF ContentsIn, MessagesIn

\* A chain is appended.
LEMMA ContentsAppend ==
  ASSUME NEW S, S \subseteq Heads, NEW u \in Seq(S), NEW b \in [Heads -> Buffer], NEW h \in S
  PROVE  /\ ContentsIn(b, Append(u, h)) =
              Append(ContentsIn(b, u), Entry(b, h))
         /\ MessagesIn(b, Append(u, h)) = Append(MessagesIn(b, u), b[h].message)
<1>1. b[h] \in Buffer
  OBVIOUS
<1> DEFINE d == Entry(b, h)
<1>2. d \in Delivery /\ b[h].message \in Nat
  BY <1>1 DEF Buffer, Delivery, Entry
<1>3. Append(u, h) \in Seq(S) /\ Len(Append(u, h)) = Len(u) + 1
      /\ Append(u, h)[Len(u) + 1] = h /\ \A i \in 1 .. Len(u) : Append(u, h)[i] = u[i]
  OBVIOUS
<1>4. ContentsIn(b, Append(u, h)) = Append(ContentsIn(b, u), d)
  <2>1. /\ ContentsIn(b, Append(u, h)) \in Seq(Delivery)
        /\ Len(ContentsIn(b, Append(u, h))) = Len(u) + 1
        /\ \A i \in 1 .. Len(u) + 1 : ContentsIn(b, Append(u, h))[i] =
             Entry(b, Append(u, h)[i])
    BY <1>3, ContentsOfRing
  <2>2. /\ ContentsIn(b, u) \in Seq(Delivery) /\ Len(ContentsIn(b, u)) = Len(u)
        /\ \A i \in 1 .. Len(u) : ContentsIn(b, u)[i] = Entry(b, u[i])
    BY ContentsOfRing
  <2>3. \A i \in 1 .. Len(u) + 1 : ContentsIn(b, Append(u, h))[i] = Append(ContentsIn(b, u), d)[i]
    BY <1>2, <1>3, <2>1, <2>2
  <2>4. /\ Append(ContentsIn(b, u), d) \in Seq(Delivery)
        /\ Len(Append(ContentsIn(b, u), d)) = Len(u) + 1
    BY <1>2, <2>2
  <2> HIDE DEF d
  <2> QED
    BY <2>1, <2>3, <2>4, SeqEqual
<1>5. MessagesIn(b, Append(u, h)) = Append(MessagesIn(b, u), b[h].message)
  <2>1. /\ MessagesIn(b, Append(u, h)) \in Seq(Nat)
        /\ Len(MessagesIn(b, Append(u, h))) = Len(u) + 1
        /\ \A i \in 1 .. Len(u) + 1 : MessagesIn(b, Append(u, h))[i] = b[Append(u, h)[i]].message
    BY <1>3, ContentsOfRing
  <2>2. /\ MessagesIn(b, u) \in Seq(Nat) /\ Len(MessagesIn(b, u)) = Len(u)
        /\ \A i \in 1 .. Len(u) : MessagesIn(b, u)[i] = b[u[i]].message
    BY ContentsOfRing
  <2> DEFINE e == b[h].message
  <2>3. /\ Append(MessagesIn(b, u), e) \in Seq(Nat)
        /\ Len(Append(MessagesIn(b, u), e)) = Len(u) + 1
        /\ Append(MessagesIn(b, u), e)[Len(u) + 1] = e
        /\ \A i \in 1 .. Len(u) : Append(MessagesIn(b, u), e)[i] = MessagesIn(b, u)[i]
    BY <1>2, <2>2
  <2>4. ASSUME NEW i \in 1 .. Len(u) + 1
        PROVE  MessagesIn(b, Append(u, h))[i] = Append(MessagesIn(b, u), e)[i]
    <3>1. CASE i \in 1 .. Len(u)
      BY <1>3, <2>1, <2>2, <2>3, <3>1
    <3>2. CASE i = Len(u) + 1
      BY <1>3, <2>1, <2>3, <3>2
    <3>3. i \in 1 .. Len(u) \/ i = Len(u) + 1
      BY <1>3
    <3> QED
      BY <3>1, <3>2, <3>3, Zenon
  <2> HIDE DEF e
  <2>5. MessagesIn(b, Append(u, h)) = Append(MessagesIn(b, u), e)
    BY <2>1, <2>4, <2>3, SeqEqual
  <2> QED
    BY <2>5 DEF e
<1> QED
  BY <1>4, <1>5

\* The first chain is taken off.
LEMMA ContentsTail ==
  ASSUME NEW S, S \subseteq Heads, NEW u \in Seq(S), NEW b \in [Heads -> Buffer], u # <<>>
  PROVE  /\ ContentsIn(b, u) # <<>> /\ MessagesIn(b, u) # <<>>
         /\ ContentsIn(b, Tail(u)) = Tail(ContentsIn(b, u))
         /\ MessagesIn(b, Tail(u)) = Tail(MessagesIn(b, u))
         /\ Head(ContentsIn(b, u)) = Entry(b, Head(u))
         /\ Head(MessagesIn(b, u)) = b[Head(u)].message
<1>1. /\ Tail(u) \in Seq(S) /\ Len(Tail(u)) = Len(u) - 1 /\ Head(u) = u[1] /\ Len(u) \in Nat \ {0}
      /\ \A i \in 1 .. Len(u) - 1 : Tail(u)[i] = u[i + 1]
  OBVIOUS
<1> DEFINE c == ContentsIn(b, u)
           n == MessagesIn(b, u)
           ct == ContentsIn(b, Tail(u))
           nt == MessagesIn(b, Tail(u))
<1>2. /\ c \in Seq(Delivery) /\ Len(c) = Len(u) /\ n \in Seq(Nat) /\ Len(n) = Len(u)
      /\ \A i \in 1 .. Len(u) : /\ c[i] = Entry(b, u[i])
                                /\ n[i] = b[u[i]].message
  BY ContentsOfRing
<1>3. /\ ct \in Seq(Delivery) /\ Len(ct) = Len(u) - 1 /\ nt \in Seq(Nat) /\ Len(nt) = Len(u) - 1
      /\ \A i \in 1 .. Len(u) - 1 :
           /\ ct[i] = Entry(b, Tail(u)[i])
           /\ nt[i] = b[Tail(u)[i]].message
  BY <1>1, ContentsOfRing
<1> HIDE DEF c, n, ct, nt
<1>4. /\ c # <<>> /\ Head(c) = c[1] /\ Tail(c) \in Seq(Delivery) /\ Len(Tail(c)) = Len(u) - 1
      /\ \A i \in 1 .. Len(u) - 1 : Tail(c)[i] = c[i + 1]
  BY <1>1, <1>2
<1>5. /\ n # <<>> /\ Head(n) = n[1] /\ Tail(n) \in Seq(Nat) /\ Len(Tail(n)) = Len(u) - 1
      /\ \A i \in 1 .. Len(u) - 1 : Tail(n)[i] = n[i + 1]
  BY <1>1, <1>2
<1>6. \A i \in 1 .. Len(u) - 1 : ct[i] = Tail(c)[i] /\ nt[i] = Tail(n)[i]
  BY <1>2, <1>3
<1>7. ct = Tail(c) /\ nt = Tail(n)
  BY <1>3, <1>4, <1>5, <1>6, SeqEqual
<1>8. Head(c) = Entry(b, Head(u)) /\ Head(n) = b[Head(u)].message
  BY <1>1, <1>2, <1>4, <1>5
<1> QED
  BY <1>4, <1>5, <1>7, <1>8 DEF c, n, ct, nt

\* Buffers outside a ring do not matter to it.
LEMMA ContentsSame ==
  ASSUME NEW S, S \subseteq Heads, NEW u \in Seq(S), NEW b \in [Heads -> Buffer],
         NEW c \in [Heads -> Buffer], \A h \in ToSet(u) : c[h] = b[h]
  PROVE  ContentsIn(c, u) = ContentsIn(b, u) /\ MessagesIn(c, u) = MessagesIn(b, u)
BY DEF ContentsIn, MessagesIn, Entry, ToSet

\* Sequences put one after another.
LEMMA ConcatAppend ==
  ASSUME NEW S, NEW s \in Seq(S), NEW t \in Seq(S), NEW x \in S
  PROVE  s \o Append(t, x) = Append(s \o t, x)
<1>1. Append(t, x) = t \o <<x>> /\ <<x>> \in Seq(S) /\ s \o t \in Seq(S)
  BY AppendIsConcat
<1>2. Append(s \o t, x) = (s \o t) \o <<x>>
  BY <1>1, AppendIsConcat
<1> QED
  BY <1>1, <1>2, ConcatAssociative

\* The first element of a sequence put before another.
LEMMA ConcatFirst ==
  ASSUME NEW S, NEW x \in S, NEW s \in Seq(S)
  PROVE  <<x>> \o s # <<>> /\ Head(<<x>> \o s) = x /\ Tail(<<x>> \o s) = s
<1> DEFINE c == <<x>> \o s
<1>1. <<x>> \in Seq(S) /\ Len(<<x>>) = 1 /\ <<x>>[1] = x
  OBVIOUS
<1>2. /\ c \in Seq(S) /\ Len(c) = 1 + Len(s)
      /\ \A i \in 1 .. 1 + Len(s) : c[i] = IF i <= 1 THEN <<x>>[i] ELSE s[i - 1]
  BY <1>1, ConcatProperties
<1> HIDE DEF c
<1>3. c # <<>> /\ Head(c) = x
  BY <1>1, <1>2
<1>4. /\ Tail(c) \in Seq(S) /\ Len(Tail(c)) = Len(s)
      /\ \A i \in 1 .. Len(s) : Tail(c)[i] = c[i + 1]
  BY <1>2, <1>3
<1>5. \A i \in 1 .. Len(s) : Tail(c)[i] = s[i]
  BY <1>2, <1>4
<1>6. Tail(c) = s
  BY <1>4, <1>5, SeqEqual
<1> QED
  BY <1>3, <1>6 DEF c

\* The first element moves from one sequence to the end of the one before it.
LEMMA ConcatMove ==
  ASSUME NEW S, NEW s \in Seq(S), NEW t \in Seq(S), t # <<>>
  PROVE  /\ <<Head(t)>> \o Tail(t) = t
         /\ Append(s, Head(t)) \o Tail(t) = s \o t
<1>1. <<Head(t)>> \o Tail(t) = t
  BY SMTT(30)
<1>2. Append(s, Head(t)) \o Tail(t) = s \o t
  BY SMTT(30)
<1> QED
  BY <1>1, <1>2

\* The abstract actions, with the mapping written out.
LEMMA RxMapsToStutter ==
  ASSUME arrived' = arrived, RxInFlight' = RxInFlight, RxDelivered' = RxDelivered
  PROVE  UNCHANGED RxLink!vars
BY DEF RxLink!vars, RxInFlight, RxDelivered, ContentsIn, Entry, Contents

\* A message enters behind those in flight.
LEMMA RxMapsToSend ==
  ASSUME arrived' = arrived + 1, RxInFlight' = Append(RxInFlight, arrived + 1),
         RxDelivered' = RxDelivered
  PROVE  RxLink!Send
BY DEF RxLink!Send, RxInFlight, RxDelivered, ContentsIn, Entry, Contents

\* The oldest in flight is gone.
LEMMA RxMapsToLose ==
  ASSUME arrived' = arrived, RxInFlight # <<>>, RxInFlight' = Tail(RxInFlight),
         RxDelivered' = RxDelivered
  PROVE  RxLink!Lose
BY DEF RxLink!Lose, RxInFlight, RxDelivered, ContentsIn, Entry, Contents

\* The oldest in flight comes out.
LEMMA RxMapsToDeliver ==
  ASSUME NEW w \in BOOLEAN, arrived' = arrived, RxInFlight # <<>>,
         RxInFlight' = Tail(RxInFlight),
         RxDelivered' = Append(RxDelivered, [message |-> Head(RxInFlight), whole |-> w])
  PROVE  RxLink!Deliver(w)
BY DEF RxLink!Deliver, RxInFlight, RxDelivered, ContentsIn, Entry, Contents

\* The sequences of the mapping.
LEMMA RxTyped ==
  ASSUME IInv
  PROVE  /\ RxInFlight \in Seq(Nat) /\ received \in Seq(Delivery)
         /\ ContentsIn(buffer, used["rx"]) \in Seq(Delivery)
         /\ used["rx"] \in Seq(RxHeads) /\ avail["rx"] \in Seq(RxHeads)
         /\ used["tx"] \in Seq(TxHeads) /\ avail["tx"] \in Seq(TxHeads)
         /\ RxHeads \subseteq Heads /\ TxHeads \subseteq Heads
         /\ tapIn \in Seq(Nat) /\ frame \in Nat /\ buffer \in [Heads -> Buffer]
<1>1. /\ used["rx"] \in Seq(RxHeads) /\ avail["rx"] \in Seq(RxHeads)
      /\ used["tx"] \in Seq(TxHeads) /\ avail["tx"] \in Seq(TxHeads)
  BY DEF IInv, RingsOfQueue, Queues, HeadsOf
<1>2. /\ tapIn \in Seq(Nat) /\ frame \in Nat /\ received \in Seq(Delivery)
      /\ buffer \in [Heads -> Buffer]
  BY DEF IInv, TypeOK, Delivery
<1>3. RxHeads \subseteq Heads /\ TxHeads \subseteq Heads
  BY DEF Heads
<1>4. ContentsIn(buffer, used["rx"]) \in Seq(Delivery)
  BY <1>1, <1>2, <1>3, ContentsOfRing
<1>5. RxInFlight \in Seq(Nat)
  <2>1. (IF frame = 0 THEN <<>> ELSE <<frame>>) \in Seq(Nat)
    BY <1>2
  <2> QED
    BY <1>2, <2>1, ConcatProperties DEF RxInFlight
<1> QED
  BY <1>1, <1>2, <1>3, <1>4, <1>5

\* A step that leaves the frames and the used receive chains alone.
LEMMA RxQuiet ==
  ASSUME IInv, UNCHANGED <<frame, tapIn, arrived, received>>, used'["rx"] = used["rx"],
         buffer' \in [Heads -> Buffer], \A h \in ToSet(used["rx"]) : buffer'[h] = buffer[h]
  PROVE  UNCHANGED RxLink!vars
<1>1. ContentsIn(buffer', used["rx"]) = ContentsIn(buffer, used["rx"])
  BY RxTyped, ContentsSame
<1>2. RxDelivered' = RxDelivered /\ RxInFlight' = RxInFlight
  BY <1>1 DEF RxDelivered, RxInFlight
<1> QED
  BY <1>2, RxMapsToStutter

\* A frame that reaches the TAP is sent.
LEMMA FrameArrivesSends == IInv /\ FrameArrives => RxLink!Send
<1> SUFFICES ASSUME IInv, FrameArrives PROVE RxLink!Send
  OBVIOUS
<1>1. arrived + 1 \in Nat /\ tapIn' = Append(tapIn, arrived + 1) /\ arrived' = arrived + 1
  BY DEF IInv, TypeOK, FrameArrives
<1> DEFINE f == IF frame = 0 THEN <<>> ELSE <<frame>>
<1> HIDE DEF f
<1>2. f' = f /\ RxInFlight = f \o tapIn
  BY DEF FrameArrives, f, RxInFlight
<1>3. RxInFlight' = f' \o tapIn'
  BY DEF f, RxInFlight
<1>4. RxDelivered' = RxDelivered
  BY DEF FrameArrives, RxDelivered, driver
<1> QED
  BY <1>1, <1>2, <1>3, <1>4, RxMapsToSend

\* Moving the oldest frame from the TAP to rx_buf changes nothing.
LEMMA RecvStutters == IInv /\ Recv => UNCHANGED RxLink!vars
<1> SUFFICES ASSUME IInv, Recv PROVE UNCHANGED RxLink!vars
  OBVIOUS
<1>1. frame = 0 /\ tapIn # <<>> /\ tapIn \in Seq(Nat) /\ \A i \in DOMAIN tapIn : tapIn[i] # 0
  BY RxTyped DEF IInv, FrameHeld, Recv
<1>2. Head(tapIn) # 0
  BY <1>1
<1>3. RxInFlight = <<>> \o tapIn
  BY <1>1 DEF RxInFlight
<1>4. RxInFlight = tapIn
  BY <1>1, <1>3, ConcatEmptySeq
<1>5. RxInFlight' = <<Head(tapIn)>> \o Tail(tapIn)
  BY <1>2 DEF Recv, RxInFlight
<1>6. RxInFlight' = tapIn
  BY <1>1, <1>5, ConcatMove
<1>7. RxDelivered' = RxDelivered /\ arrived' = arrived
  BY DEF Recv, RxDelivered, driver
<1> QED
  BY <1>4, <1>6, <1>7, RxMapsToStutter

\* While rx_buf holds a frame, that one is the oldest in flight.
LEMMA FrameIsFirst ==
  ASSUME IInv, dp \in {"rxLock", "rxUsed"}
  PROVE  RxInFlight # <<>> /\ Head(RxInFlight) = frame /\ Tail(RxInFlight) = tapIn
<1>1. frame # 0 /\ frame \in Nat /\ tapIn \in Seq(Nat)
  BY RxTyped DEF IInv, FrameHeld
<1>2. RxInFlight = <<frame>> \o tapIn
  BY <1>1 DEF RxInFlight
<1> QED
  BY <1>1, <1>2, ConcatFirst

\* Dropping the frame leaves the rest in flight.
LEMMA FrameGone ==
  ASSUME IInv, frame' = 0, tapIn' = tapIn
  PROVE  RxInFlight' = tapIn
<1>1. RxInFlight' = <<>> \o tapIn
  BY DEF RxInFlight
<1> QED
  BY <1>1, RxTyped, ConcatEmptySeq

\* Without a buffer the frame is lost.
LEMMA RxNoBufferLoses == IInv /\ RxNoBuffer => RxLink!Lose
<1> SUFFICES ASSUME IInv, RxNoBuffer PROVE RxLink!Lose
  OBVIOUS
<1>1. RxInFlight # <<>> /\ Tail(RxInFlight) = tapIn
  BY FrameIsFirst DEF RxNoBuffer
<1>2. RxInFlight' = tapIn
  BY FrameGone DEF RxNoBuffer, tap
<1>3. RxDelivered' = RxDelivered /\ arrived' = arrived
  BY DEF RxNoBuffer, RxDelivered, driver, tap
<1> QED
  BY <1>1, <1>2, <1>3, RxMapsToLose

\* A chain without room loses the frame; filling another changes no chain in the ring.
LEMMA RxTakeMaps == IInv /\ IInv' /\ RxTake => RxLink!Lose \/ UNCHANGED RxLink!vars
<1> SUFFICES ASSUME IInv, IInv', RxTake PROVE RxLink!Lose \/ UNCHANGED RxLink!vars
  OBVIOUS
<1> DEFINE h == Head(avail["rx"])
<1>1. h \in ToSet(avail["rx"]) /\ h \in RxHeads
  BY RxTyped, RingTail DEF RxTake
<1>2. CASE Layout[h] = "unusable"
  <2>1. RxInFlight # <<>> /\ Tail(RxInFlight) = tapIn
    BY FrameIsFirst DEF RxTake
  <2>2. RxInFlight' = tapIn
    BY <1>2, FrameGone DEF RxTake, tap
  <2>3. RxDelivered' = RxDelivered /\ arrived' = arrived
    BY <1>2 DEF RxTake, RxDelivered, driver, tap
  <2> QED
    BY <2>1, <2>2, <2>3, RxMapsToLose
<1>3. CASE Layout[h] # "unusable"
  <2>1. h \notin ToSet(used["rx"])
    BY <1>1 DEF IInv, Ownership, Owned, Queues
  <2>2. /\ buffer' = [buffer EXCEPT ![h].message = frame, ![h].whole = (Layout[h] = "roomy")]
        /\ UNCHANGED <<used, frame, tapIn, arrived, received>>
    BY <1>3 DEF RxTake, tap, driver
  <2>3. buffer' \in [Heads -> Buffer] /\ buffer \in [Heads -> Buffer]
    BY DEF IInv, TypeOK
  <2>4. ToSet(used["rx"]) \subseteq Heads \ {h}
    BY <2>1, RxTyped, RingRange
  <2> QED
    BY <2>2, <2>3, <2>4, RxQuiet
<1> QED
  BY <1>2, <1>3

\* add_used delivers the frame the chain in hand holds.
LEMMA RxUsedDelivers == IInv /\ RxUsed => RxLink!Next
<1> SUFFICES ASSUME IInv, RxUsed PROVE RxLink!Next
  OBVIOUS
<1>1. RxInFlight # <<>> /\ Tail(RxInFlight) = tapIn /\ Head(RxInFlight) = frame
  BY FrameIsFirst DEF RxUsed
<1>2. RxInFlight' = tapIn
  BY FrameGone DEF RxUsed, tap
<1>3. head \in RxHeads /\ buffer[head].message = frame
  BY DEF IInv, HandTyped, FrameHeld, RxUsed
<1>4. buffer[head] \in Buffer
  BY <1>3, RxTyped
<1>5. buffer[head].whole \in BOOLEAN /\ frame \in Nat
  BY <1>4, RxTyped DEF Buffer
<1>6. Entry(buffer, head) = [message |-> frame, whole |-> buffer[head].whole]
  BY <1>3 DEF Entry
<1>7. Entry(buffer, head) \in Delivery
  BY <1>5, <1>6 DEF Delivery
<1>8. used'["rx"] = Append(used["rx"], head)
  BY DEF RxUsed, IInv, TypeOK
<1>9. ContentsIn(buffer, used'["rx"]) = Append(ContentsIn(buffer, used["rx"]), Entry(buffer, head))
  BY <1>3, <1>8, RxTyped, ContentsAppend
<1>10. received \o Append(ContentsIn(buffer, used["rx"]), Entry(buffer, head)) =
         Append(received \o ContentsIn(buffer, used["rx"]), Entry(buffer, head))
  BY <1>7, RxTyped, ConcatAppend
<1>11. RxDelivered' = Append(RxDelivered, Entry(buffer, head)) /\ arrived' = arrived
  BY <1>9, <1>10 DEF RxUsed, RxDelivered, driver, tap
<1>12. RxLink!Deliver(buffer[head].whole)
  BY <1>1, <1>2, <1>5, <1>6, <1>11, RxMapsToDeliver
<1> QED
  BY <1>5, <1>12 DEF RxLink!Next

\* What the driver collects it has been delivered.
LEMMA CollectRxStutters == IInv /\ CollectRx => UNCHANGED RxLink!vars
<1> SUFFICES ASSUME IInv, CollectRx PROVE UNCHANGED RxLink!vars
  OBVIOUS
<1> DEFINE u == used["rx"]
           c == ContentsIn(buffer, u)
<1>1. u # <<>> /\ u \in Seq(RxHeads) /\ c \in Seq(Delivery) /\ received \in Seq(Delivery)
  BY RxTyped DEF CollectRx
<1>2. c # <<>> /\ ContentsIn(buffer, Tail(u)) = Tail(c) /\ Head(c) = Entry(buffer, Head(u))
  BY <1>1, RxTyped, ContentsTail
<1>3. used'["rx"] = Tail(u) /\ received' = Append(received, Entry(buffer, Head(u)))
      /\ buffer' = buffer
  BY DEF CollectRx, IInv, TypeOK, Entry
<1> HIDE DEF u, c
<1>4. received' \o ContentsIn(buffer', used'["rx"]) = received \o c
  <2>1. received' = Append(received, Head(c)) /\ ContentsIn(buffer', used'["rx"]) = Tail(c)
    BY <1>2, <1>3
  <2>2. Append(received, Head(c)) \o Tail(c) = received \o c
    BY <1>1, <1>2, ConcatMove
  <2> QED
    BY <2>1, <2>2, Zenon
<1>5. RxDelivered' = RxDelivered
  BY <1>4 DEF RxDelivered, c, u
<1>6. RxInFlight' = RxInFlight /\ arrived' = arrived
  BY DEF CollectRx, RxInFlight, tap
<1> QED
  BY <1>5, <1>6, RxMapsToStutter

\* Every step is a step of the receive link, or none.
LEMMA RxStep == IInv /\ IInv' /\ [Next]_vars => [RxLink!Next]_(RxLink!vars)
<1> SUFFICES ASSUME IInv, IInv', [Next]_vars PROVE RxLink!Next \/ UNCHANGED RxLink!vars
  OBVIOUS
<1>b. /\ buffer' \in [Heads -> Buffer] /\ buffer \in [Heads -> Buffer]
      /\ used \in [Queues -> Seq(Heads)]
  BY DEF IInv, TypeOK, Queues
<1>1. CASE FrameArrives
  BY <1>1, FrameArrivesSends DEF RxLink!Next
<1>2. ASSUME NEW h \in RxHeads, PostRx(h) PROVE UNCHANGED RxLink!vars
  <2>1. h \notin ToSet(used["rx"])
    BY <1>2 DEF PostRx, IInv, Ownership, Owned, Queues
  <2>2. \A g \in ToSet(used["rx"]) : buffer'[g] = buffer[g]
    BY <1>2, <2>1 DEF PostRx
  <2> QED
    BY <1>2, <1>b, <2>2, RxQuiet DEF PostRx, tap
<1>3. ASSUME NEW h \in TxHeads, NEW k \in TxKinds, Xmit(h, k) PROVE UNCHANGED RxLink!vars
  <2>1. ToSet(used["rx"]) \subseteq RxHeads
    BY RxTyped, RingRange
  <2>2. \A g \in Heads \ {h} : buffer'[g] = buffer[g]
    BY <1>3, <1>b DEF Xmit
  <2>3. \A g \in ToSet(used["rx"]) : buffer'[g] = buffer[g]
    BY <2>1, <2>2, NetAssumption DEF Heads
  <2>4. used'["rx"] = used["rx"]
    BY <1>3, <1>b DEF Xmit, Queues
  <2> QED
    BY <1>3, <1>b, <2>3, <2>4, RxQuiet DEF Xmit, tap
<1>4. CASE IsrStart \/ IsrRead \/ IsrAck \/ IsrDone
  BY <1>4, <1>b, RxQuiet DEF IsrStart, IsrRead, IsrAck, IsrDone, tap
<1>5. CASE CollectRx
  BY <1>5, CollectRxStutters
<1>6. CASE CollectTx
  <2> QED
    BY <1>6, <1>b, RxQuiet DEF CollectTx, tap
<1>7. CASE TxTake
  BY <1>7, <1>b, RxQuiet DEF TxTake, driver
<1>8. CASE TxUsed
  <2> QED
    BY <1>8, <1>b, RxQuiet DEF TxUsed, tap, driver
<1>9. CASE TxEmpty \/ RecvNothing \/ RxStatus \/ RxIrq
  BY <1>9, <1>b, RxQuiet DEF TxEmpty, RecvNothing, RxStatus, RxIrq, tap, driver
<1>10. CASE Recv
  BY <1>10, RecvStutters
<1>11. CASE RxNoBuffer
  BY <1>11, RxNoBufferLoses DEF RxLink!Next
<1>12. CASE RxTake
  BY <1>12, RxTakeMaps DEF RxLink!Next
<1>13. CASE RxUsed
  BY <1>13, RxUsedDelivers
<1>14. CASE UNCHANGED vars
  BY <1>14, <1>b, RxQuiet DEF vars
<1> QED
  BY <1>1, <1>2, <1>3, <1>4, <1>5, <1>6, <1>7, <1>8, <1>9, <1>10, <1>11, <1>12, <1>13, <1>14
  DEF Next, Interrupt, Dataplane

\* At first nothing has arrived.
LEMMA RxStart == Init => RxLink!Init
<1> SUFFICES ASSUME Init PROVE RxLink!Init
  OBVIOUS
<1>1. used["rx"] = <<>> /\ received = <<>> /\ frame = 0 /\ tapIn = <<>> /\ arrived = 0
  BY DEF Init
<1>2. Contents(<<>>) = <<>>
  BY DEF Contents
<1> QED
  BY <1>1, <1>2 DEF RxLink!Init

\* The receive path implements a lossy FIFO from the TAP to the guest, whatever the
\* driver posts, reuses and collects meanwhile.
THEOREM RxPathIsFifo == Spec => RxIsFifo
BY RxStart, RxStep, NetInvariant, PTL DEF Spec, RxIsFifo, RxLink!Spec

-----------------------------------------------------------------------------
(***************************************************************************)
(* The transmit path.                                                      *)
(***************************************************************************)

\* The abstract actions, with the mapping written out.
LEMMA TxMapsToStutter ==
  ASSUME posted' = posted, TxInFlight' = TxInFlight, tapOut' = tapOut
  PROVE  UNCHANGED TxLink!vars
BY DEF TxLink!vars, TxInFlight, MessagesIn, Messages

\* A message enters behind those posted.
LEMMA TxMapsToSend ==
  ASSUME posted' = posted + 1, TxInFlight' = Append(TxInFlight, posted + 1), tapOut' = tapOut
  PROVE  TxLink!Send
BY DEF TxLink!Send, TxInFlight, MessagesIn, Messages

\* The oldest posted is gone.
LEMMA TxMapsToLose ==
  ASSUME posted' = posted, TxInFlight # <<>>, TxInFlight' = Tail(TxInFlight), tapOut' = tapOut
  PROVE  TxLink!Lose
BY DEF TxLink!Lose, TxInFlight, MessagesIn, Messages

\* The oldest posted comes out.
LEMMA TxMapsToDeliver ==
  ASSUME NEW w \in BOOLEAN, posted' = posted, TxInFlight # <<>>, TxInFlight' = Tail(TxInFlight),
         tapOut' = Append(tapOut, [message |-> Head(TxInFlight), whole |-> w])
  PROVE  TxLink!Deliver(w)
BY DEF TxLink!Deliver, TxInFlight, MessagesIn, Messages

\* A step that leaves the posted transmit chains alone.
LEMMA TxQuiet ==
  ASSUME IInv, UNCHANGED <<posted, tapOut>>, avail'["tx"] = avail["tx"],
         buffer' \in [Heads -> Buffer], \A h \in ToSet(avail["tx"]) : buffer'[h] = buffer[h]
  PROVE  UNCHANGED TxLink!vars
<1>1. MessagesIn(buffer', avail["tx"]) = MessagesIn(buffer, avail["tx"])
  BY RxTyped, ContentsSame
<1>2. TxInFlight' = TxInFlight
  BY <1>1 DEF TxInFlight
<1> QED
  BY <1>2, TxMapsToStutter

\* A frame is sent in a chain that is not in the ring.
LEMMA XmitSends ==
  ASSUME IInv, IInv', NEW h \in TxHeads, NEW k \in TxKinds, Xmit(h, k)
  PROVE  TxLink!Send
<1>1. h \notin ToSet(avail["tx"])
  BY DEF Xmit, IInv, Ownership, Owned, Queues
<1>2. /\ buffer' \in [Heads -> Buffer] /\ buffer \in [Heads -> Buffer]
      /\ avail["tx"] \in Seq(TxHeads) /\ TxHeads \subseteq Heads
      /\ avail \in [Queues -> Seq(Heads)]
  BY RxTyped DEF IInv, TypeOK, Queues
<1>3. \A g \in Heads \ {h} : buffer'[g] = buffer[g]
  BY <1>2 DEF Xmit
<1>4. ToSet(avail["tx"]) \subseteq Heads \ {h}
  BY <1>1, <1>2, RingRange
<1>5. MessagesIn(buffer', avail["tx"]) = MessagesIn(buffer, avail["tx"])
  BY <1>2, <1>3, <1>4, ContentsSame
<1>6. buffer'[h].message = posted + 1 /\ posted' = posted + 1 /\ tapOut' = tapOut
  BY <1>2 DEF Xmit, tap
<1>7. avail'["tx"] = Append(avail["tx"], h)
  BY <1>2 DEF Xmit, Queues
<1>8. MessagesIn(buffer', Append(avail["tx"], h)) =
        Append(MessagesIn(buffer', avail["tx"]), buffer'[h].message)
  BY <1>2, ContentsAppend
<1>9. TxInFlight' = Append(TxInFlight, posted + 1)
  BY <1>5, <1>6, <1>7, <1>8 DEF TxInFlight
<1> QED
  BY <1>6, <1>9, TxMapsToSend

\* Taking a chain writes its frame to the TAP, or loses it.
LEMMA TxTakeMaps == IInv /\ TxTake => TxLink!Next
<1> SUFFICES ASSUME IInv, TxTake PROVE TxLink!Next
  OBVIOUS
<1> DEFINE h == Head(avail["tx"])
<1>1. avail["tx"] # <<>> /\ buffer \in [Heads -> Buffer] /\ avail["tx"] \in Seq(TxHeads)
  BY RxTyped DEF TxTake
<1>2. TxInFlight # <<>> /\ Head(TxInFlight) = buffer[h].message
      /\ MessagesIn(buffer, Tail(avail["tx"])) = Tail(TxInFlight)
  BY <1>1, RxTyped, ContentsTail DEF TxInFlight
<1>3. avail'["tx"] = Tail(avail["tx"]) /\ UNCHANGED <<buffer, posted>>
  BY DEF TxTake, IInv, TypeOK, driver
<1>4. TxInFlight' = Tail(TxInFlight)
  BY <1>2, <1>3 DEF TxInFlight
<1>5. PICK w \in BOOLEAN : w = (buffer[h].kind = "whole")
  OBVIOUS
<1>6. CASE tapOut' = tapOut
  BY <1>2, <1>3, <1>4, <1>6, TxMapsToLose DEF TxLink!Next
<1>7. CASE tapOut' = Append(tapOut, [message |-> buffer[h].message, whole |-> w])
  <2>1. TxLink!Deliver(w)
    BY <1>2, <1>3, <1>4, <1>7, TxMapsToDeliver
  <2> QED
    BY <2>1 DEF TxLink!Next
<1> QED
  BY <1>5, <1>6, <1>7 DEF TxTake

\* Every step is a step of the transmit link, or none.
LEMMA TxStep == IInv /\ IInv' /\ [Next]_vars => [TxLink!Next]_(TxLink!vars)
<1> SUFFICES ASSUME IInv, IInv', [Next]_vars PROVE TxLink!Next \/ UNCHANGED TxLink!vars
  OBVIOUS
<1>b. /\ buffer' \in [Heads -> Buffer] /\ buffer \in [Heads -> Buffer]
      /\ avail \in [Queues -> Seq(Heads)] /\ avail["rx"] \in Seq(RxHeads)
      /\ ToSet(avail["tx"]) \subseteq TxHeads
  BY RxTyped, RingRange DEF IInv, TypeOK, Queues
<1>1. CASE FrameArrives
  BY <1>1, <1>b, TxQuiet DEF FrameArrives, driver
<1>2. ASSUME NEW h \in RxHeads, PostRx(h) PROVE UNCHANGED TxLink!vars
  <2>1. \A g \in ToSet(avail["tx"]) : buffer'[g] = buffer[g]
    BY <1>2, <1>b, NetAssumption DEF PostRx
  <2> QED
    BY <1>2, <1>b, <2>1, TxQuiet DEF PostRx, tap
<1>3. ASSUME NEW h \in TxHeads, NEW k \in TxKinds, Xmit(h, k) PROVE TxLink!Next
  BY <1>3, XmitSends DEF TxLink!Next
<1>4. CASE IsrStart \/ IsrRead \/ IsrAck \/ IsrDone \/ CollectRx \/ CollectTx
  BY <1>4, <1>b, TxQuiet DEF IsrStart, IsrRead, IsrAck, IsrDone, CollectRx, CollectTx, tap
<1>5. CASE TxTake
  BY <1>5, TxTakeMaps
<1>6. CASE TxUsed \/ TxEmpty \/ RecvNothing \/ Recv \/ RxStatus \/ RxIrq \/ RxNoBuffer \/ RxUsed
  BY <1>6, <1>b, TxQuiet
  DEF TxUsed, TxEmpty, RecvNothing, Recv, RxStatus, RxIrq, RxNoBuffer, RxUsed, tap, driver
<1>7. CASE RxTake
  <2>1. Head(avail["rx"]) \in RxHeads
    BY <1>7, <1>b, RingTail DEF RxTake
  <2>2. \A g \in Heads \ {Head(avail["rx"])} : buffer'[g] = buffer[g]
    BY <1>7, <1>b DEF RxTake
  <2>3. \A g \in ToSet(avail["tx"]) : buffer'[g] = buffer[g]
    BY <1>b, <2>1, <2>2, NetAssumption DEF Heads
  <2> QED
    BY <1>7, <1>b, <2>3, TxQuiet DEF RxTake, tap, driver
<1>8. CASE UNCHANGED vars
  BY <1>8, <1>b, TxQuiet DEF vars
<1> QED
  BY <1>1, <1>2, <1>3, <1>4, <1>5, <1>6, <1>7, <1>8 DEF Next, Interrupt, Dataplane

\* At first nothing has been posted.
LEMMA TxStart == Init => TxLink!Init
<1> SUFFICES ASSUME Init PROVE TxLink!Init
  OBVIOUS
<1>1. avail["tx"] = <<>> /\ posted = 0 /\ tapOut = <<>>
  BY DEF Init
<1>2. Messages(<<>>) = <<>>
  BY DEF Messages
<1> QED
  BY <1>1, <1>2 DEF TxLink!Init

\* The transmit path implements a lossy FIFO from the driver to the TAP, although chains
\* are reused as soon as they are returned.
THEOREM TxPathIsFifo == Spec => TxIsFifo
BY TxStart, TxStep, NetInvariant, PTL DEF Spec, TxIsFifo, TxLink!Spec

=============================================================================

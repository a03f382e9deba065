------------------------- MODULE BlkServiceProofs --------------------------
(***************************************************************************)
(* The device of VirtioBlk implements the disk of BlkService, for every    *)
(* queue size, index range and set of requests, read-only or not.          *)
(*                                                                         *)
(* The requests of the disk are the chain in the dataplane's hands and the *)
(* ones in the avail ring; its answers are the buffers of the completed    *)
(* chains and of the one being completed.                                  *)
(***************************************************************************)
EXTENDS VirtioBlkProofs, SequenceTheorems

Taken == IF dp = "parse" THEN <<<<head, desc[head]>>>> ELSE <<>>
Waiting == [i \in 1 .. (avail_idx - last_avail_idx) |->
              LET h == avail_ring[Slot(last_avail_idx + i - 1)] IN <<h, desc[h]>>]
Todo == Taken \o Waiting

NotYet == [status |-> "none", data |-> "none"]
Answered(h) == h \in Completed \/ (dp \in {"elem", "idx"} /\ h = head)
Answer == [h \in Heads |-> IF Answered(h) THEN buffers[h] ELSE NotYet]

\* Beyond the invariant of VirtioBlkProofs: buffers hold nothing before their chain is
\* answered, and a chain about to be published holds one of the driver's requests.
BuffersIdle == \A h \in Heads : ~Answered(h) => buffers[h] = Untouched
FilledIn == drv = "filled" => desc[avail_ring[Slot(avail_idx)]] \in Requests
RInv == IInv /\ BuffersIdle /\ FilledIn

-----------------------------------------------------------------------------
(***************************************************************************)
(* The actions of BlkService in these terms.                               *)
(***************************************************************************)

\* Nothing the disk shows has changed.
LEMMA MapsToStutter ==
  ASSUME Todo' = Todo, Answer' = Answer, disk' = disk
  PROVE  UNCHANGED Service!vars
BY DEF Service!vars, Todo, Taken, Waiting, Answer, Answered, NotYet

\* A request is appended under a head that is not in use.
LEMMA MapsToPost ==
  ASSUME NEW h \in Heads, NEW r \in Requests,
         Answer[h] = NotYet, \A i \in DOMAIN Todo : Todo[i][1] # h,
         Todo' = Append(Todo, <<h, r>>), Answer' = Answer, disk' = disk
  PROVE  Service!Post(h, r)
BY DEF Service!Post, Service!NoAnswer, Todo, Taken, Waiting, Answer, Answered, NotYet

\* The first request gets one of its answers.
LEMMA MapsToServe ==
  ASSUME Todo # <<>>, NEW s \in Service!Served(Head(Todo)[2], disk),
         disk' = s[1], Answer' = [Answer EXCEPT ![Head(Todo)[1]] = s[2]],
         Todo' = Tail(Todo)
  PROVE  Service!Serve
BY DEF Service!Serve, Todo, Taken, Waiting, Answer, Answered, NotYet

\* The first request disappears.
LEMMA MapsToSwallow ==
  ASSUME Todo # <<>>, Head(Todo)[2].form = "badHeader", Todo' = Tail(Todo),
         disk' = disk, Answer' = Answer
  PROVE  Service!Swallow
BY DEF Service!Swallow, Todo, Taken, Waiting, Answer, Answered, NotYet

\* An answer is taken.
LEMMA MapsToCollect ==
  ASSUME NEW h \in Heads, Answer[h] # NotYet, Answer' = [Answer EXCEPT ![h] = NotYet],
         disk' = disk, Todo' = Todo
  PROVE  Service!Collect(h)
BY DEF Service!Collect, Service!NoAnswer, Todo, Taken, Waiting, Answer, Answered, NotYet

-----------------------------------------------------------------------------
(***************************************************************************)
(* The sequence of requests.                                               *)
(***************************************************************************)

Posts == Heads \X (Requests \cup {NoRequest})

\* The posted chains are a sequence of heads and requests.
LEMMA WaitingType ==
  ASSUME TypeOK, Order
  PROVE  /\ avail_idx - last_avail_idx \in Nat
         /\ Waiting \in Seq(Posts)
         /\ Len(Waiting) = avail_idx - last_avail_idx
         /\ \A i \in 1 .. (avail_idx - last_avail_idx) :
              LET h == avail_ring[Slot(last_avail_idx + i - 1)] IN
              h \in Heads /\ Waiting[i] = <<h, desc[h]>>
<1>1. avail_idx - last_avail_idx \in Nat
  BY DEF TypeOK, Order
<1>2. ASSUME NEW i \in 1 .. (avail_idx - last_avail_idx)
      PROVE  LET h == avail_ring[Slot(last_avail_idx + i - 1)] IN
             h \in Heads /\ <<h, desc[h]>> \in Posts
  <2>1. last_avail_idx + i - 1 \in Nat
    BY DEF TypeOK
  <2>2. Slot(last_avail_idx + i - 1) \in Slots
    BY <2>1, SlotIsMod
  <2> QED
    BY <2>2 DEF TypeOK, Posts
<1>3. Waiting \in [1 .. (avail_idx - last_avail_idx) -> Posts]
  BY <1>2 DEF Waiting
<1> QED
  BY <1>1, <1>2, <1>3 DEF Waiting

\* The chain in the dataplane's hands comes first.
LEMMA TodoType ==
  ASSUME TypeOK, Order
  PROVE  /\ Todo \in Seq(Posts)
         /\ dp # "parse" => Todo = Waiting
         /\ dp = "parse" => /\ Todo # <<>>
                           /\ Head(Todo) = <<head, desc[head]>>
                           /\ Tail(Todo) = Waiting
<1>1. Waiting \in Seq(Posts)
  BY WaitingType
<1>2. <<head, desc[head]>> \in Posts
  BY DEF TypeOK, Posts
<1>3. CASE dp = "parse"
  <2>1. Taken = <<<<head, desc[head]>>>> /\ Taken \in Seq(Posts)
    BY <1>2, <1>3 DEF Taken
  <2> QED
    BY <1>1, <1>3, <2>1 DEF Todo
<1>4. CASE dp # "parse"
  BY <1>1, <1>4 DEF Todo, Taken
<1> QED
  BY <1>3, <1>4

-----------------------------------------------------------------------------
(***************************************************************************)
(* Steps the disk does not see.                                            *)
(***************************************************************************)

Quiet ==
  /\ UNCHANGED <<avail_idx, avail_ring, last_avail_idx, desc, head, used_ring, used_mem,
                 last_used, buffers, disk>>
  /\ (dp' = "parse") <=> (dp = "parse")
  /\ (dp' \in {"elem", "idx"}) <=> (dp \in {"elem", "idx"})

\* Registers, eventfds and the interrupt handler are no part of the disk.
LEMMA QuietSteps ==
  ASSUME \/ SetUp \/ Notify \/ TakeIrq \/ ReadIrqStatus \/ AckIrq \/ LeaveIsr
         \/ OpenImage \/ OpenFails \/ WakeUp \/ Drained \/ SetIrqStatus \/ Inject
         \/ UNCHANGED vars
  PROVE  Quiet /\ (drv' = "filled" => drv = "filled")
<1> USE DEF Quiet, guestMem, blkState
<1>1. CASE SetUp \/ Notify \/ TakeIrq \/ ReadIrqStatus
  BY <1>1 DEF SetUp, Notify, TakeIrq, ReadIrqStatus
<1>2. CASE AckIrq \/ LeaveIsr \/ OpenImage \/ OpenFails \/ WakeUp \/ Drained
  BY <1>2 DEF AckIrq, LeaveIsr, OpenImage, OpenFails, WakeUp, Drained
<1>3. CASE SetIrqStatus \/ Inject \/ UNCHANGED vars
  BY <1>3 DEF SetIrqStatus, Inject, vars
<1> QED
  BY <1>1, <1>2, <1>3

\* Such a step leaves requests, answers and image as they are.
LEMMA QuietStutters ==
  ASSUME Quiet, BuffersIdle
  PROVE  UNCHANGED Service!vars /\ BuffersIdle'
<1>1. Waiting' = Waiting
  BY DEF Quiet, Waiting
<1>2. Taken' = Taken
  BY DEF Quiet, Taken
<1>3. Completed' = Completed
  BY DEF Quiet, Completed, UsedWindow
<1>4. ASSUME NEW h PROVE Answered(h)' <=> Answered(h)
  BY <1>3 DEF Quiet, Answered
<1>5. Answer' = Answer
  BY <1>4 DEF Quiet, Answer
<1>6. Todo' = Todo
  BY <1>1, <1>2 DEF Todo
<1>7. BuffersIdle'
  BY <1>4 DEF Quiet, BuffersIdle
<1> QED
  BY <1>5, <1>6, <1>7, MapsToStutter DEF Quiet

-----------------------------------------------------------------------------
(***************************************************************************)
(* The driver.                                                             *)
(***************************************************************************)

\* Filling in a chain disturbs none that is posted, in the device or completed.
LEMMA FillStutters ==
  ASSUME RInv, NEW h \in Heads, NEW r \in Requests, Fill(h, r)
  PROVE  UNCHANGED Service!vars /\ BuffersIdle' /\ FilledIn'
<1>a. TypeOK /\ Order /\ Counting /\ Distinct /\ BuffersIdle
  BY DEF RInv, IInv
<1>b. /\ avail_idx \in Nat /\ last_avail_idx \in Nat /\ last_used \in Nat
      /\ QueueSize \in Nat /\ last_used <= last_avail_idx /\ last_avail_idx <= avail_idx
      /\ h \in free /\ drv = "idle"
  BY <1>a, QueueAssumption DEF TypeOK, Order, Fill
<1>c. avail_idx < last_used + QueueSize
  BY <1>a, <1>b, Span DEF Filled
<1>1. ASSUME NEW i \in 1 .. (avail_idx - last_avail_idx)
      PROVE  LET n == last_avail_idx + i - 1 IN
             avail_ring'[Slot(n)] = avail_ring[Slot(n)] /\ avail_ring[Slot(n)] # h
  <2> DEFINE n == last_avail_idx + i - 1
  <2>1. n \in Nat /\ n < avail_idx /\ last_avail_idx <= n
    BY <1>b
  <2>2. Slot(n) # Slot(avail_idx)
    BY <1>b, <1>c, <2>1, WindowSlots
  <2>3. n \in PostedWindow
    BY <1>b, <2>1 DEF PostedWindow, Filled
  <2>4. avail_ring[Slot(n)] # h
    BY <1>a, <1>b, <2>3 DEF Distinct
  <2>5. avail_ring'[Slot(n)] = avail_ring[Slot(n)]
    BY <1>a, <2>1, <2>2, SlotIsMod DEF Fill, TypeOK
  <2> QED
    BY <2>4, <2>5
<1>2. Waiting' = Waiting
  BY <1>1 DEF Waiting, Fill, blkState
<1>3. dp = "parse" => desc'[head] = desc[head]
  BY <1>a, <1>b DEF Distinct, Busy, Fill, TypeOK
<1>4. Todo' = Todo
  BY <1>2, <1>3 DEF Todo, Taken, Fill
<1>5. Completed' = Completed
  BY DEF Fill, Completed, UsedWindow
<1>6. ASSUME NEW g PROVE Answered(g)' <=> Answered(g)
  BY <1>5 DEF Fill, Answered
<1>7. Answer' = Answer /\ BuffersIdle'
  BY <1>a, <1>6 DEF Fill, Answer, BuffersIdle
<1>8. FilledIn'
  BY <1>a, <1>b, SlotIsMod DEF Fill, FilledIn, TypeOK
<1> QED
  BY <1>4, <1>7, <1>8, MapsToStutter DEF Fill

\* Moving avail.idx on posts the request of the chain filled in.
LEMMA PublishPosts ==
  ASSUME RInv, Publish
  PROVE  (\E h \in Heads, r \in Requests : Service!Post(h, r)) /\ BuffersIdle' /\ FilledIn'
<1> DEFINE h == avail_ring[Slot(avail_idx)]
<1>a. TypeOK /\ Order /\ Distinct /\ BuffersIdle /\ FilledIn
  BY DEF RInv, IInv
<1>b. /\ avail_idx \in Nat /\ last_avail_idx \in Nat /\ last_avail_idx <= avail_idx
      /\ drv = "filled"
  BY <1>a DEF TypeOK, Order, Publish
<1>c. h \in Heads /\ desc[h] \in Requests
  BY <1>a, <1>b, SlotIsMod DEF TypeOK, FilledIn
<1>d. avail_idx \in PostedWindow
  BY <1>b DEF PostedWindow, Filled
<1>1. ~Answered(h)
  BY <1>a, <1>d DEF Answered, Completed, Distinct, Busy
<1>2. Answer[h] = NotYet
  BY <1>1, <1>c DEF Answer
<1>3. ASSUME NEW i \in 1 .. (avail_idx - last_avail_idx) PROVE Waiting[i][1] # h
  <2>1. last_avail_idx + i - 1 \in PostedWindow /\ last_avail_idx + i - 1 # avail_idx
    BY <1>b DEF PostedWindow, Filled
  <2>2. avail_ring[Slot(last_avail_idx + i - 1)] # h
    BY <1>a, <1>d, <2>1 DEF Distinct
  <2> QED
    BY <2>2 DEF Waiting
<1>4. \A i \in DOMAIN Todo : Todo[i][1] # h
  <2>1. CASE dp # "parse"
    BY <1>a, <1>3, <2>1, TodoType, WaitingType
  <2>2. CASE dp = "parse"
    <3>1. head # h
      BY <1>a, <1>d, <2>2 DEF Distinct, Busy
    <3>2. Taken = <<<<head, desc[head]>>>>
      BY <2>2 DEF Taken
    <3> QED
      BY <1>a, <1>3, <3>1, <3>2, WaitingType DEF Todo
  <2> QED
    BY <2>1, <2>2
<1>5. Waiting' = Append(Waiting, <<h, desc[h]>>)
  <2>1. avail_idx' = avail_idx + 1 /\ UNCHANGED <<last_avail_idx, avail_ring, desc>>
    BY DEF Publish, blkState
  <2> DEFINE n == avail_idx - last_avail_idx
  <2>2. n \in Nat /\ avail_idx' - last_avail_idx' = n + 1
    BY <1>b, <2>1
  <2>3. Waiting' = [i \in 1 .. (n + 1) |->
                      LET g == avail_ring[Slot(last_avail_idx + i - 1)] IN <<g, desc[g]>>]
    BY <2>1, <2>2 DEF Waiting
  <2>4. last_avail_idx + (n + 1) - 1 = avail_idx
    BY <1>b
  <2>5. Waiting'[n + 1] = <<h, desc[h]>>
    BY <2>2, <2>3, <2>4
  <2>6. \A i \in 1 .. n : Waiting'[i] = Waiting[i]
    BY <2>2, <2>3 DEF Waiting
  <2>7. Waiting \in Seq(Posts) /\ Len(Waiting) = n
    BY <1>a, WaitingType
  <2>8. <<h, desc[h]>> \in Posts
    BY <1>c DEF Posts
  <2>9. \A i \in 1 .. n : Waiting[i] \in Posts
    BY <2>7
  <2>10. Waiting' \in Seq(Posts) /\ Len(Waiting') = n + 1
    <3>1. \A i \in 1 .. (n + 1) : Waiting'[i] \in Posts
      BY <2>2, <2>5, <2>6, <2>8, <2>9
    <3>2. Waiting' \in [1 .. (n + 1) -> Posts]
      BY <2>3, <3>1
    <3> QED
      BY <2>2, <3>2
  <2>11. Append(Waiting, <<h, desc[h]>>) \in Seq(Posts)
         /\ Len(Append(Waiting, <<h, desc[h]>>)) = n + 1
    BY <2>7, <2>8, AppendProperties
  <2>12. \A i \in 1 .. (n + 1) : Waiting'[i] = Append(Waiting, <<h, desc[h]>>)[i]
    BY <2>2, <2>5, <2>6, <2>7, <2>8, AppendProperties
  <2> QED
    BY <2>10, <2>11, <2>12, SeqEqual
<1>6. Todo' = Append(Todo, <<h, desc[h]>>)
  <2>1. Taken' = Taken
    BY DEF Publish, Taken
  <2>2. Taken \in Seq(Posts) /\ Waiting \in Seq(Posts) /\ <<h, desc[h]>> \in Posts
    <3>1. <<h, desc[h]>> \in Posts /\ <<head, desc[head]>> \in Posts
      BY <1>a, <1>c DEF TypeOK, Posts
    <3>2. Taken \in Seq(Posts)
      BY <3>1 DEF Taken
    <3> QED
      BY <1>a, <3>1, <3>2, WaitingType
  <2>3. Append(Waiting, <<h, desc[h]>>) = Waiting \o <<<<h, desc[h]>>>>
    BY <2>2, AppendIsConcat
  <2>4. <<<<h, desc[h]>>>> \in Seq(Posts)
    BY <2>2
  <2>5. Todo' = (Taken \o Waiting) \o <<<<h, desc[h]>>>>
    <3>1. Todo' = Taken \o (Waiting \o <<<<h, desc[h]>>>>)
      BY <1>5, <2>1, <2>3, Zenon DEF Todo
    <3> HIDE DEF h
    <3>2. (Taken \o Waiting) \o <<<<h, desc[h]>>>> = Taken \o (Waiting \o <<<<h, desc[h]>>>>)
      BY <2>2, <2>4, ConcatAssociative
    <3> QED
      BY <3>1, <3>2
  <2>6. Todo \in Seq(Posts)
    BY <1>a, TodoType
  <2> QED
    BY <2>2, <2>5, <2>6, AppendIsConcat DEF Todo
<1>7. Completed' = Completed
  BY DEF Publish, Completed, UsedWindow
<1>8. ASSUME NEW g PROVE Answered(g)' <=> Answered(g)
  BY <1>7 DEF Publish, Answered
<1>9. Answer' = Answer /\ BuffersIdle' /\ FilledIn' /\ disk' = disk
  BY <1>a, <1>8 DEF Publish, Answer, BuffersIdle, FilledIn
<1>10. Service!Post(h, desc[h])
  BY <1>2, <1>4, <1>6, <1>9, <1>c, MapsToPost
<1> QED
  BY <1>9, <1>10, <1>c

\* Taking an element off the used ring collects its answer.
LEMMA CollectCollects ==
  ASSUME RInv, Collect
  PROVE  (\E h \in Heads : Service!Collect(h)) /\ BuffersIdle' /\ FilledIn'
<1>a. TypeOK /\ Order /\ Distinct /\ BuffersIdle /\ FilledIn
  BY DEF RInv, IInv
<1>b. last_used \in Nat /\ used_mem \in Nat /\ last_used <= used_mem /\ last_used # used_mem
  BY <1>a DEF TypeOK, Order, Collect
<1>h. PICK h \in Heads : h = used_ring[Slot(last_used)]
  BY <1>a, <1>b, SlotIsMod DEF TypeOK
<1>c. last_used \in UsedWindow
  BY <1>b DEF UsedWindow
<1>1. UsedWindow' = UsedWindow \ {last_used}
  BY <1>b DEF Collect, UsedWindow
<1>2. \A n \in UsedWindow : used_ring[Slot(n)] = h => n = last_used
  BY <1>a, <1>c, <1>h DEF Distinct
<1>3. Completed' = Completed \ {h}
  BY <1>1, <1>2, <1>h DEF Collect, Completed
<1>4. dp \in {"elem", "idx"} => h # head
  BY <1>a, <1>c, <1>h DEF Distinct, Busy
<1>5. Answered(h) /\ ~Answered(h)'
  BY <1>3, <1>4, <1>c, <1>h DEF Collect, Answered, Completed
<1>6. ASSUME NEW g \in Heads, g # h PROVE Answered(g)' <=> Answered(g)
  BY <1>3, <1>6 DEF Collect, Answered
<1>7. buffers' = [buffers EXCEPT ![h] = Untouched]
  BY <1>h DEF Collect
<1>8. buffers[h] # NotYet
  BY <1>a, <1>c DEF TypeOK, Answers, NotYet
<1>9. Answer[h] # NotYet
  BY <1>5, <1>8, <1>c DEF Answer
<1>10. Answer' = [Answer EXCEPT ![h] = NotYet]
  <2>1. ASSUME NEW g \in Heads PROVE Answer'[g] = [Answer EXCEPT ![h] = NotYet][g]
    BY <1>a, <1>5, <1>6, <1>7, <1>c DEF Answer, TypeOK
  <2> QED
    BY <2>1 DEF Answer
<1>11. BuffersIdle'
  BY <1>a, <1>5, <1>6, <1>7, <1>c DEF BuffersIdle, TypeOK
<1>12. Todo' = Todo /\ disk' = disk /\ FilledIn'
  <2>1. Waiting' = Waiting
    BY DEF Collect, guestMem, blkState, Waiting
  <2> QED
    BY <1>a, <2>1 DEF Collect, guestMem, Todo, Taken, FilledIn
<1>13. Service!Collect(h)
  BY <1>9, <1>10, <1>12, <1>c, MapsToCollect
<1> QED
  BY <1>11, <1>12, <1>13, <1>c

-----------------------------------------------------------------------------
(***************************************************************************)
(* The dataplane.                                                          *)
(***************************************************************************)

\* The chain next_avail takes was the first in the ring, and is still the first.
LEMMA NextAvailStutters ==
  ASSUME RInv, NextAvail
  PROVE  UNCHANGED Service!vars /\ BuffersIdle' /\ FilledIn'
<1> DEFINE n == avail_idx - last_avail_idx
           ahead(i) == LET h == avail_ring[Slot(last_avail_idx + i - 1)] IN <<h, desc[h]>>
<1>a. TypeOK /\ Order /\ BuffersIdle /\ FilledIn
  BY DEF RInv, IInv
<1>b. /\ last_avail_idx \in Nat /\ avail_idx \in Nat /\ last_avail_idx <= avail_idx
      /\ last_avail_idx # avail_idx /\ dp = "drain" /\ dp' = "parse"
      /\ last_avail_idx' = last_avail_idx + 1 /\ head' = avail_ring[Slot(last_avail_idx)]
      /\ UNCHANGED <<avail_idx, avail_ring, desc, buffers, used_mem, used_ring, last_used,
                     disk, drv>>
  BY <1>a DEF TypeOK, Order, NextAvail, HasAvail, guestMem
<1>c. n \in Nat \ {0} /\ avail_idx' - last_avail_idx' = n - 1
  BY <1>b
<1>1. Todo = Waiting /\ Waiting \in Seq(Posts) /\ Len(Waiting) = n
  BY <1>a, <1>b, TodoType, WaitingType
<1>2. \A i \in 1 .. n : Waiting[i] = ahead(i) /\ ahead(i) \in Posts
  <2>1. \A i \in 1 .. n : Waiting[i] = ahead(i)
    BY DEF Waiting
  <2>2. \A i \in 1 .. n : Waiting[i] \in Posts
    BY <1>1
  <2> QED
    BY <2>1, <2>2
<1>3. Waiting' = [i \in 1 .. (n - 1) |-> ahead(i + 1)]
  <2>1. \A i \in 1 .. (n - 1) : last_avail_idx' + i - 1 = last_avail_idx + (i + 1) - 1
    BY <1>b, <1>c
  <2> QED
    BY <1>b, <1>c, <2>1 DEF Waiting
<1>4. Waiting' \in Seq(Posts) /\ Len(Waiting') = n - 1
  <2>1. \A i \in 1 .. (n - 1) : ahead(i + 1) \in Posts
    BY <1>c, <1>2
  <2> HIDE DEF ahead
  <2> QED
    BY <1>c, <1>3, <2>1
<1>5. Taken' = <<ahead(1)>>
  <2>1. last_avail_idx + 1 - 1 = last_avail_idx
    BY <1>b
  <2> QED
    BY <1>b, <2>1 DEF Taken
<1>6. <<ahead(1)>> \in Seq(Posts) /\ Len(<<ahead(1)>>) = 1 /\ <<ahead(1)>>[1] = ahead(1)
  <2>1. ahead(1) \in Posts
    BY <1>c, <1>2
  <2> HIDE DEF ahead
  <2> QED
    BY <2>1
<1> HIDE DEF ahead
<1>7. Todo' = <<ahead(1)>> \o Waiting'
  BY <1>5 DEF Todo
<1>8. Todo' \in Seq(Posts) /\ Len(Todo') = n
  BY <1>c, <1>4, <1>6, <1>7, ConcatProperties
<1>9. ASSUME NEW i \in 1 .. n PROVE Todo'[i] = Todo[i]
  <2>1. Todo'[i] = IF i <= 1 THEN <<ahead(1)>>[i] ELSE Waiting'[i - 1]
    BY <1>c, <1>4, <1>6, <1>7, ConcatProperties
  <2>2. CASE i = 1
    BY <1>1, <1>2, <1>6, <2>1, <2>2
  <2>3. CASE i # 1
    <3>1. i - 1 \in 1 .. (n - 1) /\ (i - 1) + 1 = i /\ ~(i <= 1)
      BY <1>c, <2>3
    <3>2. Waiting'[i - 1] = ahead(i)
      BY <1>3, <3>1
    <3> QED
      BY <1>1, <1>2, <2>1, <3>1, <3>2
  <2> QED
    BY <2>2, <2>3
<1>10. Todo' = Todo
  BY <1>1, <1>8, <1>9, SeqEqual
<1>11. Completed' = Completed
  BY <1>b DEF Completed, UsedWindow
<1>12. ASSUME NEW h PROVE Answered(h)' <=> Answered(h)
  BY <1>b, <1>11 DEF Answered
<1>13. Answer' = Answer /\ BuffersIdle' /\ FilledIn'
  BY <1>a, <1>b, <1>12 DEF Answer, BuffersIdle, FilledIn
<1> QED
  BY <1>b, <1>10, <1>13, MapsToStutter

\* What blk_dataplane may do for a well-formed request is what the disk may answer.
LEMMA ExecuteServes ==
  ASSUME NEW r \in Requests, r.form \in {"good", "badBuffer"}, NEW e \in Execute(r)
  PROVE  e \in Service!Served(r, disk)
<1>1. /\ r.type \in {"IN", "OUT", "FLUSH", "GET_ID", "OTHER"}
      /\ r.devWrites \in BOOLEAN /\ ReadOnly \in BOOLEAN
  BY RequestAssumption DEF RequestType
<1>2. CASE r.type = "IN"
  BY <1>2 DEF Execute, Service!Served
<1>3. CASE r.type = "OUT"
  BY <1>3 DEF Execute, Service!Served
<1>4. CASE r.type = "FLUSH"
  BY <1>4 DEF Execute, Service!Served
<1>5. CASE r.type = "GET_ID"
  BY <1>5 DEF Execute, Service!Served
<1>6. CASE r.type = "OTHER"
  BY <1>6 DEF Execute, Service!Served
<1> QED
  BY <1>1, <1>2, <1>3, <1>4, <1>5, <1>6

\* The dataplane is done with its chain: the rest of the requests stay, and the answer
\* is what it left in the buffers.
LEMMA AnswerOfHead ==
  ASSUME RInv, dp = "parse", dp' \in {"elem", "idx"},
         UNCHANGED <<avail_idx, avail_ring, last_avail_idx, desc, head, used_ring, used_mem,
                     last_used, drv>>,
         NEW b, buffers' = [buffers EXCEPT ![head] = b]
  PROVE  /\ Todo # <<>> /\ Head(Todo) = <<head, desc[head]>> /\ Todo' = Tail(Todo)
         /\ Answer' = [Answer EXCEPT ![head] = b]
         /\ BuffersIdle' /\ FilledIn'
<1>a. TypeOK /\ Order /\ BuffersIdle /\ FilledIn
  BY DEF RInv, IInv
<1>1. Todo # <<>> /\ Head(Todo) = <<head, desc[head]>> /\ Tail(Todo) = Waiting
  BY <1>a, TodoType
<1>2. Waiting' = Waiting
  BY DEF Waiting
<1>3. Waiting \in Seq(Posts)
  BY <1>a, WaitingType
<1>4. Todo' = Waiting
  <2>1. Taken' = <<>>
    BY DEF Taken
  <2> QED
    BY <1>2, <1>3, <2>1 DEF Todo
<1>5. Completed' = Completed
  BY DEF Completed, UsedWindow
<1>6. ASSUME NEW h \in Heads PROVE Answered(h)' <=> Answered(h) \/ h = head
  BY <1>5 DEF Answered
<1>7. Answer' = [Answer EXCEPT ![head] = b]
  <2>1. ASSUME NEW h \in Heads PROVE Answer'[h] = [Answer EXCEPT ![head] = b][h]
    BY <1>a, <1>6 DEF Answer, TypeOK
  <2> QED
    BY <2>1 DEF Answer
<1>8. BuffersIdle'
  BY <1>a, <1>6 DEF BuffersIdle, TypeOK
<1>9. FilledIn'
  BY <1>a DEF FilledIn
<1> QED
  BY <1>1, <1>4, <1>7, <1>8, <1>9

\* Executing a well-formed request serves it.
LEMMA DoRequestServes ==
  ASSUME RInv, DoRequest
  PROVE  Service!Serve /\ BuffersIdle' /\ FilledIn'
<1>a. TypeOK
  BY DEF RInv, IInv
<1>1. PICK e \in Execute(desc[head]) :
        disk' = e[1] /\ buffers' = [buffers EXCEPT ![head] = e[2]]
  BY DEF DoRequest
<1>2. desc[head] \in Requests /\ desc[head].form \in {"good", "badBuffer"}
  BY <1>a DEF TypeOK, DoRequest, NoRequest
<1>3. e \in Service!Served(desc[head], disk)
  BY <1>2, ExecuteServes
<1>4. /\ Todo # <<>> /\ Head(Todo) = <<head, desc[head]>> /\ Todo' = Tail(Todo)
      /\ Answer' = [Answer EXCEPT ![head] = e[2]] /\ BuffersIdle' /\ FilledIn'
  BY <1>1, AnswerOfHead DEF DoRequest, guestMem, blkState
<1>5. Head(Todo)[1] = head /\ Head(Todo)[2] = desc[head]
  BY <1>4
<1> QED
  BY <1>1, <1>3, <1>4, <1>5, MapsToServe

\* A chain of one descriptor is answered with its buffers as they were.
LEMMA ShortChainServes ==
  ASSUME RInv, ShortChain
  PROVE  Service!Serve /\ BuffersIdle' /\ FilledIn'
<1>a. TypeOK /\ Distinct /\ BuffersIdle
  BY DEF RInv, IInv
<1>1. head \in Heads /\ ~Answered(head) /\ desc[head].form = "short"
  BY <1>a DEF TypeOK, Distinct, Busy, Answered, Completed, ShortChain
<1>2. buffers' = [buffers EXCEPT ![head] = Untouched]
  BY <1>a, <1>1 DEF BuffersIdle, TypeOK, ShortChain
<1>3. /\ Todo # <<>> /\ Head(Todo) = <<head, desc[head]>> /\ Todo' = Tail(Todo)
      /\ Answer' = [Answer EXCEPT ![head] = Untouched] /\ BuffersIdle' /\ FilledIn'
  BY <1>2, AnswerOfHead DEF ShortChain, guestMem, blkState
<1>4. <<disk, Untouched>> \in Service!Served(desc[head], disk)
  BY <1>1 DEF Service!Served, Untouched
<1>5. Head(Todo)[1] = head /\ Head(Todo)[2] = desc[head]
  BY <1>3
<1>6. PICK s \in Service!Served(desc[head], disk) : s = <<disk, Untouched>>
  BY <1>4
<1>7. disk' = s[1] /\ s[2] = Untouched
  BY <1>6 DEF ShortChain
<1> QED
  BY <1>3, <1>5, <1>6, <1>7, MapsToServe

\* A chain whose header cannot be read is swallowed.
LEMMA BadHeaderSwallows ==
  ASSUME RInv, BadHeader
  PROVE  Service!Swallow /\ BuffersIdle' /\ FilledIn'
<1>a. TypeOK /\ Order /\ BuffersIdle /\ FilledIn
  BY DEF RInv, IInv
<1>b. /\ dp = "parse" /\ dp' = "drain" /\ desc[head].form = "badHeader"
      /\ UNCHANGED <<avail_idx, avail_ring, last_avail_idx, desc, head, used_ring, used_mem,
                     last_used, drv, buffers, disk>>
  BY DEF BadHeader, guestMem, blkState
<1>1. Todo # <<>> /\ Head(Todo) = <<head, desc[head]>> /\ Tail(Todo) = Waiting
  BY <1>a, <1>b, TodoType
<1>2. Waiting' = Waiting /\ Waiting \in Seq(Posts)
  BY <1>a, <1>b, WaitingType DEF Waiting
<1>3. Todo' = Waiting
  <2>1. Taken' = <<>>
    BY <1>b DEF Taken
  <2> QED
    BY <1>2, <2>1 DEF Todo
<1>4. Completed' = Completed
  BY <1>b DEF Completed, UsedWindow
<1>5. ASSUME NEW h PROVE Answered(h)' <=> Answered(h)
  BY <1>b, <1>4 DEF Answered
<1>6. Answer' = Answer /\ BuffersIdle' /\ FilledIn'
  BY <1>a, <1>b, <1>5 DEF Answer, BuffersIdle, FilledIn
<1> QED
  BY <1>b, <1>1, <1>3, <1>6, MapsToSwallow

\* add_used: first the element, in a slot nobody reads yet, then the index.
LEMMA AddUsedStutters ==
  ASSUME RInv, AddUsedElem \/ AddUsedIdx
  PROVE  UNCHANGED Service!vars /\ BuffersIdle' /\ FilledIn'
<1>a. TypeOK /\ Order /\ Counting /\ Distinct /\ BuffersIdle /\ FilledIn
  BY DEF RInv, IInv
<1>b. /\ dp \in {"elem", "idx"} /\ dp' # "parse"
      /\ UNCHANGED <<avail_idx, avail_ring, last_avail_idx, desc, head, last_used, drv,
                     buffers, disk>>
  BY DEF AddUsedElem, AddUsedIdx, guestMem, blkState
<1>c. /\ used_idx \in Nat /\ last_used \in Nat /\ used_mem = used_idx /\ QueueSize \in Nat
      /\ avail_idx \in Nat /\ last_avail_idx \in Nat /\ last_used <= used_idx
      /\ used_idx < last_avail_idx /\ last_avail_idx <= avail_idx
  BY <1>a, <1>b, QueueAssumption DEF TypeOK, Order, Busy
<1>d. used_idx < last_used + QueueSize
  BY <1>a, <1>c, Span
<1>1. Todo' = Todo
  <2>1. Waiting' = Waiting
    BY <1>b DEF Waiting
  <2> QED
    BY <1>b, <2>1 DEF Todo, Taken
<1>2. ASSUME NEW h PROVE Answered(h)' <=> Answered(h)
  <2>1. CASE AddUsedElem
    <3>1. ASSUME NEW n \in UsedWindow PROVE used_ring'[Slot(n)] = used_ring[Slot(n)]
      <4>1. n \in Nat /\ last_used <= n /\ n < used_idx
        BY <1>c DEF UsedWindow
      <4>2. Slot(n) # Slot(used_idx)
        BY <1>c, <1>d, <4>1, WindowSlots
      <4> QED
        BY <1>a, <2>1, <4>1, <4>2, SlotIsMod DEF AddUsedElem, TypeOK
    <3>2. UsedWindow' = UsedWindow
      BY <2>1 DEF AddUsedElem, UsedWindow
    <3>3. Completed' = Completed
      BY <3>1, <3>2 DEF Completed
    <3> QED
      BY <1>b, <2>1, <3>3 DEF AddUsedElem, Answered
  <2>2. CASE AddUsedIdx
    <3>1. UsedWindow' = UsedWindow \cup {used_idx}
      BY <1>c, <2>2 DEF AddUsedIdx, UsedWindow
    <3>2. used_ring[Slot(used_idx)] = head
      BY <1>a, <2>2 DEF AddUsedIdx, Distinct
    <3>3. Completed' = Completed \cup {head}
      BY <2>2, <3>1, <3>2 DEF AddUsedIdx, Completed
    <3>4. dp' \notin {"elem", "idx"}
      BY <2>2 DEF AddUsedIdx
    <3> QED
      BY <1>b, <3>3, <3>4 DEF Answered
  <2> QED
    BY <2>1, <2>2
<1>3. Answer' = Answer /\ BuffersIdle' /\ FilledIn'
  BY <1>a, <1>b, <1>2 DEF Answer, BuffersIdle, FilledIn
<1> QED
  BY <1>b, <1>1, <1>3, MapsToStutter

-----------------------------------------------------------------------------
(***************************************************************************)
(* The theorem.                                                            *)
(***************************************************************************)

\* An empty ring is an empty queue of requests.
LEMMA InitMaps == Init => RInv /\ Service!Init
<1> SUFFICES ASSUME Init PROVE RInv /\ Service!Init
  OBVIOUS
<1>1. RInv
  BY InitIInv DEF Init, RInv, BuffersIdle, FilledIn
<1>2. Completed = {}
  BY DEF Init, Completed, UsedWindow
<1>3. ASSUME NEW h PROVE ~Answered(h)
  BY <1>2 DEF Init, Answered
<1>4. Answer = [h \in Heads |-> NotYet]
  BY <1>3 DEF Answer
<1>5. Todo = <<>>
  <2>1. TypeOK /\ Order
    BY <1>1 DEF RInv, IInv
  <2>2. Waiting \in Seq(Posts) /\ Len(Waiting) = 0
    BY <2>1, WaitingType DEF Init
  <2> QED
    BY <2>1, <2>2, TodoType DEF Init
<1>6. Service!Init
  BY <1>4, <1>5, RequestAssumption
  DEF Init, Service!Init, Service!NoAnswer, Todo, Taken, Waiting, Answer, Answered, NotYet
<1> QED
  BY <1>1, <1>6

\* Every step of vCPUs, driver and dataplane is a step of the disk or none.
LEMMA NextMaps == RInv /\ [Next]_vars => RInv' /\ [Service!Next]_(Service!vars)
<1> SUFFICES ASSUME RInv, [Next]_vars PROVE RInv' /\ [Service!Next]_(Service!vars)
  OBVIOUS
<1>1. IInv'
  BY TypeNext, OrderNext, DistinctNext, KickNext, IrqNext DEF IInv, RInv
<1> SUFFICES BuffersIdle' /\ FilledIn' /\ [Service!Next]_(Service!vars)
  BY <1>1 DEF RInv
<1>2. CASE \/ SetUp \/ Notify \/ TakeIrq \/ ReadIrqStatus \/ AckIrq \/ LeaveIsr
           \/ OpenImage \/ OpenFails \/ WakeUp \/ Drained \/ SetIrqStatus \/ Inject
         \/ UNCHANGED vars
  <2>1. Quiet /\ (drv' = "filled" => drv = "filled")
    BY <1>2, QuietSteps
  <2>2. FilledIn'
    BY <2>1 DEF RInv, FilledIn, Quiet
  <2> QED
    BY <2>1, <2>2, QuietStutters DEF RInv
<1>3. ASSUME NEW h \in Heads, NEW r \in Requests, Fill(h, r)
      PROVE  BuffersIdle' /\ FilledIn' /\ [Service!Next]_(Service!vars)
  BY <1>3, FillStutters
<1>4. CASE Publish
  BY <1>4, PublishPosts DEF Service!Next
<1>5. CASE Collect
  BY <1>5, CollectCollects DEF Service!Next
<1>6. CASE NextAvail
  BY <1>6, NextAvailStutters
<1>7. CASE DoRequest
  BY <1>7, DoRequestServes DEF Service!Next
<1>8. CASE ShortChain
  BY <1>8, ShortChainServes DEF Service!Next
<1>9. CASE BadHeader
  BY <1>9, BadHeaderSwallows DEF Service!Next
<1>10. CASE AddUsedElem \/ AddUsedIdx
  BY <1>10, AddUsedStutters
<1> QED
  BY <1>2, <1>3, <1>4, <1>5, <1>6, <1>7, <1>8, <1>9, <1>10 DEF Next, Driver, Isr, Dataplane

\* For every queue size, index range and set of requests, read-only disks included:
\* blk_dataplane serves the requests in the order the driver made them available, each
\* exactly once, whatever vCPU threads and interrupt handler do meanwhile.
THEOREM ServiceImplemented == Spec => ImplementsService
<1>1. Init => RInv /\ Service!Init
  BY InitMaps
<1>2. RInv /\ [Next]_vars => RInv' /\ [Service!Next]_(Service!vars)
  BY NextMaps
<1> QED
  BY <1>1, <1>2, PTL DEF Spec, ImplementsService, Service!Spec

=============================================================================

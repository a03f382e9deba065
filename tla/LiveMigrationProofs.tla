------------------------ MODULE LiveMigrationProofs -------------------------
(***************************************************************************)
(* For any number of pages, writes and faults: the types of the migration, *)
(* that the virtual machine does not run on both nodes, that it is never   *)
(* given up on both, and that what the guest wrote while it was copied has *)
(* arrived before the destination answers RUNNING.                         *)
(***************************************************************************)
EXTENDS LiveMigration, TLAPS

\* Where run_migration can be while the guest of the source may still run.
BeforeBlackout ==
  {"setup", "connect", "ready", "track", "copy", "send", "pause", "failed", "hung"}

\* While the guest runs and nothing was refused, no DONE is under way.
NoDoneWhileRunning ==
  src = "run" /\ ~refused =>
    /\ pc \in BeforeBlackout
    /\ dst # "running"
    /\ \A i \in 1 .. Len(out) : out[i].type # "Done"

\* The source is deleted, and RUNNING is believed, only after the destination ran.
RunningBelieved ==
  /\ src = "deleted" => dst = "running"
  /\ pc \in {"cleanup", "complete"} => dst = "running"
  /\ \A i \in 1 .. Len(back) : back[i].type = "Running" => dst = "running"

IInv == TypeOK /\ NoDoneWhileRunning /\ RunningBelieved

-----------------------------------------------------------------------------

\* A queue of records: what Append, Head and Tail do to a property of its members.
LEMMA QueueFacts ==
  ASSUME NEW S, NEW q \in Seq(S)
  PROVE  /\ \A m \in S : /\ Append(q, m) \in Seq(S)
                         /\ Len(Append(q, m)) = Len(q) + 1
                         /\ Append(q, m)[Len(q) + 1] = m
                         /\ \A i \in 1 .. Len(q) : Append(q, m)[i] = q[i]
         /\ q # <<>> => /\ Head(q) \in S /\ Head(q) = q[1] /\ Len(q) \in Nat \ {0}
                        /\ Tail(q) \in Seq(S)
                        /\ Len(Tail(q)) = Len(q) - 1
                        /\ \A i \in 1 .. Len(Tail(q)) : Tail(q)[i] = q[i + 1]
  OBVIOUS

\* A migration starts with the guest running, nothing sent and nothing deleted.
LEMMA InitIInv == Init => IInv
<1> SUFFICES ASSUME Init PROVE IInv
  OBVIOUS
<1>1. 1 \in Versions
  BY MigrationAssumption DEF Versions
<1>2. out \in Seq(SourceMsgs) /\ back \in Seq(DestMsgs) /\ Len(out) = 0 /\ Len(back) = 0
  BY DEF Init
<1>3. TypeOK
  <2>1. 0 \in 0 .. MaxFaults
    BY MigrationAssumption
  <2> QED
    BY <1>1, <1>2, <2>1 DEF Init, TypeOK, Points
<1>4. NoDoneWhileRunning /\ RunningBelieved
  BY DEF Init, NoDoneWhileRunning, RunningBelieved, BeforeBlackout
<1> QED
  BY <1>3, <1>4 DEF IInv

\* Every step of source, destination, guest and faults keeps the invariant.
LEMMA NextIInv == IInv /\ [Next]_vars => IInv'
<1> SUFFICES ASSUME IInv, [Next]_vars PROVE IInv'
  OBVIOUS
<1> USE MigrationAssumption DEF IInv, vmm, job, stream, dest
<1>q. /\ out \in Seq(SourceMsgs) /\ back \in Seq(DestMsgs)
  BY DEF TypeOK
<1>1. CASE Prepare
  <2>1. TypeOK'
    BY <1>1 DEF Prepare, TypeOK, Points
  <2>2. NoDoneWhileRunning'
    BY <1>1 DEF Prepare, NoDoneWhileRunning, BeforeBlackout
  <2>3. RunningBelieved'
    BY <1>1 DEF Prepare, RunningBelieved, TypeOK
  <2> QED
    BY <2>1, <2>2, <2>3
<1>2. CASE Connect
  <2>1. TypeOK'
    BY <1>2 DEF Connect, Send, Plain, Msg, TypeOK, Points, SourceMsgs
  <2>2. NoDoneWhileRunning'
    BY <1>2 DEF Connect, Send, Plain, Msg, NoDoneWhileRunning, BeforeBlackout
  <2>3. RunningBelieved'
    BY <1>2 DEF Connect, Send, RunningBelieved
  <2> QED
    BY <2>1, <2>2, <2>3
<1>3. CASE ExpectReady
  <2>1. TypeOK'
    BY <1>3 DEF ExpectReady, Expect, Closed, TypeOK, Points
  <2>2. NoDoneWhileRunning'
    BY <1>3 DEF ExpectReady, Expect, NoDoneWhileRunning, BeforeBlackout
  <2>3. RunningBelieved'
    BY <1>3 DEF ExpectReady, Expect, RunningBelieved
  <2> QED
    BY <2>1, <2>2, <2>3
<1>4. CASE EnableDirtyTracking
  <2>1. TypeOK'
    BY <1>4 DEF EnableDirtyTracking, TypeOK, Points
  <2>2. NoDoneWhileRunning'
    BY <1>4 DEF EnableDirtyTracking, NoDoneWhileRunning, BeforeBlackout
  <2>3. RunningBelieved'
    BY <1>4 DEF EnableDirtyTracking, RunningBelieved, TypeOK
  <2> QED
    BY <2>1, <2>2, <2>3
<1>5. CASE GetDirtyLog
  <2>1. TypeOK'
    BY <1>5 DEF GetDirtyLog, TypeOK, Points
  <2>2. NoDoneWhileRunning'
    BY <1>5 DEF GetDirtyLog, NoDoneWhileRunning, BeforeBlackout
  <2>3. RunningBelieved'
    BY <1>5 DEF GetDirtyLog, RunningBelieved, TypeOK
  <2> QED
    BY <2>1, <2>2, <2>3
<1>6. CASE SendPage
  <2>1. TypeOK'
    BY <1>6 DEF SendPage, Send, Msg, TypeOK, SourceMsgs
  <2>2. NoDoneWhileRunning'
    BY <1>6 DEF SendPage, Send, Msg, NoDoneWhileRunning
  <2>3. RunningBelieved'
    BY <1>6 DEF SendPage, Send, RunningBelieved
  <2> QED
    BY <2>1, <2>2, <2>3
<1>7. CASE EndPass
  <2>1. TypeOK'
    BY <1>7 DEF EndPass, TypeOK, Points
  <2>2. NoDoneWhileRunning'
    BY <1>7 DEF EndPass, NoDoneWhileRunning, BeforeBlackout
  <2>3. RunningBelieved'
    BY <1>7 DEF EndPass, RunningBelieved
  <2> QED
    BY <2>1, <2>2, <2>3
<1>8. CASE PauseVcpus
  <2>1. TypeOK'
    BY <1>8 DEF PauseVcpus, TypeOK, Points
  <2>2. NoDoneWhileRunning'
    BY <1>8 DEF PauseVcpus, NoDoneWhileRunning
  <2>3. RunningBelieved'
    BY <1>8 DEF PauseVcpus, RunningBelieved, TypeOK
  <2> QED
    BY <2>1, <2>2, <2>3
<1>9. CASE EndFinal
  <2>1. TypeOK'
    BY <1>9 DEF EndFinal, TypeOK, Points
  <2>2. NoDoneWhileRunning'
    BY <1>9 DEF EndFinal, NoDoneWhileRunning, BeforeBlackout
  <2>3. RunningBelieved'
    BY <1>9 DEF EndFinal, RunningBelieved, TypeOK
  <2> QED
    BY <2>1, <2>2, <2>3
<1>10. CASE TransferVcpuState
  <2>1. TypeOK'
    BY <1>10 DEF TransferVcpuState, Send, Msg, TypeOK, Points, SourceMsgs
  <2>2. NoDoneWhileRunning'
    BY <1>10 DEF TransferVcpuState, NoDoneWhileRunning, BeforeBlackout
  <2>3. RunningBelieved'
    BY <1>10 DEF TransferVcpuState, Send, RunningBelieved
  <2> QED
    BY <2>1, <2>2, <2>3
<1>11. CASE SendDone
  <2>1. TypeOK'
    BY <1>11 DEF SendDone, Send, Plain, Msg, TypeOK, Points, SourceMsgs
  <2>2. NoDoneWhileRunning'
    BY <1>11 DEF SendDone, NoDoneWhileRunning, BeforeBlackout
  <2>3. RunningBelieved'
    BY <1>11 DEF SendDone, Send, RunningBelieved
  <2> QED
    BY <2>1, <2>2, <2>3
<1>12. CASE ExpectRunning
  <2>1. TypeOK'
    BY <1>12 DEF ExpectRunning, Expect, Closed, TypeOK, Points
  <2>2. NoDoneWhileRunning'
    BY <1>12 DEF ExpectRunning, Expect, NoDoneWhileRunning, BeforeBlackout
  <2>3. RunningBelieved'
    BY <1>12 DEF ExpectRunning, Expect, RunningBelieved
  <2> QED
    BY <2>1, <2>2, <2>3
<1>13. CASE CleanUp
  <2>1. TypeOK'
    BY <1>13 DEF CleanUp, TypeOK, Points
  <2>2. NoDoneWhileRunning'
    BY <1>13 DEF CleanUp, NoDoneWhileRunning, BeforeBlackout
  <2>3. RunningBelieved'
    BY <1>13 DEF CleanUp, RunningBelieved, TypeOK
  <2> QED
    BY <2>1, <2>2, <2>3
<1>14. CASE StreamFails
  <2>1. TypeOK'
    BY <1>14 DEF StreamFails, Abort, Closed, TypeOK, Points
  <2>2. NoDoneWhileRunning'
    BY <1>14 DEF StreamFails, Abort, NoDoneWhileRunning, BeforeBlackout
  <2>3. RunningBelieved'
    BY <1>14 DEF StreamFails, Abort, RunningBelieved
  <2> QED
    BY <2>1, <2>2, <2>3
<1>15. CASE ReceiveHello
  <2>1. TypeOK'
    BY QueueFacts, <1>15 DEF ReceiveHello, Receive, Reply, Plain, Msg, TypeOK, DestMsgs
  <2>2. NoDoneWhileRunning'
    BY <1>15 DEF ReceiveHello, Receive, NoDoneWhileRunning
  <2>3. RunningBelieved'
    BY <1>15 DEF ReceiveHello, Receive, Reply, Plain, Msg, RunningBelieved
  <2> QED
    BY <2>1, <2>2, <2>3
<1>16. CASE ReceivePage
  <2>1. TypeOK'
    BY <1>16 DEF ReceivePage, Receive, TypeOK, SourceMsgs
  <2>2. NoDoneWhileRunning'
    BY <1>16 DEF ReceivePage, Receive, NoDoneWhileRunning
  <2>3. RunningBelieved'
    BY <1>16 DEF ReceivePage, Receive, RunningBelieved
  <2> QED
    BY <2>1, <2>2, <2>3
<1>17. CASE ReceiveVcpuState
  <2>1. TypeOK'
    BY <1>17 DEF ReceiveVcpuState, Receive, TypeOK, SourceMsgs
  <2>2. NoDoneWhileRunning'
    BY <1>17 DEF ReceiveVcpuState, Receive, NoDoneWhileRunning
  <2>3. RunningBelieved'
    BY <1>17 DEF ReceiveVcpuState, Receive, RunningBelieved
  <2> QED
    BY <2>1, <2>2, <2>3
<1>18. CASE ReceiveDone
  <2>1. TypeOK'
    BY QueueFacts, <1>18 DEF ReceiveDone, Receive, Reply, Plain, Msg, TypeOK, DestMsgs
  <2>2. NoDoneWhileRunning'
    BY <1>18 DEF ReceiveDone, Receive, NoDoneWhileRunning
  <2>3. RunningBelieved'
    BY <1>18 DEF ReceiveDone, Receive, RunningBelieved
  <2> QED
    BY <2>1, <2>2, <2>3
<1>19. CASE ReceiveFails
  <2>1. TypeOK'
    BY <1>19 DEF ReceiveFails, TypeOK, Points
  <2>2. NoDoneWhileRunning'
    BY <1>19 DEF ReceiveFails, NoDoneWhileRunning
  <2>3. RunningBelieved'
    BY <1>19 DEF ReceiveFails, RunningBelieved, TypeOK
  <2> QED
    BY <2>1, <2>2, <2>3
<1>20. CASE PrepareFails
  <2>1. TypeOK'
    BY <1>20 DEF PrepareFails, Fault, Abort, Closed, TypeOK, Points
  <2>2. NoDoneWhileRunning'
    BY <1>20 DEF PrepareFails, Abort, NoDoneWhileRunning, BeforeBlackout
  <2>3. RunningBelieved'
    BY <1>20 DEF PrepareFails, Abort, RunningBelieved
  <2> QED
    BY <2>1, <2>2, <2>3
<1>21. CASE CtrlFails
  <2>1. TypeOK'
    BY <1>21 DEF CtrlFails, Fault, Abort, Closed, TypeOK, Points
  <2>2. NoDoneWhileRunning'
    BY <1>21 DEF CtrlFails, Abort, NoDoneWhileRunning, BeforeBlackout
  <2>3. RunningBelieved'
    BY <1>21 DEF CtrlFails, Abort, RunningBelieved
  <2> QED
    BY <2>1, <2>2, <2>3
<1>22. CASE PauseAnswerLost
  <2>1. TypeOK'
    BY <1>22 DEF PauseAnswerLost, Fault, Closed, TypeOK, Points
  <2>2. NoDoneWhileRunning'
    BY <1>22 DEF PauseAnswerLost, NoDoneWhileRunning
  <2>3. RunningBelieved'
    BY <1>22 DEF PauseAnswerLost, RunningBelieved
  <2> QED
    BY <2>1, <2>2, <2>3
<1>23. CASE Refused
  <2>1. TypeOK'
    <3>1. [type |-> "VcpuState", gpa |-> NoPage, data |-> NoData] \in SourceMsgs
      BY DEF SourceMsgs
    <3>2. out' \in Seq(SourceMsgs) /\ UNCHANGED <<back, link>>
      <4>1. Append(out, Msg("VcpuState", NoPage, NoData)) \in Seq(SourceMsgs)
        BY <1>q, <3>1, QueueFacts DEF Msg
      <4> QED
        BY <1>23, <4>1 DEF Refused, Send
    <3>3. pc' \in Points
      BY <1>23 DEF Refused, CtrlPoints, Points
    <3>4. faults' \in 0 .. MaxFaults
      BY <1>23 DEF Refused, Fault, TypeOK
    <3> QED
      BY <1>23, <3>2, <3>3, <3>4 DEF Refused, TypeOK
  <2>2. NoDoneWhileRunning'
    BY <1>23 DEF Refused, NoDoneWhileRunning
  <2>3. RunningBelieved'
    BY <1>23 DEF Refused, Send, CtrlPoints, RunningBelieved
  <2> QED
    BY <2>1, <2>2, <2>3
<1>24. CASE LinkBreaks
  <2>1. TypeOK'
    BY <1>24 DEF LinkBreaks, Fault, TypeOK
  <2>2. NoDoneWhileRunning'
    BY <1>24 DEF LinkBreaks, NoDoneWhileRunning
  <2>3. RunningBelieved'
    BY <1>24 DEF LinkBreaks, RunningBelieved
  <2> QED
    BY <2>1, <2>2, <2>3
<1>25. CASE LinkSilent
  <2>1. TypeOK'
    BY <1>25 DEF LinkSilent, Fault, TypeOK
  <2>2. NoDoneWhileRunning'
    BY <1>25 DEF LinkSilent, NoDoneWhileRunning
  <2>3. RunningBelieved'
    BY <1>25 DEF LinkSilent, RunningBelieved
  <2> QED
    BY <2>1, <2>2, <2>3
<1>26. CASE PeerSilent
  <2>1. TypeOK'
    BY <1>26 DEF PeerSilent, Fault, TypeOK, Points
  <2>2. NoDoneWhileRunning'
    BY <1>26 DEF PeerSilent, NoDoneWhileRunning, BeforeBlackout
  <2>3. RunningBelieved'
    BY <1>26 DEF PeerSilent, RunningBelieved
  <2> QED
    BY <2>1, <2>2, <2>3
<1>27. CASE StreamTimesOut
  <2>1. TypeOK'
    BY <1>27 DEF StreamTimesOut, Abort, Closed, TypeOK, Points
  <2>2. NoDoneWhileRunning'
    BY <1>27 DEF StreamTimesOut, Abort, NoDoneWhileRunning, BeforeBlackout
  <2>3. RunningBelieved'
    BY <1>27 DEF StreamTimesOut, Abort, RunningBelieved
  <2> QED
    BY <2>1, <2>2, <2>3
<1>28. ASSUME NEW p \in Pages, GuestWrites(p) PROVE IInv'
  <2>1. TypeOK'
    BY <1>28 DEF GuestWrites, TypeOK, Versions
  <2>2. NoDoneWhileRunning' /\ RunningBelieved'
    BY <1>28 DEF GuestWrites, NoDoneWhileRunning, RunningBelieved
  <2> QED
    BY <2>1, <2>2
<1>29. CASE UNCHANGED vars
  BY <1>29 DEF vars, TypeOK, NoDoneWhileRunning, RunningBelieved
<1> QED
  BY <1>1, <1>2, <1>3, <1>4, <1>5, <1>6, <1>7, <1>8, <1>9, <1>10, <1>11, <1>12, <1>13, <1>14,
     <1>15, <1>16, <1>17, <1>18, <1>19, <1>20, <1>21, <1>22, <1>23, <1>24, <1>28, <1>29, <1>25,
     <1>26, <1>27
  DEF Next, Source, Destination, Failure

\* The invariant holds in every behaviour of livemig, fair or not.
THEOREM MigrationInvariant == Spec => []IInv
  BY InitIInv, NextIInv, PTL DEF Spec

\* Types hold in every migration, whatever the number of pages, guest writes and
\* faults; in particular no PAGE travels without contents of the guest.
THEOREM TypeCorrect == Spec => []TypeOK
  BY MigrationInvariant, PTL DEF IInv

\* The virtual machine does not run on both nodes: run_migration sends DONE only in
\* the blackout, and no failure of control socket, API or stream resumes the source;
\* only a command the VMM refused can break this.
THEOREM NotOnBothNodes == Spec => []OneSideRuns
<1>1. IInv => OneSideRuns
  BY DEF IInv, NoDoneWhileRunning, OneSideRuns
<1> QED
  BY <1>1, MigrationInvariant, PTL

\* cleanup_source never deletes the only copy: RUNNING is on its way only when the
\* destination has taken DONE, and the source goes on only after RUNNING.
THEOREM NotOnNeitherNode == Spec => []NeverNowhere
<1>1. IInv => NeverNowhere
  BY DEF IInv, RunningBelieved, NeverNowhere
<1> QED
  BY <1>1, MigrationInvariant, PTL

-----------------------------------------------------------------------------
(***************************************************************************)
(* What the guest has written has arrived.                                 *)
(***************************************************************************)

\* The last PAGE in the stream about p has its present contents or, if there is none
\* in the stream, the destination has them.
Delivered(p) ==
  \/ \E i \in 1 .. Len(out) :
       /\ out[i].type = "Page" /\ out[i].gpa = p /\ out[i].data = mem[p]
       /\ \A j \in 1 .. Len(out) : j > i => ~(out[j].type = "Page" /\ out[j].gpa = p)
  \/ /\ \A j \in 1 .. Len(out) : ~(out[j].type = "Page" /\ out[j].gpa = p)
     /\ arrived[p] = mem[p]

\* The same of the registers.
RegsDelivered ==
  \/ \E i \in 1 .. Len(out) : out[i].type = "VcpuState" /\ out[i].data = clock
  \/ vcpu = clock

DoneSent == dst = "running" \/ \E i \in 1 .. Len(out) : out[i].type = "Done"

\* DONE is the last message, and only run_migration's last points follow it.
DoneIsLast ==
  /\ DoneSent => pc \in {"running", "cleanup", "complete", "failed", "hung"}
  /\ \A i \in 1 .. Len(out) : out[i].type = "Done" => i = Len(out) /\ dst # "running"
  /\ dst = "running" => out = <<>>

\* A pass holds each page once, and between passes there is none.
BatchOfPass ==
  /\ batch # {} => pc \in {"send", "finalsend"}
  /\ \A b, c \in batch : b[1] = c[1] => b = c

\* The pages whose contents dirty tracking has to bring over.
Written(p) == mem[p] > since

\* The clock is never behind the memory or the start of the tracking.
ClockAhead == since <= clock /\ \A p \in Pages : mem[p] <= clock

\* As long as the connection stands and no command was refused: every page written
\* since the tracking began is in the dirty log, or is about to be sent in its present
\* version, or was last sent in it; the final pass has emptied the log, and the
\* registers follow it.
Covered ==
  ~refused /\ link = "up" =>
    /\ pc \in {"copy", "send", "pause", "final", "finalsend", "vcpu", "done"} => since # NoData
    /\ pc \in {"finalsend", "vcpu", "done"} => dirty = {}
    /\ pc = "done" => RegsDelivered
    /\ pc # "failed"
    /\ since # NoData => \A p \in Pages :
         \/ ~Written(p)
         \/ p \in dirty
         \/ <<p, mem[p]>> \in batch
         \/ Delivered(p) /\ \A b \in batch : b[1] # p

\* Once DONE is sent the rest has been sent, and what breaks later cannot undo it.
SentBeforeDone ==
  ~refused /\ DoneSent => RegsDelivered /\ \A p \in Pages : Written(p) => Delivered(p)

\* A VcpuState in the stream is the only one, unless a command was refused.
OneVcpuState ==
  ~refused => \A i \in 1 .. Len(out) :
    out[i].type = "VcpuState" => out[i].data = clock /\ src # "run"

DInv ==
  DoneIsLast /\ BatchOfPass /\ ClockAhead /\ Covered /\ SentBeforeDone /\ OneVcpuState

\* A message appended to the stream keeps what was delivered, unless it is about the
\* same page; if it has the page's contents, they are delivered with it.
LEMMA DeliveredAppend ==
  ASSUME TypeOK, NEW m \in SourceMsgs, out' = Append(out, m), UNCHANGED <<mem, arrived>>,
         NEW p \in Pages
  PROVE  /\ Delivered(p) /\ ~(m.type = "Page" /\ m.gpa = p) => Delivered(p)'
         /\ m.type = "Page" /\ m.gpa = p /\ m.data = mem[p] => Delivered(p)'
<1>1. out \in Seq(SourceMsgs)
  BY DEF TypeOK
<1>2. /\ Len(out') = Len(out) + 1 /\ Len(out) \in Nat
      /\ out'[Len(out) + 1] = m
      /\ \A i \in 1 .. Len(out) : out'[i] = out[i]
  BY <1>1, QueueFacts
<1> QED
  BY <1>2 DEF Delivered

\* Taking a message off the stream keeps what was delivered.
LEMMA DeliveredTail ==
  ASSUME TypeOK, out # <<>>, out' = Tail(out), mem' = mem, NEW p \in Pages, Delivered(p),
         arrived' = IF Head(out).type = "Page"
                    THEN [arrived EXCEPT ![Head(out).gpa] = Head(out).data] ELSE arrived
  PROVE  Delivered(p)'
<1>1. out \in Seq(SourceMsgs)
  BY DEF TypeOK
<1>2. /\ Head(out) = out[1] /\ Len(out) \in Nat \ {0} /\ Len(out') = Len(out) - 1
      /\ \A i \in 1 .. Len(out') : out'[i] = out[i + 1]
  BY <1>1, QueueFacts
<1>3. out[1].type = "Page" => out[1].gpa \in Pages
  BY <1>1, <1>2, QueueFacts DEF SourceMsgs
<1>4. \A j \in 1 .. Len(out) : j = 1 \/ (j - 1 \in 1 .. Len(out') /\ out'[j - 1] = out[j])
  BY <1>2
<1>5. arrived \in [Pages -> Versions \cup {NoData}]
  BY DEF TypeOK
<1>6. CASE \A j \in 1 .. Len(out) : ~(out[j].type = "Page" /\ out[j].gpa = p)
  <2>1. arrived[p] = mem[p]
    BY <1>6 DEF Delivered
  <2>2. arrived'[p] = arrived[p]
    BY <1>2, <1>3, <1>5, <1>6
  <2>3. \A j \in 1 .. Len(out') : ~(out'[j].type = "Page" /\ out'[j].gpa = p)
    BY <1>2, <1>6
  <2> QED
    BY <2>1, <2>2, <2>3 DEF Delivered
<1>7. CASE \E j \in 1 .. Len(out) : out[j].type = "Page" /\ out[j].gpa = p
  <2>1. PICK i \in 1 .. Len(out) :
          /\ out[i].type = "Page" /\ out[i].gpa = p /\ out[i].data = mem[p]
          /\ \A j \in 1 .. Len(out) : j > i => ~(out[j].type = "Page" /\ out[j].gpa = p)
    BY <1>7 DEF Delivered
  <2>2. CASE i = 1
    <3>1. arrived'[p] = mem[p]
      BY <1>2, <1>5, <2>1, <2>2
    <3>2. \A j \in 1 .. Len(out') : ~(out'[j].type = "Page" /\ out'[j].gpa = p)
      BY <1>2, <2>1, <2>2
    <3> QED
      BY <3>1, <3>2 DEF Delivered
  <2>3. CASE i # 1
    <3>1. i - 1 \in 1 .. Len(out') /\ out'[i - 1] = out[i]
      BY <1>4, <2>3
    <3>2. \A j \in 1 .. Len(out') : j > i - 1 => ~(out'[j].type = "Page" /\ out'[j].gpa = p)
      BY <1>2, <2>1
    <3> QED
      BY <2>1, <3>1, <3>2 DEF Delivered
  <2> QED
    BY <2>2, <2>3
<1> QED
  BY <1>6, <1>7

\* Every step keeps the chain from the dirty log to the destination.
LEMMA NextDInv == IInv /\ DInv /\ [Next]_vars => DInv'
<1> SUFFICES ASSUME IInv, DInv, [Next]_vars PROVE DInv'
  OBVIOUS
<1> USE DEF IInv, DInv, Written, NoData, vmm, job, stream, dest
<1>1. CASE Prepare
  <2>1. DoneIsLast'
    BY <1>1 DEF Prepare, DoneIsLast, DoneSent
  <2>2. BatchOfPass'
    BY <1>1 DEF Prepare, BatchOfPass
  <2>3. Covered'
    BY <1>1 DEF Prepare, Covered, Delivered
  <2>4. SentBeforeDone'
    BY <1>1 DEF Prepare, SentBeforeDone, DoneSent, RegsDelivered, Delivered
  <2>5. OneVcpuState'
    BY <1>1 DEF Prepare, OneVcpuState
  <2>6. ClockAhead'
    BY <1>1 DEF Prepare, ClockAhead
  <2> QED
    BY <2>1, <2>2, <2>3, <2>4, <2>5, <2>6
<1>2. CASE Connect
  <2>m. Plain("Hello") \in SourceMsgs
    BY DEF SourceMsgs, Plain, Msg, TypeOK
  <2>o. link = "up" => out' = Append(out, Plain("Hello"))
    BY <1>2 DEF Connect, Send
  <2>p. link = "up" => \A p \in Pages : Delivered(p) => Delivered(p)'
    BY <1>2, <2>m, <2>o, DeliveredAppend DEF Connect, Plain, Msg
  <2>1. DoneIsLast'
    BY <1>2 DEF Connect, Send, Plain, Msg, DoneIsLast, DoneSent
  <2>2. BatchOfPass'
    BY <1>2 DEF Connect, BatchOfPass
  <2>3. Covered'
    BY <1>2, <2>p DEF Connect, Send, Covered
  <2>4. SentBeforeDone'
    BY <1>2, <2>1 DEF Connect, DoneIsLast, SentBeforeDone
  <2>5. OneVcpuState'
    BY <1>2 DEF Connect, Send, Plain, Msg, OneVcpuState
  <2>6. ClockAhead'
    BY <1>2 DEF Connect, ClockAhead
  <2> QED
    BY <2>1, <2>2, <2>3, <2>4, <2>5, <2>6
<1>3. CASE ExpectReady
  <2>1. DoneIsLast'
    BY <1>3 DEF ExpectReady, Expect, DoneIsLast, DoneSent
  <2>2. BatchOfPass'
    BY <1>3 DEF ExpectReady, Expect, BatchOfPass
  <2>3. Covered'
    BY <1>3 DEF ExpectReady, Expect, Closed, Covered, Delivered
  <2>4. SentBeforeDone'
    BY <1>3 DEF ExpectReady, Expect, SentBeforeDone, DoneSent, RegsDelivered, Delivered
  <2>5. OneVcpuState'
    BY <1>3 DEF ExpectReady, Expect, OneVcpuState
  <2>6. ClockAhead'
    BY <1>3 DEF ExpectReady, Expect, ClockAhead
  <2> QED
    BY <2>1, <2>2, <2>3, <2>4, <2>5, <2>6
<1>4. CASE EnableDirtyTracking
  <2>1. DoneIsLast'
    BY <1>4 DEF EnableDirtyTracking, DoneIsLast, DoneSent
  <2>2. BatchOfPass'
    BY <1>4 DEF EnableDirtyTracking, BatchOfPass
  <2>3. Covered'
    <3>1. \A p \in Pages : ~Written(p)'
      BY <1>4 DEF EnableDirtyTracking, ClockAhead, TypeOK, Versions
    <3> QED
      BY <1>4, <3>1 DEF EnableDirtyTracking, Covered, TypeOK, Versions
  <2>4. SentBeforeDone'
    BY <1>4, <2>1 DEF EnableDirtyTracking, DoneIsLast, SentBeforeDone
  <2>5. OneVcpuState'
    BY <1>4 DEF EnableDirtyTracking, OneVcpuState
  <2>6. ClockAhead'
    BY <1>4 DEF EnableDirtyTracking, TypeOK, Versions, ClockAhead
  <2> QED
    BY <2>1, <2>2, <2>3, <2>4, <2>5, <2>6
<1>5. CASE GetDirtyLog
  <2>1. DoneIsLast'
    BY <1>5 DEF GetDirtyLog, DoneIsLast, DoneSent
  <2>2. BatchOfPass'
    BY <1>5 DEF GetDirtyLog, BatchOfPass
  <2>3. Covered'
    <3>1. batch = {}
      BY <1>5 DEF GetDirtyLog, BatchOfPass
    <3>2. \A p \in Pages : Delivered(p) => Delivered(p)'
      BY <1>5 DEF GetDirtyLog, Delivered
    <3> QED
      BY <1>5, <3>1, <3>2 DEF GetDirtyLog, Covered
  <2>4. SentBeforeDone'
    BY <1>5 DEF GetDirtyLog, SentBeforeDone, DoneSent, RegsDelivered, Delivered
  <2>5. OneVcpuState'
    BY <1>5 DEF GetDirtyLog, OneVcpuState
  <2>6. ClockAhead'
    BY <1>5 DEF GetDirtyLog, ClockAhead
  <2> QED
    BY <2>1, <2>2, <2>3, <2>4, <2>5, <2>6
<1>6. CASE SendPage
  <2>1. DoneIsLast'
    BY <1>6 DEF SendPage, Send, Msg, DoneIsLast, DoneSent
  <2>2. BatchOfPass'
    BY <1>6 DEF SendPage, BatchOfPass
  <2>3. Covered'
    <3> SUFFICES ASSUME ~refused, link = "up"
                 PROVE  since # NoData => \A p \in Pages :
                          \/ ~Written(p)
                          \/ p \in dirty
                          \/ <<p, mem[p]>> \in batch'
                          \/ Delivered(p)' /\ \A b \in batch' : b[1] # p
      BY <1>6 DEF SendPage, Send, Covered
    <3>1. PICK b \in batch : /\ out' = Append(out, Msg("Page", b[1], b[2]))
                             /\ batch' = batch \ {b}
      BY <1>6 DEF SendPage, Send
    <3>2. b[1] \in Pages /\ b[2] \in Versions /\ b = <<b[1], b[2]>>
      BY DEF TypeOK
    <3>3. Msg("Page", b[1], b[2]) \in SourceMsgs
      BY <3>2 DEF SourceMsgs, Msg
    <3>4. UNCHANGED <<mem, arrived>>
      BY <1>6 DEF SendPage
    <3>5. ASSUME NEW p \in Pages, Delivered(p), p # b[1] PROVE Delivered(p)'
      BY <3>1, <3>3, <3>4, <3>5, DeliveredAppend DEF Msg
    <3>6. ASSUME NEW p \in Pages, p = b[1], b[2] = mem[p] PROVE Delivered(p)'
      BY <3>1, <3>3, <3>4, <3>6, DeliveredAppend DEF Msg
    <3>7. ASSUME NEW p \in Pages, b = <<p, mem[p]>>, NEW c \in batch' PROVE c[1] # p
      BY <3>1, <3>7 DEF BatchOfPass
    <3> QED
      BY <3>1, <3>5, <3>6, <3>7 DEF Covered
  <2>4. SentBeforeDone'
    BY <1>6, <2>1 DEF SendPage, DoneIsLast, SentBeforeDone
  <2>5. OneVcpuState'
    BY <1>6 DEF SendPage, Send, Msg, OneVcpuState
  <2>6. ClockAhead'
    BY <1>6 DEF SendPage, ClockAhead
  <2> QED
    BY <2>1, <2>2, <2>3, <2>4, <2>5, <2>6
<1>7. CASE EndPass
  <2>1. DoneIsLast'
    BY <1>7 DEF EndPass, DoneIsLast, DoneSent
  <2>2. BatchOfPass'
    BY <1>7 DEF EndPass, BatchOfPass
  <2>3. Covered'
    BY <1>7 DEF EndPass, Covered, Delivered
  <2>4. SentBeforeDone'
    BY <1>7 DEF EndPass, SentBeforeDone, DoneSent, RegsDelivered, Delivered
  <2>5. OneVcpuState'
    BY <1>7 DEF EndPass, OneVcpuState
  <2>6. ClockAhead'
    BY <1>7 DEF EndPass, ClockAhead
  <2> QED
    BY <2>1, <2>2, <2>3, <2>4, <2>5, <2>6
<1>8. CASE PauseVcpus
  <2>1. DoneIsLast'
    BY <1>8 DEF PauseVcpus, DoneIsLast, DoneSent
  <2>2. BatchOfPass'
    BY <1>8 DEF PauseVcpus, BatchOfPass
  <2>3. Covered'
    BY <1>8 DEF PauseVcpus, Covered, Delivered
  <2>4. SentBeforeDone'
    BY <1>8 DEF PauseVcpus, SentBeforeDone, DoneSent, RegsDelivered, Delivered
  <2>5. OneVcpuState'
    BY <1>8 DEF PauseVcpus, OneVcpuState
  <2>6. ClockAhead'
    BY <1>8 DEF PauseVcpus, ClockAhead
  <2> QED
    BY <2>1, <2>2, <2>3, <2>4, <2>5, <2>6
<1>9. CASE EndFinal
  <2>1. DoneIsLast'
    BY <1>9 DEF EndFinal, DoneIsLast, DoneSent
  <2>2. BatchOfPass'
    BY <1>9 DEF EndFinal, BatchOfPass
  <2>3. Covered'
    BY <1>9 DEF EndFinal, Covered, Delivered
  <2>4. SentBeforeDone'
    BY <1>9 DEF EndFinal, SentBeforeDone, DoneSent, RegsDelivered, Delivered
  <2>5. OneVcpuState'
    BY <1>9 DEF EndFinal, OneVcpuState
  <2>6. ClockAhead'
    BY <1>9 DEF EndFinal, ClockAhead
  <2> QED
    BY <2>1, <2>2, <2>3, <2>4, <2>5, <2>6
<1>10. CASE TransferVcpuState
  <2>m. Msg("VcpuState", NoPage, clock) \in SourceMsgs
    BY DEF SourceMsgs, Plain, Msg, TypeOK
  <2>o. link = "up" => out' = Append(out, Msg("VcpuState", NoPage, clock))
    BY <1>10 DEF TransferVcpuState, Send
  <2>p. link = "up" => \A p \in Pages : Delivered(p) => Delivered(p)'
    BY <1>10, <2>m, <2>o, DeliveredAppend DEF TransferVcpuState, Msg
  <2>1. DoneIsLast'
    BY <1>10 DEF TransferVcpuState, Send, Msg, DoneIsLast, DoneSent
  <2>2. BatchOfPass'
    BY <1>10 DEF TransferVcpuState, BatchOfPass
  <2>3. Covered'
    BY <1>10, <2>p DEF TransferVcpuState, Send, Msg, Covered, RegsDelivered
  <2>4. SentBeforeDone'
    BY <1>10, <2>1 DEF TransferVcpuState, DoneIsLast, SentBeforeDone
  <2>5. OneVcpuState'
    BY <1>10 DEF TransferVcpuState, Send, Msg, OneVcpuState, NoDoneWhileRunning, BeforeBlackout
  <2>6. ClockAhead'
    BY <1>10 DEF TransferVcpuState, ClockAhead
  <2> QED
    BY <2>1, <2>2, <2>3, <2>4, <2>5, <2>6
<1>11. CASE SendDone
  <2>m. Plain("Done") \in SourceMsgs
    BY DEF SourceMsgs, Plain, Msg, TypeOK
  <2>o. link = "up" => out' = Append(out, Plain("Done"))
    BY <1>11 DEF SendDone, Send
  <2>p. link = "up" => \A p \in Pages : Delivered(p) => Delivered(p)'
    BY <1>11, <2>m, <2>o, DeliveredAppend DEF SendDone, Plain, Msg
  <2>1. DoneIsLast'
    BY <1>11 DEF SendDone, Send, DoneIsLast, DoneSent
  <2>2. BatchOfPass'
    BY <1>11 DEF SendDone, BatchOfPass
  <2>3. Covered'
    BY <1>11, <2>p DEF SendDone, Send, Covered
  <2>4. SentBeforeDone'
    <3>1. CASE link = "up"
      <4>1. ~refused => RegsDelivered /\ \A p \in Pages : Written(p) => Delivered(p)
        BY <1>11, <3>1 DEF SendDone, Covered, BatchOfPass
      <4>2. RegsDelivered => RegsDelivered'
        BY <1>11, <2>o, <3>1 DEF SendDone, RegsDelivered
      <4> QED
        BY <1>11, <2>p, <3>1, <4>1, <4>2 DEF SendDone, SentBeforeDone
    <3>2. CASE link # "up"
      <4>1. ~DoneSent /\ out' = out
        BY <1>11, <3>2 DEF SendDone, Send, DoneIsLast
      <4> QED
        BY <1>11, <4>1 DEF SendDone, SentBeforeDone, DoneSent
    <3> QED
      BY <3>1, <3>2
  <2>5. OneVcpuState'
    BY <1>11 DEF SendDone, Send, Plain, Msg, OneVcpuState
  <2>6. ClockAhead'
    BY <1>11 DEF SendDone, ClockAhead
  <2> QED
    BY <2>1, <2>2, <2>3, <2>4, <2>5, <2>6
<1>12. CASE ExpectRunning
  <2>1. DoneIsLast'
    BY <1>12 DEF ExpectRunning, Expect, DoneIsLast
  <2>2. BatchOfPass'
    BY <1>12 DEF ExpectRunning, Expect, BatchOfPass
  <2>3. Covered'
    BY <1>12 DEF ExpectRunning, Expect, Closed, Covered, Delivered
  <2>4. SentBeforeDone'
    <3>1. UNCHANGED <<out, dst, arrived, vcpu, clock, mem, since, refused>>
      BY <1>12 DEF ExpectRunning, Expect, vmm, dest
    <3>2. DoneSent' <=> DoneSent
      BY <3>1 DEF DoneSent
    <3>3. RegsDelivered' <=> RegsDelivered
      BY <3>1 DEF RegsDelivered
    <3>4. \A p \in Pages : Delivered(p)' <=> Delivered(p)
      BY <3>1 DEF Delivered
    <3> QED
      BY <3>1, <3>2, <3>3, <3>4 DEF SentBeforeDone
  <2>5. OneVcpuState'
    BY <1>12 DEF ExpectRunning, Expect, OneVcpuState
  <2>6. ClockAhead'
    BY <1>12 DEF ExpectRunning, Expect, ClockAhead
  <2> QED
    BY <2>1, <2>2, <2>3, <2>4, <2>5, <2>6
<1>13. CASE CleanUp
  <2>1. DoneIsLast'
    BY <1>13 DEF CleanUp, DoneIsLast
  <2>2. BatchOfPass'
    BY <1>13 DEF CleanUp, BatchOfPass
  <2>3. Covered'
    BY <1>13 DEF CleanUp, Covered, Delivered
  <2>4. SentBeforeDone'
    BY <1>13 DEF CleanUp, SentBeforeDone, DoneSent, RegsDelivered, Delivered
  <2>5. OneVcpuState'
    BY <1>13 DEF CleanUp, OneVcpuState
  <2>6. ClockAhead'
    BY <1>13 DEF CleanUp, ClockAhead
  <2> QED
    BY <2>1, <2>2, <2>3, <2>4, <2>5, <2>6
<1>14. CASE StreamFails
  <2>1. DoneIsLast'
    BY <1>14 DEF StreamFails, Abort, DoneIsLast
  <2>2. BatchOfPass'
    BY <1>14 DEF StreamFails, Abort, BatchOfPass
  <2>3. Covered'
    BY <1>14 DEF StreamFails, Abort, Closed, Covered
  <2>4. SentBeforeDone'
    BY <1>14 DEF StreamFails, Abort, SentBeforeDone, DoneSent, RegsDelivered, Delivered
  <2>5. OneVcpuState'
    BY <1>14 DEF StreamFails, Abort, OneVcpuState
  <2>6. ClockAhead'
    BY <1>14 DEF StreamFails, Abort, ClockAhead
  <2> QED
    BY <2>1, <2>2, <2>3, <2>4, <2>5, <2>6
<1>15. CASE ReceiveHello
  <2>p. \A p \in Pages : Delivered(p) => Delivered(p)'
    <3>1. /\ out # <<>> /\ out' = Tail(out) /\ mem' = mem /\ arrived' = arrived
          /\ Head(out).type # "Page"
      BY <1>15 DEF ReceiveHello, Receive, vmm
    <3>2. arrived' = IF Head(out).type = "Page"
                     THEN [arrived EXCEPT ![Head(out).gpa] = Head(out).data] ELSE arrived
      BY <3>1
    <3> QED
      BY <3>1, <3>2, DeliveredTail
  <2>r. ~refused /\ RegsDelivered => RegsDelivered'
    <3>1. /\ out # <<>> /\ out' = Tail(out) /\ UNCHANGED <<clock, vcpu>>
          /\ Head(out).type # "VcpuState"
      BY <1>15 DEF ReceiveHello, Receive
    <3>2. /\ Head(out) = out[1] /\ Len(out) \in Nat \ {0} /\ Len(out') = Len(out) - 1
          /\ \A i \in 1 .. Len(out') : out'[i] = out[i + 1]
      BY <3>1, QueueFacts DEF TypeOK
    <3>3. \A j \in 1 .. Len(out) :
            j = 1 \/ (j - 1 \in 1 .. Len(out') /\ out'[j - 1] = out[j])
      BY <3>2
    <3> QED
      BY <3>1, <3>2, <3>3 DEF RegsDelivered
  <2>s. DoneSent' => DoneSent
    BY <1>15 DEF ReceiveHello, Receive, DoneSent
  <2>1. DoneIsLast'
    BY <1>15 DEF ReceiveHello, Receive, DoneIsLast, DoneSent
  <2>2. BatchOfPass'
    BY <1>15 DEF ReceiveHello, Receive, BatchOfPass
  <2>3. Covered'
    BY <1>15, <2>p, <2>r DEF ReceiveHello, Receive, Covered
  <2>4. SentBeforeDone'
    BY <1>15, <2>p, <2>r, <2>s DEF ReceiveHello, Receive, SentBeforeDone
  <2>5. OneVcpuState'
    BY <1>15 DEF ReceiveHello, Receive, OneVcpuState
  <2>6. ClockAhead'
    BY <1>15 DEF ReceiveHello, Receive, ClockAhead
  <2> QED
    BY <2>1, <2>2, <2>3, <2>4, <2>5, <2>6
<1>16. CASE ReceivePage
  <2>p. \A p \in Pages : Delivered(p) => Delivered(p)'
    BY <1>16, DeliveredTail DEF ReceivePage, Receive
  <2>r. ~refused /\ RegsDelivered => RegsDelivered'
    BY <1>16 DEF ReceivePage, Receive, RegsDelivered
  <2>s. DoneSent' => DoneSent
    BY <1>16 DEF ReceivePage, Receive, DoneSent
  <2>1. DoneIsLast'
    BY <1>16 DEF ReceivePage, Receive, DoneIsLast, DoneSent
  <2>2. BatchOfPass'
    BY <1>16 DEF ReceivePage, Receive, BatchOfPass
  <2>3. Covered'
    BY <1>16, <2>p, <2>r DEF ReceivePage, Receive, Covered
  <2>4. SentBeforeDone'
    BY <1>16, <2>p, <2>r, <2>s DEF ReceivePage, Receive, SentBeforeDone
  <2>5. OneVcpuState'
    BY <1>16 DEF ReceivePage, Receive, OneVcpuState
  <2>6. ClockAhead'
    BY <1>16 DEF ReceivePage, Receive, ClockAhead
  <2> QED
    BY <2>1, <2>2, <2>3, <2>4, <2>5, <2>6
<1>17. CASE ReceiveVcpuState
  <2>p. \A p \in Pages : Delivered(p) => Delivered(p)'
    BY <1>17, DeliveredTail DEF ReceiveVcpuState, Receive
  <2>r. ~refused /\ RegsDelivered => RegsDelivered'
    BY <1>17 DEF ReceiveVcpuState, Receive, RegsDelivered, OneVcpuState
  <2>s. DoneSent' => DoneSent
    BY <1>17 DEF ReceiveVcpuState, Receive, DoneSent
  <2>1. DoneIsLast'
    BY <1>17 DEF ReceiveVcpuState, Receive, DoneIsLast, DoneSent
  <2>2. BatchOfPass'
    BY <1>17 DEF ReceiveVcpuState, Receive, BatchOfPass
  <2>3. Covered'
    BY <1>17, <2>p, <2>r DEF ReceiveVcpuState, Receive, Covered
  <2>4. SentBeforeDone'
    BY <1>17, <2>p, <2>r, <2>s DEF ReceiveVcpuState, Receive, SentBeforeDone
  <2>5. OneVcpuState'
    BY <1>17 DEF ReceiveVcpuState, Receive, OneVcpuState
  <2>6. ClockAhead'
    BY <1>17 DEF ReceiveVcpuState, Receive, ClockAhead
  <2> QED
    BY <2>1, <2>2, <2>3, <2>4, <2>5, <2>6
<1>18. CASE ReceiveDone
  <2>p. \A p \in Pages : Delivered(p) => Delivered(p)'
    BY <1>18, DeliveredTail DEF ReceiveDone, Receive
  <2>r. ~refused /\ RegsDelivered => RegsDelivered'
    <3>1. out \in Seq(SourceMsgs)
      BY DEF TypeOK
    <3>2. /\ out[1].type = "Done"
          /\ \A i \in 1 .. Len(out) :
               i = 1 \/ (i - 1 \in 1 .. Len(out') /\ out'[i - 1] = out[i])
      BY <1>18 DEF ReceiveDone, Receive
    <3>3. vcpu' = vcpu /\ clock' = clock
      BY <1>18 DEF ReceiveDone, Receive
    <3> QED
      BY <3>2, <3>3 DEF RegsDelivered
  <2>s. DoneSent' => DoneSent
    BY <1>18 DEF ReceiveDone, Receive, DoneSent
  <2>1. DoneIsLast'
    BY <1>18 DEF ReceiveDone, Receive, DoneIsLast, DoneSent
  <2>2. BatchOfPass'
    BY <1>18 DEF ReceiveDone, Receive, BatchOfPass
  <2>3. Covered'
    BY <1>18, <2>p, <2>r DEF ReceiveDone, Receive, Covered
  <2>4. SentBeforeDone'
    BY <1>18, <2>p, <2>r, <2>s DEF ReceiveDone, Receive, SentBeforeDone
  <2>5. OneVcpuState'
    BY <1>18 DEF ReceiveDone, Receive, OneVcpuState
  <2>6. ClockAhead'
    BY <1>18 DEF ReceiveDone, Receive, ClockAhead
  <2> QED
    BY <2>1, <2>2, <2>3, <2>4, <2>5, <2>6
<1>19. CASE ReceiveFails
  <2>1. DoneIsLast'
    BY <1>19 DEF ReceiveFails, DoneIsLast, DoneSent
  <2>2. BatchOfPass'
    BY <1>19 DEF ReceiveFails, BatchOfPass
  <2>3. Covered'
    BY <1>19 DEF ReceiveFails, Covered
  <2>4. SentBeforeDone'
    BY <1>19 DEF ReceiveFails, SentBeforeDone, DoneSent, RegsDelivered, Delivered
  <2>5. OneVcpuState'
    BY <1>19 DEF ReceiveFails, OneVcpuState
  <2>6. ClockAhead'
    BY <1>19 DEF ReceiveFails, ClockAhead
  <2> QED
    BY <2>1, <2>2, <2>3, <2>4, <2>5, <2>6
<1>20. CASE PrepareFails
  <2>1. DoneIsLast'
    BY <1>20 DEF PrepareFails, Abort, DoneIsLast
  <2>2. BatchOfPass'
    BY <1>20 DEF PrepareFails, Abort, BatchOfPass
  <2>3. Covered'
    BY <1>20 DEF PrepareFails, Abort, Closed, Covered
  <2>4. SentBeforeDone'
    BY <1>20 DEF PrepareFails, Abort, SentBeforeDone, DoneSent, RegsDelivered, Delivered
  <2>5. OneVcpuState'
    BY <1>20 DEF PrepareFails, Abort, OneVcpuState
  <2>6. ClockAhead'
    BY <1>20 DEF PrepareFails, Abort, ClockAhead
  <2> QED
    BY <2>1, <2>2, <2>3, <2>4, <2>5, <2>6
<1>21. CASE CtrlFails
  <2>1. DoneIsLast'
    BY <1>21 DEF CtrlFails, Abort, DoneIsLast
  <2>2. BatchOfPass'
    BY <1>21 DEF CtrlFails, Abort, BatchOfPass
  <2>3. Covered'
    BY <1>21 DEF CtrlFails, Abort, Closed, Covered
  <2>4. SentBeforeDone'
    BY <1>21 DEF CtrlFails, Abort, SentBeforeDone, DoneSent, RegsDelivered, Delivered
  <2>5. OneVcpuState'
    BY <1>21 DEF CtrlFails, Abort, OneVcpuState
  <2>6. ClockAhead'
    BY <1>21 DEF CtrlFails, Abort, ClockAhead
  <2> QED
    BY <2>1, <2>2, <2>3, <2>4, <2>5, <2>6
<1>22. CASE PauseAnswerLost
  <2>1. DoneIsLast'
    BY <1>22 DEF PauseAnswerLost, DoneIsLast
  <2>2. BatchOfPass'
    BY <1>22 DEF PauseAnswerLost, BatchOfPass
  <2>3. Covered'
    BY <1>22 DEF PauseAnswerLost, Closed, Covered
  <2>4. SentBeforeDone'
    BY <1>22 DEF PauseAnswerLost, SentBeforeDone, DoneSent, RegsDelivered, Delivered
  <2>5. OneVcpuState'
    BY <1>22 DEF PauseAnswerLost, OneVcpuState
  <2>6. ClockAhead'
    BY <1>22 DEF PauseAnswerLost, ClockAhead
  <2> QED
    BY <2>1, <2>2, <2>3, <2>4, <2>5, <2>6
<1>23. CASE Refused
  <2>1. DoneIsLast'
    <3>1. ~DoneSent /\ pc' \in Points /\ dst' = dst
      BY <1>23 DEF Refused, CtrlPoints, DoneIsLast, Points
    <3>2. out' = out \/ out' = Append(out, Msg("VcpuState", NoPage, NoData))
      BY <1>23 DEF Refused, Send
    <3>3. ~DoneSent'
      BY <3>1, <3>2 DEF DoneSent, Msg
    <3> QED
      BY <3>1, <3>3 DEF DoneIsLast, DoneSent
  <2>2. BatchOfPass'
    BY <1>23 DEF Refused, CtrlPoints, BatchOfPass
  <2>3. Covered'
    BY <1>23 DEF Refused, Covered
  <2>4. SentBeforeDone'
    BY <1>23 DEF Refused, SentBeforeDone
  <2>5. OneVcpuState'
    BY <1>23 DEF Refused, OneVcpuState
  <2>6. ClockAhead'
    BY <1>23 DEF Refused, ClockAhead
  <2> QED
    BY <2>1, <2>2, <2>3, <2>4, <2>5, <2>6
<1>24. CASE LinkBreaks
  <2>1. DoneIsLast'
    BY <1>24 DEF LinkBreaks, DoneIsLast, DoneSent
  <2>2. BatchOfPass'
    BY <1>24 DEF LinkBreaks, BatchOfPass
  <2>3. Covered'
    BY <1>24 DEF LinkBreaks, Covered
  <2>4. SentBeforeDone'
    BY <1>24 DEF LinkBreaks, SentBeforeDone, DoneSent, RegsDelivered, Delivered
  <2>5. OneVcpuState'
    BY <1>24 DEF LinkBreaks, OneVcpuState
  <2>6. ClockAhead'
    BY <1>24 DEF LinkBreaks, ClockAhead
  <2> QED
    BY <2>1, <2>2, <2>3, <2>4, <2>5, <2>6
<1>25. CASE LinkSilent
  <2>1. DoneIsLast'
    BY <1>25 DEF LinkSilent, DoneIsLast, DoneSent
  <2>2. BatchOfPass'
    BY <1>25 DEF LinkSilent, BatchOfPass
  <2>3. Covered'
    BY <1>25 DEF LinkSilent, Covered
  <2>4. SentBeforeDone'
    BY <1>25 DEF LinkSilent, SentBeforeDone, DoneSent, RegsDelivered, Delivered
  <2>5. OneVcpuState'
    BY <1>25 DEF LinkSilent, OneVcpuState
  <2>6. ClockAhead'
    BY <1>25 DEF LinkSilent, ClockAhead
  <2> QED
    BY <2>1, <2>2, <2>3, <2>4, <2>5, <2>6
<1>26. CASE PeerSilent
  <2>1. DoneIsLast'
    BY <1>26 DEF PeerSilent, DoneIsLast, DoneSent
  <2>2. BatchOfPass'
    BY <1>26 DEF PeerSilent, CtrlPoints, BatchOfPass
  <2>3. Covered'
    BY <1>26 DEF PeerSilent, Covered, Delivered
  <2>4. SentBeforeDone'
    BY <1>26 DEF PeerSilent, SentBeforeDone, DoneSent, RegsDelivered, Delivered
  <2>5. OneVcpuState'
    BY <1>26 DEF PeerSilent, OneVcpuState
  <2>6. ClockAhead'
    BY <1>26 DEF PeerSilent, ClockAhead
  <2> QED
    BY <2>1, <2>2, <2>3, <2>4, <2>5, <2>6
<1>27. CASE StreamTimesOut
  <2>1. DoneIsLast'
    BY <1>27 DEF StreamTimesOut, Abort, DoneIsLast
  <2>2. BatchOfPass'
    BY <1>27 DEF StreamTimesOut, Abort, BatchOfPass
  <2>3. Covered'
    BY <1>27 DEF StreamTimesOut, Abort, Closed, Covered
  <2>4. SentBeforeDone'
    BY <1>27 DEF StreamTimesOut, Abort, SentBeforeDone, DoneSent, RegsDelivered, Delivered
  <2>5. OneVcpuState'
    BY <1>27 DEF StreamTimesOut, Abort, OneVcpuState
  <2>6. ClockAhead'
    BY <1>27 DEF StreamTimesOut, Abort, ClockAhead
  <2> QED
    BY <2>1, <2>2, <2>3, <2>4, <2>5, <2>6
<1>28. ASSUME NEW p \in Pages, GuestWrites(p) PROVE DInv'
  <2>1. DoneIsLast'
    BY <1>28 DEF GuestWrites, DoneIsLast, DoneSent
  <2>2. BatchOfPass'
    BY <1>28 DEF GuestWrites, BatchOfPass
  <2>3. Covered'
    BY <1>28 DEF GuestWrites, Covered, Delivered, NoDoneWhileRunning, BeforeBlackout
  <2>4. SentBeforeDone'
    BY <1>28 DEF GuestWrites, SentBeforeDone, DoneSent, NoDoneWhileRunning
  <2>5. OneVcpuState'
    BY <1>28 DEF GuestWrites, OneVcpuState
  <2>6. ClockAhead'
    BY <1>28 DEF GuestWrites, TypeOK, Versions, ClockAhead
  <2> QED
    BY <2>1, <2>2, <2>3, <2>4, <2>5, <2>6
<1>29. CASE UNCHANGED vars
  BY <1>29
  DEF vars, DoneIsLast, BatchOfPass, ClockAhead, Covered, SentBeforeDone, OneVcpuState,
      DoneSent, RegsDelivered, Delivered
<1> QED
  BY <1>1, <1>2, <1>3, <1>4, <1>5, <1>6, <1>7, <1>8, <1>9, <1>10, <1>11, <1>12, <1>13, <1>14,
     <1>15, <1>16, <1>17, <1>18, <1>19, <1>20, <1>21, <1>22, <1>23, <1>24, <1>28, <1>29, <1>25,
     <1>26, <1>27
  DEF Next, Source, Destination, Failure

\* A migration starts with nothing sent.
LEMMA InitDInv == Init => DInv
<1> SUFFICES ASSUME Init PROVE DInv
  OBVIOUS
<1> QED
  BY DEF Init, DInv, DoneIsLast, BatchOfPass, ClockAhead, Covered, SentBeforeDone, OneVcpuState,
         DoneSent, NoData

\* What the guest wrote has arrived: for any set of pages, number of writes during the
\* passes, and faults, the last version of every page written since dirty tracking
\* began and the registers have been read by the destination before it takes DONE,
\* unless the VMM refused a command.
THEOREM WrittenHasArrived == Spec => []WritesArrive
<1>1. IInv /\ DInv => WritesArrive
  <2> SUFFICES ASSUME IInv, DInv, dst = "running", ~refused
               PROVE  (\A p \in Pages : mem[p] > since => arrived[p] = mem[p]) /\ vcpu = clock
    BY DEF WritesArrive
  <2>1. Len(out) = 0 /\ DoneSent
    BY DEF DInv, DoneIsLast, DoneSent
  <2>2. RegsDelivered /\ \A p \in Pages : Written(p) => Delivered(p)
    BY <2>1 DEF DInv, SentBeforeDone
  <2> QED
    BY <2>1, <2>2 DEF RegsDelivered, Delivered, Written
<1> QED
  BY <1>1, InitIInv, InitDInv, NextIInv, NextDInv, PTL DEF Spec

=============================================================================

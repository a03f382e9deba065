------------------------- MODULE VmLifecycleProofs --------------------------
(***************************************************************************)
(* Proofs about VmLifecycle, for any number of VMs, processes, handlers,   *)
(* requests and faults and whatever the clients do: its types, and that    *)
(* the VMMs whose parent is the API and the tasks that wait for them match *)
(* one to one.                                                             *)
(***************************************************************************)
EXTENDS VmLifecycle, TLAPS

Active(p) == [status |-> "Active", power |-> "Running", pid |-> p]

-----------------------------------------------------------------------------
(***************************************************************************)
(* Types.                                                                  *)
(***************************************************************************)

LEMMA ConstantTypes ==
  /\ NoFile \in Record /\ Empty \in Record /\ Garbled \in Record
  /\ IdleTask \in TaskType
  /\ FreeProc \in ProcType
  /\ \A p \in Pids : p # NoPid
BY LifecycleAssumption
DEF NoFile, Empty, Garbled, Record, IdleTask, TaskType, Ops, Points, FreeProc, ProcType, NoPid

\* The type invariant needs to know what a handler that has spawned a VMM holds.
HandleType ==
  \A t \in Tasks :
    /\ task[t].op \in {"create", "start"} /\ task[t].pc \in {"trunc", "write"}
         /\ task[t].rec.status = "Active" => task[t].pid \in Pids
    /\ task[t].pc = "wait" => task[t].pid \in Pids

LEMMA TypeInit == Init => TypeOK /\ HandleType
BY ConstantTypes DEF Init, TypeOK, HandleType, IdleTask

\* One handler moves on to k and the others stay where they are.
LEMMA StepType ==
  ASSUME TypeOK, HandleType, NEW t \in Tasks, NEW k \in TaskType,
         \/ k.op \in {"create", "start"} /\ k.pc \in {"trunc", "write"}
              /\ k.rec.status = "Active"
         \/ k.pc = "wait"
         => k.pid \in Pids,
         task' = [task EXCEPT ![t] = k]
  PROVE  /\ task' \in [Tasks -> TaskType]
         /\ HandleType'
         /\ \A u \in Tasks : task'[u].pc = "wait" => task'[u].pid \in Pids
<1>1. task \in [Tasks -> TaskType]
  BY DEF TypeOK
<1>2. task'[t] = k /\ \A u \in Tasks : u # t => task'[u] = task[u]
  BY <1>1
<1>3. task' \in [Tasks -> TaskType]
  BY <1>1
<1>4. HandleType'
  BY <1>2 DEF HandleType
<1> QED
  BY <1>3, <1>4 DEF HandleType

\* Where a handler goes from its save, with what it keeps.
LEMMA AfterSaveCases ==
  ASSUME NEW k \in TaskType
  PROVE  LET a == AfterSave(k)
         IN  /\ a \in TaskType
             /\ \/ /\ k.op = "create" /\ k.rec.status = "Booting"
                   /\ a.op = k.op /\ a.pc = "spawn" /\ a.vm = k.vm /\ a.rec = k.rec
                   /\ a.pid = k.pid
                \/ /\ k.op \in {"create", "start"} /\ k.rec.status = "Active"
                   /\ a.op = "reap" /\ a.pc = "wait" /\ a.vm = k.vm /\ a.rec = NoFile
                   /\ a.pid = k.pid
                \/ /\ k.op = "delete"
                   /\ a.op = k.op /\ a.pc = "rmdir" /\ a.vm = k.vm /\ a.rec = k.rec
                \/ a = IdleTask
<1>1. CASE k.op = "create" /\ k.rec.status = "Booting"
  <2>1. AfterSave(k) = [k EXCEPT !.pc = "spawn"]
    BY <1>1 DEF AfterSave
  <2> QED
    BY <1>1, <2>1 DEF TaskType, Points
<1>2. CASE k.op \in {"create", "start"} /\ k.rec.status = "Active"
  <2>1. AfterSave(k) = [k EXCEPT !.op = "reap", !.pc = "wait", !.rec = NoFile,
                                 !.linked = FALSE]
    BY <1>2 DEF AfterSave
  <2> QED
    BY <1>2, <2>1, ConstantTypes DEF TaskType, Ops, Points
<1>3. CASE k.op = "delete"
  <2>1. AfterSave(k) = [k EXCEPT !.pc = "rmdir"]
    BY <1>3 DEF AfterSave
  <2> QED
    BY <1>3, <2>1 DEF TaskType, Points
<1>4. CASE /\ ~(k.op = "create" /\ k.rec.status = "Booting")
           /\ ~(k.op \in {"create", "start"} /\ k.rec.status = "Active")
           /\ k.op # "delete"
  BY <1>4, ConstantTypes DEF AfterSave
<1> QED
  BY <1>1, <1>2, <1>3, <1>4

\* Types and handles are kept by every step, whatever the clients do.
LEMMA TypeNext == TypeOK /\ HandleType /\ [Next]_vars => TypeOK' /\ HandleType'
<1> SUFFICES ASSUME TypeOK, HandleType, [Next]_vars PROVE TypeOK' /\ HandleType'
  OBVIOUS
<1> DEFINE TaskOK == /\ task' \in [Tasks -> TaskType]
                     /\ HandleType'
                     /\ \A u \in Tasks : task'[u].pc = "wait" => task'[u].pid \in Pids
<1>a. /\ file \in [VMs -> Record] /\ proc \in [Pids -> ProcType]
      /\ task \in [Tasks -> TaskType] /\ life \in [VMs -> {"unused", "live", "deleted"}]
      /\ requests \in Nat /\ faults \in Nat
      /\ \A t \in Tasks : task[t].pc = "wait" => task[t].pid \in Pids
  BY DEF TypeOK
<1>b. ASSUME TaskOK, file' \in [VMs -> Record], proc' \in [Pids -> ProcType],
             life' \in [VMs -> {"unused", "live", "deleted"}],
             requests' \in Nat, faults' \in Nat
      PROVE  TypeOK' /\ HandleType'
  BY <1>b DEF TypeOK
<1> HIDE DEF TaskOK
<1>1. ASSUME NEW t \in Tasks, NEW v \in VMs,
             CreateVm(t, v) \/ StartVm(t, v) \/ StopVm(t, v) \/ DeleteVm(t, v) \/ GetVm(t, v)
      PROVE  TypeOK' /\ HandleType'
  <2> DEFINE booting == [status |-> "Booting", power |-> "Booting", pid |-> NoPid]
  <2>1. booting \in Record
    BY DEF Record, VmStatus
  <2>2. PICK op \in {"create", "start", "stop", "delete", "get"},
             pc \in {"trunc", "check", "signal", "rmdir", "reconcile"},
             rec \in {booting, file[v]} :
               Begin(t, op, v, pc, rec) /\ (pc = "trunc" => rec = booting)
    BY <1>1 DEF CreateVm, StartVm, StopVm, DeleteVm, GetVm
  <2>3. PICK k \in TaskType : /\ k.op = op /\ k.pc = pc /\ k.vm = v /\ k.rec = rec
                              /\ task' = [task EXCEPT ![t] = k]
    <3>1. rec \in Record
      BY <1>a, <2>1
    <3> QED
      BY <2>2, <3>1, ConstantTypes DEF Begin, TaskType, Ops, Points
  <2>4. k.pc # "wait" /\ ~(k.pc \in {"trunc", "write"} /\ k.rec.status = "Active")
    BY <2>2, <2>3
  <2>5. TaskOK
    BY <2>3, <2>4, StepType DEF TaskOK
  <2>6. /\ UNCHANGED <<file, proc, faults>> /\ requests' \in Nat
        /\ life' \in [VMs -> {"unused", "live", "deleted"}]
    BY <1>a, <1>1 DEF CreateVm, StartVm, StopVm, DeleteVm, GetVm, Count
  <2> QED
    BY <1>a, <1>b, <2>5, <2>6
<1>2. ASSUME NEW t \in Tasks, Work(t) PROVE TypeOK' /\ HandleType'
  <2>a. task[t] \in TaskType /\ task[t].rec \in Record /\ task[t].pid \in Pids \cup {NoPid}
    BY <1>a DEF TaskType
  <2>b. ASSUME Finish(t) PROVE TaskOK
    BY <2>b, ConstantTypes, StepType DEF Finish, IdleTask, TaskOK
  <2>c. ASSUME NEW k \in TaskType, task' = [task EXCEPT ![t] = k], k.pc # "wait",
               k.pc \in {"trunc", "write"} => k.rec.status # "Active"
        PROVE  TaskOK
    BY <2>c, StepType DEF TaskOK
  <2>1. CASE CheckAlive(t)
    <3> DEFINE k == [task[t] EXCEPT !.pc = "spawn"]
    <3>1. k \in TaskType /\ k.pc = "spawn"
      BY <2>a DEF TaskType, Points
    <3>2. Finish(t) \/ task' = [task EXCEPT ![t] = k]
      BY <2>1 DEF CheckAlive
    <3> HIDE DEF k
    <3>3. TaskOK
      BY <2>b, <2>c, <3>1, <3>2
    <3> QED
      BY <1>a, <1>b, <2>1, <3>3 DEF CheckAlive
  <2>2. CASE Reconcile(t)
    <3> DEFINE k == [task[t] EXCEPT !.pc = "trunc", !.rec.status = "ShutOff",
                                    !.rec.power = "Stopped"]
    <3>1. k \in TaskType /\ k.pc = "trunc" /\ k.rec.status = "ShutOff"
      BY <2>a DEF TaskType, Points, Record, VmStatus
    <3>2. Finish(t) \/ task' = [task EXCEPT ![t] = k]
      BY <2>2 DEF Reconcile
    <3> HIDE DEF k
    <3>3. TaskOK
      BY <2>b, <2>c, <3>1, <3>2
    <3> QED
      BY <1>a, <1>b, <2>2, <3>3 DEF Reconcile
  <2>3. CASE Signal(t)
    <3> DEFINE k == [task[t] EXCEPT !.pc = "trunc", !.rec.status = "ShutOff", !.rec.pid = NoPid]
    <3>1. k \in TaskType /\ k.pc = "trunc" /\ k.rec.status = "ShutOff"
      BY <2>a DEF TaskType, Points, Record, VmStatus
    <3>2. task' = [task EXCEPT ![t] = k]
      BY <2>3 DEF Signal
    <3> HIDE DEF k
    <3>3. TaskOK
      BY <2>c, <3>1, <3>2
    <3>4. proc' \in [Pids -> ProcType]
      BY <1>a, <2>3 DEF Signal, ProcType
    <3> QED
      BY <1>a, <1>b, <2>3, <3>3, <3>4 DEF Signal
  <2>4. CASE Spawn(t)
    <3>1. PICK p \in Pids :
            /\ proc' = [proc EXCEPT ![p] = [st |-> "run", vm |-> task[t].vm, child |-> TRUE]]
            /\ task' = [task EXCEPT ![t].pc = "trunc", ![t].pid = p, ![t].rec = Active(p)]
      BY <2>4 DEF Spawn, Active
    <3> DEFINE k == [task[t] EXCEPT !.pc = "trunc", !.pid = p, !.rec = Active(p)]
    <3>2. k \in TaskType /\ k.pc = "trunc" /\ k.pid = p
      BY <2>a DEF TaskType, Points, Record, VmStatus, Active
    <3>3. task' = [task EXCEPT ![t] = k]
      BY <3>1
    <3> HIDE DEF k
    <3>4. TaskOK
      BY <3>2, <3>3, StepType DEF TaskOK
    <3>5. proc' \in [Pids -> ProcType]
      BY <1>a, <3>1 DEF ProcType, TaskType
    <3> QED
      BY <1>a, <1>b, <2>4, <3>4, <3>5 DEF Spawn
  <2>5. CASE SpawnFails(t)
    BY <1>a, <1>b, <2>b, <2>5 DEF SpawnFails, Fault
  <2>6. CASE SignalFails(t)
    BY <1>a, <1>b, <2>b, <2>6 DEF SignalFails, Fault
  <2>7. CASE SaveTruncates(t)
    <3> DEFINE k == [task[t] EXCEPT !.pc = "write", !.linked = TRUE]
    <3>1. /\ k \in TaskType /\ k.pc = "write" /\ k.op = task[t].op /\ k.rec = task[t].rec
          /\ k.pid = task[t].pid
      BY <2>a DEF TaskType, Points
    <3>2. task' = [task EXCEPT ![t] = k] /\ task[t].pc = "trunc"
      BY <2>7 DEF SaveTruncates
    <3> HIDE DEF k
    <3>3. TaskOK
      BY <3>1, <3>2, StepType DEF TaskOK, HandleType
    <3>4. file' \in [VMs -> Record]
      BY <1>a, <2>7, ConstantTypes DEF SaveTruncates
    <3> QED
      BY <1>a, <1>b, <2>7, <3>3, <3>4 DEF SaveTruncates
  <2>8. CASE SaveWrites(t)
    <3> DEFINE k == AfterSave(task[t])
    <3>1. /\ k \in TaskType
          /\ k.pc \notin {"trunc", "write"}
          /\ k.pc = "wait" => /\ task[t].op \in {"create", "start"}
                              /\ task[t].rec.status = "Active"
                              /\ k.pid = task[t].pid
      BY <2>a, AfterSaveCases DEF IdleTask
    <3>2. task' = [task EXCEPT ![t] = k] /\ task[t].pc = "write"
      BY <2>8 DEF SaveWrites
    <3> HIDE DEF k
    <3>3. TaskOK
      BY <3>1, <3>2, StepType DEF TaskOK, HandleType
    <3>4. file' \in [VMs -> Record]
      BY <1>a, <2>a, <2>8, ConstantTypes DEF SaveWrites
    <3> QED
      BY <1>a, <1>b, <2>8, <3>3, <3>4 DEF SaveWrites
  <2>9. CASE SaveFails(t)
    <3> DEFINE k == [task[t] EXCEPT !.pc = "rmdir"]
    <3>1. k \in TaskType /\ k.pc = "rmdir"
      BY <2>a DEF TaskType, Points
    <3>2. Finish(t) \/ task' = [task EXCEPT ![t] = k]
      BY <2>9 DEF SaveFails, Finish
    <3> HIDE DEF k
    <3>3. TaskOK
      BY <2>b, <2>c, <3>1, <3>2
    <3>4. proc' \in [Pids -> ProcType]
      BY <1>a, <2>9 DEF SaveFails, ProcType
    <3> QED
      BY <1>a, <1>b, <2>9, <3>3, <3>4 DEF SaveFails, Fault
  <2>10. CASE RemoveDir(t)
    <3>1. \A u \in Tasks : [task[u] EXCEPT !.linked = FALSE] \in TaskType
      BY <1>a DEF TaskType
    <3>2. task' \in [Tasks -> TaskType]
      BY <1>a, <2>10, <3>1, ConstantTypes DEF RemoveDir
    <3>3. \A u \in Tasks : \/ task'[u] = IdleTask
                           \/ /\ task'[u].op = task[u].op /\ task'[u].pc = task[u].pc
                              /\ task'[u].rec = task[u].rec /\ task'[u].pid = task[u].pid
      BY <1>a, <2>10 DEF RemoveDir, TaskType
    <3>4. TaskOK
      BY <3>2, <3>3 DEF TaskOK, HandleType, IdleTask
    <3>5. file' \in [VMs -> Record] /\ life' \in [VMs -> {"unused", "live", "deleted"}]
      BY <1>a, <2>10, ConstantTypes DEF RemoveDir
    <3> QED
      BY <1>a, <1>b, <2>10, <3>4, <3>5 DEF RemoveDir
  <2>11. CASE Wait(t)
    <3> DEFINE k == [task[t] EXCEPT !.pc = "load"]
    <3>1. k \in TaskType /\ k.pc = "load"
      BY <2>a DEF TaskType, Points
    <3>2. task' = [task EXCEPT ![t] = k]
      BY <2>11 DEF Wait
    <3> HIDE DEF k
    <3>3. TaskOK
      BY <2>c, <3>1, <3>2
    <3>4. proc' \in [Pids -> ProcType]
      BY <1>a, <2>11, ConstantTypes DEF Wait
    <3> QED
      BY <1>a, <1>b, <2>11, <3>3, <3>4 DEF Wait
  <2>12. CASE ReapLoad(t)
    <3> DEFINE k == [task[t] EXCEPT !.pc = "trunc",
                       !.rec = [status |-> "ShutOff", power |-> "Stopped", pid |-> NoPid]]
    <3>1. k \in TaskType /\ k.pc = "trunc" /\ k.rec.status = "ShutOff"
      BY <2>a DEF TaskType, Points, Record, VmStatus
    <3>2. Finish(t) \/ task' = [task EXCEPT ![t] = k]
      BY <2>12 DEF ReapLoad
    <3> HIDE DEF k
    <3>3. TaskOK
      BY <2>b, <2>c, <3>1, <3>2
    <3> QED
      BY <1>a, <1>b, <2>12, <3>3 DEF ReapLoad
  <2> QED
    BY <1>2, <2>1, <2>2, <2>3, <2>4, <2>5, <2>7, <2>8, <2>9, <2>10, <2>11, <2>12, <2>6 DEF Work
<1>3. ASSUME UNCHANGED <<task, file, life, requests, faults>> PROVE TaskOK
  BY <1>a, <1>3 DEF TaskOK, HandleType
<1>4. ASSUME NEW p \in Pids, Host(p) PROVE TypeOK' /\ HandleType'
  <2>1. UNCHANGED <<task, file, life, requests, faults>>
    BY <1>4 DEF Host, Exit, Terminate, OrphanReaped
  <2>2. proc' \in [Pids -> ProcType]
    BY <1>a, <1>4, ConstantTypes DEF Host, Exit, Terminate, OrphanReaped, ProcType
  <2> QED
    BY <1>a, <1>b, <1>3, <2>1, <2>2
<1>5. CASE Crash
  <2>1. TaskOK
    BY <1>5, ConstantTypes DEF Crash, TaskOK, HandleType, IdleTask
  <2>2. proc' \in [Pids -> ProcType]
    BY <1>a, <1>5 DEF Crash, ProcType
  <2> QED
    BY <1>a, <1>b, <1>5, <2>1, <2>2 DEF Crash, Fault
<1>6. CASE UNCHANGED vars
  BY <1>a, <1>b, <1>3, <1>6 DEF vars
<1> QED
  BY <1>1, <1>2, <1>4, <1>5, <1>6 DEF Next, Request

\* Every reachable state is well typed, whatever the clients, the host and the
\* faults do: a reaper always knows the child it waits for.
THEOREM LifecycleTypes == Spec => []TypeOK
<1>1. TypeOK /\ HandleType /\ [Next]_vars => (TypeOK /\ HandleType)'
  BY TypeNext
<1> QED
  BY <1>1, TypeInit, PTL DEF Spec

-----------------------------------------------------------------------------
(***************************************************************************)
(* Children and reapers.                                                   *)
(***************************************************************************)

\* A handler that holds a child is saving the record that names it; what else is needed of
\* the points a handler can be at.
Held ==
  \A t \in Tasks :
    /\ task[t].op \in {"create", "start"} /\ task[t].pid # NoPid =>
         task[t].pc \in {"trunc", "write"} /\ task[t].rec.status = "Active"
    /\ task[t].op = "idle" => task[t].pc = "idle"
    /\ task[t].pc = "check" => task[t].op = "start"
    /\ task[t].pc = "spawn" => task[t].op \in {"create", "start"}

\* The task t neither gets nor gives up a child, and no process comes, goes or changes
\* its parent.
LEMMA SameHandles ==
  ASSUME ReapersMatchChildren, NEW t \in Tasks,
         \A u \in Tasks \ {t} : /\ task'[u].op = task[u].op /\ task'[u].pc = task[u].pc
                               /\ task'[u].pid = task[u].pid /\ task'[u].vm = task[u].vm,
         Holds(t)' <=> Holds(t),
         Holds(t) => task'[t].pid = task[t].pid /\ task'[t].vm = task[t].vm,
         \A p \in Pids : /\ proc'[p].child = proc[p].child /\ proc'[p].vm = proc[p].vm
                         /\ proc'[p].st = "free" <=> proc[p].st = "free",
         \A u \in Tasks : Holds(u) => task[u].pid \in Pids
  PROVE  ReapersMatchChildren'
<1>1. \A u \in Tasks : /\ Holds(u)' <=> Holds(u)
                       /\ Holds(u) => /\ task'[u].pid = task[u].pid /\ task'[u].vm = task[u].vm
                                      /\ task[u].pid \in Pids
  BY DEF Holds
<1>2. (\A p \in Pids : proc[p].child => \E u \in Tasks : Holds(u) /\ task[u].pid = p)'
  BY <1>1 DEF ReapersMatchChildren
<1>3. (\A u \in Tasks : Holds(u) => LET p == task[u].pid
        IN  proc[p].st # "free" /\ proc[p].child /\ proc[p].vm = task[u].vm)'
  BY <1>1 DEF ReapersMatchChildren
<1>4. (\A u, w \in Tasks : Holds(u) /\ Holds(w) /\ task[u].pid = task[w].pid => u = w)'
  BY <1>1 DEF ReapersMatchChildren
<1> QED BY <1>2, <1>3, <1>4 DEF ReapersMatchChildren

LEMMA HeldPid ==
  ASSUME TypeOK, NEW t \in Tasks, Holds(t)
  PROVE  task[t].pid \in Pids
BY DEF TypeOK, TaskType, Holds

LEMMA MatchInit == Init => ReapersMatchChildren /\ Held
BY DEF Init, ReapersMatchChildren, Held, Holds, IdleTask, FreeProc

\* A step that moves the task t, which holds no child, to another point or ends it.
LEMMA FreeMoves ==
  ASSUME TypeOK, Held, ReapersMatchChildren, NEW t \in Tasks, ~Holds(t), ~Holds(t)',
         \A u \in Tasks \ {t} : /\ task'[u].op = task[u].op /\ task'[u].pc = task[u].pc
                               /\ task'[u].pid = task[u].pid /\ task'[u].vm = task[u].vm
                               /\ task'[u].rec = task[u].rec,
         \A p \in Pids : /\ proc'[p].child = proc[p].child /\ proc'[p].vm = proc[p].vm
                         /\ proc'[p].st = "free" <=> proc[p].st = "free",
         task'[t].op = "idle" => task'[t].pc = "idle",
         task'[t].pc = "check" => task'[t].op = "start",
         task'[t].pc = "spawn" => task'[t].op \in {"create", "start"}
  PROVE  ReapersMatchChildren' /\ Held'
<1>1. ReapersMatchChildren'
  BY SameHandles, HeldPid
<1>2. Held'
  BY DEF Held, Holds
<1> QED BY <1>1, <1>2

LEMMA RequestMatch ==
  ASSUME TypeOK, Held, ReapersMatchChildren, NEW t \in Tasks, NEW v \in VMs,
         CreateVm(t, v) \/ StartVm(t, v) \/ StopVm(t, v) \/ DeleteVm(t, v) \/ GetVm(t, v)
  PROVE  ReapersMatchChildren' /\ Held'
<1> DEFINE booting == [status |-> "Booting", power |-> "Booting", pid |-> NoPid]
<1>1. PICK op \in {"create", "start", "stop", "delete", "get"},
           pc \in {"trunc", "check", "signal", "rmdir", "reconcile"},
           rec \in {booting, file[v]} :
             Begin(t, op, v, pc, rec) /\ (pc = "check" => op = "start")
  BY DEF CreateVm, StartVm, StopVm, DeleteVm, GetVm
<1>2. /\ task'[t].op = op /\ task'[t].pc = pc /\ task'[t].pid = NoPid
      /\ \A u \in Tasks \ {t} : task'[u] = task[u]
      /\ task[t].op = "idle"
  BY <1>1 DEF Begin, Idle, IdleTask, TypeOK
<1>3. proc' = proc
  BY DEF CreateVm, StartVm, StopVm, DeleteVm, GetVm
<1>4. ~Holds(t) /\ ~Holds(t)'
  BY <1>1, <1>2 DEF Holds, Held
<1> QED BY <1>1, <1>2, <1>3, <1>4, FreeMoves

\* Steps of a task that holds no child.
LEMMA MovesMatch ==
  ASSUME TypeOK, Held, ReapersMatchChildren, NEW t \in Tasks,
         \/ CheckAlive(t) \/ Reconcile(t) \/ Signal(t) \/ SignalFails(t) \/ SpawnFails(t)
         \/ ReapLoad(t) \/ RemoveDir(t)
  PROVE  ReapersMatchChildren' /\ Held'
<1>1. task[t].pc \in {"check", "reconcile", "signal", "spawn", "load", "rmdir"}
  BY DEF CheckAlive, Reconcile, Signal, SignalFails, SpawnFails, ReapLoad, RemoveDir
<1>2. ~Holds(t)
  BY <1>1 DEF Holds, Held
<1>3. \A u \in Tasks \ {t} : /\ task'[u].op = task[u].op /\ task'[u].pc = task[u].pc
                           /\ task'[u].pid = task[u].pid /\ task'[u].vm = task[u].vm
                           /\ task'[u].rec = task[u].rec
  BY DEF TypeOK, TaskType, CheckAlive, Reconcile, Signal, SignalFails, SpawnFails, ReapLoad,
         RemoveDir, Finish
<1>4. \/ task'[t] = IdleTask
      \/ /\ task'[t].op = task[t].op /\ task'[t].pid = task[t].pid
         /\ task'[t].pc \in {"spawn", "trunc"}
         /\ task'[t].pc = "spawn" => task[t].pc = "check"
  BY DEF TypeOK, TaskType, CheckAlive, Reconcile, Signal, SignalFails, SpawnFails, ReapLoad,
         RemoveDir, Finish
<1>5. \A p \in Pids : /\ proc'[p].child = proc[p].child /\ proc'[p].vm = proc[p].vm
                      /\ proc'[p].st = "free" <=> proc[p].st = "free"
  BY DEF TypeOK, ProcType, CheckAlive, Reconcile, Signal, SignalFails, SpawnFails, ReapLoad,
         RemoveDir
<1>6. /\ ~Holds(t)'
      /\ task'[t].op = "idle" => task'[t].pc = "idle"
      /\ task'[t].pc = "check" => task'[t].op = "start"
      /\ task'[t].pc = "spawn" => task'[t].op \in {"create", "start"}
  BY <1>1, <1>4 DEF Holds, Held, IdleTask
<1> QED BY <1>2, <1>3, <1>5, <1>6, FreeMoves

\* The handler that spawns a VMM holds it, under a pid that nobody holds.
LEMMA SpawnMatch ==
  ASSUME TypeOK, Held, ReapersMatchChildren, NEW t \in Tasks, Spawn(t)
  PROVE  ReapersMatchChildren' /\ Held'
<1>1. PICK p \in Pids :
        /\ proc[p].st = "free"
        /\ proc' = [proc EXCEPT ![p] = [st |-> "run", vm |-> task[t].vm, child |-> TRUE]]
        /\ task' = [task EXCEPT ![t].pc = "trunc", ![t].pid = p, ![t].rec = Active(p)]
  BY DEF Spawn, Active
<1>2. /\ \A u \in Tasks \ {t} : task'[u] = task[u]
      /\ task'[t].pc = "trunc" /\ task'[t].pid = p /\ task'[t].vm = task[t].vm
      /\ task'[t].rec.status = "Active" /\ task'[t].op = task[t].op
  BY <1>1 DEF TypeOK, TaskType, Active
<1>3. /\ \A q \in Pids \ {p} : proc'[q] = proc[q]
      /\ proc'[p].child /\ proc'[p].st # "free" /\ proc'[p].vm = task[t].vm
  BY <1>1 DEF TypeOK
<1>4. task[t].op \in {"create", "start"} /\ p # NoPid /\ ~Holds(t)
  BY ConstantTypes DEF Spawn, Held, Holds
<1>5. Holds(t)' /\ \A u \in Tasks \ {t} : Holds(u)' <=> Holds(u)
  BY <1>2, <1>4 DEF Holds
<1>6. \A u \in Tasks : Holds(u) => task[u].pid # p /\ task[u].pid \in Pids
  BY <1>1, HeldPid DEF ReapersMatchChildren
<1>7. ReapersMatchChildren'
  <2>1. (\A q \in Pids : proc[q].child => \E u \in Tasks : Holds(u) /\ task[u].pid = q)'
    BY <1>2, <1>3, <1>4, <1>5 DEF ReapersMatchChildren
  <2>2. (\A u \in Tasks : Holds(u) => LET q == task[u].pid
          IN  proc[q].st # "free" /\ proc[q].child /\ proc[q].vm = task[u].vm)'
    BY <1>2, <1>3, <1>5, <1>6 DEF ReapersMatchChildren
  <2>3. (\A u, w \in Tasks : Holds(u) /\ Holds(w) /\ task[u].pid = task[w].pid => u = w)'
    BY <1>2, <1>5, <1>6 DEF ReapersMatchChildren
  <2> QED BY <2>1, <2>2, <2>3 DEF ReapersMatchChildren
<1>8. Held'
  BY <1>2, <1>4 DEF Held
<1> QED BY <1>7, <1>8

\* A save hands the child on to the reaper.
LEMMA SaveMatch ==
  ASSUME TypeOK, HandleType, Held, ReapersMatchChildren, NEW t \in Tasks,
         SaveTruncates(t) \/ SaveWrites(t)
  PROVE  ReapersMatchChildren' /\ Held'
<1>1. proc' = proc /\ \A u \in Tasks \ {t} : task'[u] = task[u]
  BY DEF TypeOK, SaveTruncates, SaveWrites
<1>2. task[t] \in TaskType
  BY DEF TypeOK
<1>3. CASE SaveTruncates(t)
  <2>1. /\ task'[t].op = task[t].op /\ task'[t].pc = "write" /\ task'[t].pid = task[t].pid
        /\ task'[t].vm = task[t].vm /\ task'[t].rec = task[t].rec /\ task[t].pc = "trunc"
    BY <1>3 DEF TypeOK, SaveTruncates
  <2>2. Holds(t)' <=> Holds(t)
    BY <2>1 DEF Holds
  <2>3. ReapersMatchChildren'
    BY <1>1, <2>1, <2>2, SameHandles, HeldPid
  <2>4. Held'
    BY <1>1, <2>1 DEF Held
  <2> QED BY <2>3, <2>4
<1>4. CASE SaveWrites(t)
  <2>1. task'[t] = AfterSave(task[t]) /\ task[t].pc = "write"
    BY <1>4 DEF SaveWrites, TypeOK
  <2>2. PICK k, a : k = task[t] /\ a = AfterSave(k) /\ k \in TaskType
    BY <1>2
  <2>3. \/ /\ k.op = "create" /\ k.rec.status = "Booting"
           /\ a.op = k.op /\ a.pc = "spawn" /\ a.pid = k.pid
        \/ /\ k.op \in {"create", "start"} /\ k.rec.status = "Active"
           /\ a.op = "reap" /\ a.pc = "wait" /\ a.vm = k.vm /\ a.pid = k.pid
        \/ k.op = "delete" /\ a.op = "delete" /\ a.pc = "rmdir"
        \/ a = IdleTask /\ ~(k.op \in {"create", "start"} /\ k.rec.status = "Active")
    <3>1. CASE k.op \in {"create", "start"} /\ k.rec.status = "Active"
      <4>1. k.rec.status # "Booting" /\ k.op # "delete" /\ IdleTask.op = "idle"
        BY <3>1 DEF IdleTask
      <4>2. a = [k EXCEPT !.op = "reap", !.pc = "wait", !.rec = NoFile, !.linked = FALSE]
        BY <2>2, <3>1, <4>1 DEF AfterSave
      <4> QED
        BY <2>2, <3>1, <4>2 DEF TaskType
    <3>2. CASE ~(k.op \in {"create", "start"} /\ k.rec.status = "Active")
      BY <2>2, <3>2, AfterSaveCases
    <3> QED
      BY <3>1, <3>2
  <2>4. /\ Holds(t)' <=> Holds(t)
        /\ Holds(t) => task'[t].pid = task[t].pid /\ task'[t].vm = task[t].vm
    BY <2>1, <2>2, <2>3, ConstantTypes DEF Holds, Held, HandleType, IdleTask
  <2>5. ReapersMatchChildren'
    BY <1>1, <2>4, SameHandles, HeldPid
  <2>6. Held'
    BY <1>1, <2>1, <2>2, <2>3 DEF Held, IdleTask
  <2> QED BY <2>5, <2>6
<1> QED BY <1>3, <1>4

\* Where a handler drops its child, the child is no longer the API's to wait for; where
\* a reaper has waited for it, it is gone.
LEMMA DropMatch ==
  ASSUME TypeOK, Held, ReapersMatchChildren, NEW t \in Tasks, SaveFails(t) \/ Wait(t)
  PROVE  ReapersMatchChildren' /\ Held'
<1>1. /\ \A u \in Tasks \ {t} : task'[u] = task[u]
      /\ \/ task'[t] = IdleTask
         \/ task'[t].op = "delete" /\ task'[t].pc = "rmdir"
         \/ /\ task'[t].op = task[t].op /\ task'[t].pid = task[t].pid
            /\ task[t].pc = "wait" /\ task'[t].pc = "load"
  <2>1. CASE SaveFails(t)
    <3> DEFINE k == [task[t] EXCEPT !.pc = "rmdir"]
    <3>1. k.op = task[t].op /\ k.pid = task[t].pid /\ k.pc = "rmdir"
      BY DEF TypeOK, TaskType
    <3>2. /\ \A u \in Tasks \ {t} : task'[u] = task[u]
          /\ task'[t] = IF task[t].op = "delete" THEN k ELSE IdleTask
      BY <2>1 DEF TypeOK, SaveFails
    <3> HIDE DEF k
    <3>3. CASE task[t].op = "delete"
      <4>1. task'[t] = k
        BY <3>2, <3>3
      <4> QED BY <3>1, <3>2, <3>3, <4>1
    <3>4. CASE task[t].op # "delete"
      BY <3>2, <3>4
    <3> QED BY <3>3, <3>4
  <2>2. CASE Wait(t)
    BY <2>2 DEF TypeOK, TaskType, Wait
  <2> QED BY <2>1, <2>2
<1>2. ~Holds(t)' /\ \A u \in Tasks \ {t} : Holds(u)' <=> Holds(u)
  BY <1>1 DEF Holds, Held, IdleTask
<1>3. Held'
  BY <1>1 DEF Held, IdleTask
<1>4. /\ \A p \in Pids : p # task[t].pid \/ ~Holds(t) =>
              /\ proc'[p].child = proc[p].child /\ proc'[p].vm = proc[p].vm
              /\ proc'[p].st = "free" <=> proc[p].st = "free"
      /\ Holds(t) => ~proc'[task[t].pid].child
  BY HeldPid DEF TypeOK, ProcType, Holds, SaveFails, Wait, FreeProc
<1>5. \A u \in Tasks : Holds(u) => task[u].pid \in Pids
  BY HeldPid
<1>6. (\A q \in Pids : proc[q].child => \E u \in Tasks : Holds(u) /\ task[u].pid = q)'
  BY <1>1, <1>2, <1>4 DEF ReapersMatchChildren
<1>7. (\A u \in Tasks : Holds(u) => LET q == task[u].pid
        IN  proc[q].st # "free" /\ proc[q].child /\ proc[q].vm = task[u].vm)'
  BY <1>1, <1>2, <1>4, <1>5 DEF ReapersMatchChildren
<1>8. (\A u, w \in Tasks : Holds(u) /\ Holds(w) /\ task[u].pid = task[w].pid => u = w)'
  BY <1>1, <1>2 DEF ReapersMatchChildren
<1> QED BY <1>3, <1>6, <1>7, <1>8 DEF ReapersMatchChildren

LEMMA HostMatch ==
  ASSUME TypeOK, Held, ReapersMatchChildren, NEW p \in Pids, Host(p)
  PROVE  ReapersMatchChildren' /\ Held'
<1>1. task' = task /\ (Held' <=> Held) /\ \A u \in Tasks : Holds(u)' <=> Holds(u)
  BY DEF Host, Exit, Terminate, OrphanReaped, Held, Holds
<1>2. \A q \in Pids : /\ proc'[q].child = proc[q].child
                      /\ proc[q].child => /\ proc'[q].vm = proc[q].vm
                                          /\ proc'[q].st = "free" <=> proc[q].st = "free"
  <2>1. CASE Exit(p) \/ Terminate(p)
    BY <2>1 DEF TypeOK, ProcType, Exit, Terminate
  <2>2. CASE OrphanReaped(p)
    <3>1. /\ proc'[p] = FreeProc /\ \A q \in Pids \ {p} : proc'[q] = proc[q]
          /\ proc[p].child = FALSE
      BY <2>2 DEF TypeOK, ProcType, OrphanReaped
    <3>2. FreeProc.child = FALSE
      BY DEF FreeProc
    <3> QED BY <3>1, <3>2
  <2> QED BY <2>1, <2>2 DEF Host
<1>3. \A u \in Tasks : Holds(u) => task[u].pid \in Pids
  BY HeldPid
<1> QED BY <1>1, <1>2, <1>3 DEF ReapersMatchChildren

LEMMA CrashMatch ==
  ASSUME TypeOK, Crash
  PROVE  ReapersMatchChildren' /\ Held'
<1>1. /\ \A t \in Tasks : task'[t] = IdleTask
      /\ \A p \in Pids : ~proc'[p].child
  BY DEF Crash, TypeOK, ProcType
<1> QED BY <1>1 DEF ReapersMatchChildren, Held, Holds, IdleTask

LEMMA MatchNext ==
  ASSUME TypeOK, HandleType, Held, ReapersMatchChildren, [Next]_vars
  PROVE  ReapersMatchChildren' /\ Held'
<1>1. ASSUME NEW t \in Tasks, Work(t)
      PROVE  ReapersMatchChildren' /\ Held'
  BY <1>1, MovesMatch, SpawnMatch, SaveMatch, DropMatch DEF Work
<1>2. CASE UNCHANGED vars
  BY <1>2 DEF vars, ReapersMatchChildren, Held, Holds
<1> QED BY <1>1, <1>2, RequestMatch, HostMatch, CrashMatch DEF Next, Request

\* Whatever clients, host and faults do, every VMM whose parent is the API has exactly
\* one task of its own VM that waits for it or is going to: no zombie is left, and no
\* reaper acts for another's process.
THEOREM ChildrenAreReaped == Spec => []ReapersMatchChildren
<1> DEFINE IInv == TypeOK /\ HandleType /\ Held /\ ReapersMatchChildren
<1>1. Init => IInv
  BY TypeInit, MatchInit
<1>2. IInv /\ [Next]_vars => IInv'
  BY TypeNext, MatchNext
<1> QED BY <1>1, <1>2, PTL DEF Spec

=============================================================================

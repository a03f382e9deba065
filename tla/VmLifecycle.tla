---------------------------- MODULE VmLifecycle -----------------------------
(***************************************************************************)
(* The life of virtual machines on one node, as caiman-api runs it: the    *)
(* HTTP handlers (api/src/main.rs), the process runner (vm/runner.rs) and  *)
(* the state.json file of each VM (vm/state.rs), which is all the API      *)
(* remembers.  Handlers run on a multi-threaded runtime without any lock:  *)
(* they interleave at every system call.                                   *)
(*                                                                         *)
(* A task is one handler in flight; a handler that has spawned a VMM       *)
(* answers and leaves behind the reaper it spawned, which is the same task *)
(* going on with op = "reap".  A handler holds the copy of the state it    *)
(* loaded in rec until it saves it back.                                   *)
(*                                                                         *)
(* Left out: console bridge, network set-up, disk cloning and the fields   *)
(* of VmState that no decision depends on.  Requests that fail before they *)
(* change anything (load fails) are not steps.                             *)
(***************************************************************************)
EXTENDS Naturals, FiniteSets

CONSTANTS
  VMs, NoVm,    \* ids the API can hand out, and none of them
  Pids,         \* process ids of the host, 0 excluded
  Tasks,        \* handlers and reapers that can be in flight at once
  MaxRequests,  \* bound: create, start, stop and delete requests
  MaxFaults,    \* bound: faults in a behaviour
  Faults,       \* which faults: "spawn", "save" and "signal" fail, the API may "crash"
  Discipline    \* what the clients promise: "any" (nothing) or "observe"

ASSUME LifecycleAssumption ==
  /\ NoVm \notin VMs
  /\ Pids \subseteq Nat \ {0}
  /\ MaxRequests \in Nat /\ MaxFaults \in Nat
  /\ Faults \subseteq {"spawn", "save", "signal", "crash"}
  /\ Discipline \in {"any", "observe"}

NoPid == 0
VmStatus == {"Booting", "Active", "ShutOff"}

\* The contents of state.json.  Three statuses stand for contents that
\* VmState::load rejects: no file, a truncated file, two writes run together.
Record == [status: VmStatus \cup {"none", "empty", "garbled"},
           power: {"Booting", "Running", "Stopped"},
           pid: Pids \cup {NoPid}]

NoFile == [status |-> "none", power |-> "Stopped", pid |-> NoPid]
Empty == [NoFile EXCEPT !.status = "empty"]
Garbled == [NoFile EXCEPT !.status = "garbled"]

VARIABLES
  file,      \* [VMs -> Record], the state.json files
  life,      \* [VMs -> {"unused", "live", "deleted"}], what became of each id
  proc,      \* [Pids -> ...], the VMM processes of the host
  task,      \* [Tasks -> ...], the API's handlers and reapers
  requests,  \* requests served so far
  faults     \* faults so far

vars == <<file, life, proc, task, requests, faults>>

ProcType == [st: {"free", "run", "term", "zombie"},   \* term: signalled, not yet gone
             vm: VMs \cup {NoVm},
             child: BOOLEAN]                          \* its parent is the running API

FreeProc == [st |-> "free", vm |-> NoVm, child |-> FALSE]

Ops == {"idle", "create", "start", "stop", "delete", "get", "reap"}
Points == {"idle", "check", "reconcile", "signal", "spawn", "trunc", "write", "rmdir",
           "wait", "load"}

TaskType == [op: Ops, pc: Points, vm: VMs \cup {NoVm}, rec: Record,
             pid: Pids \cup {NoPid},
             linked: BOOLEAN]     \* the file opened by save is still in the directory

IdleTask == [op |-> "idle", pc |-> "idle", vm |-> NoVm, rec |-> NoFile, pid |-> NoPid,
             linked |-> FALSE]

Idle(t) == task[t].op = "idle"

Loads(v) == file[v].status \in VmStatus

\* kill(pid, 0) = 0, and equally /proc/pid exists: zombies count.
Alive(p) == p # NoPid /\ proc[p].st # "free"

ProcessesOf(v) == {p \in Pids : proc[p].st # "free" /\ proc[p].vm = v}

\* Tasks at work on v; a reaper asleep in child.wait() is not at work.
Working(v) == {t \in Tasks : ~Idle(t) /\ task[t].vm = v /\ task[t].pc # "wait"}

Init ==
  /\ file = [v \in VMs |-> NoFile]
  /\ life = [v \in VMs |-> "unused"]
  /\ proc = [p \in Pids |-> FreeProc]
  /\ task = [t \in Tasks |-> IdleTask]
  /\ requests = 0
  /\ faults = 0

-----------------------------------------------------------------------------
(***************************************************************************)
(* The clients.  With "any" they send what they like.  With "observe" a    *)
(* client sends one request at a time for a VM, and starts or deletes it   *)
(* only when the API shows power_state "Stopped".                          *)
(***************************************************************************)

Sequential(v) == \A t \in Working(v) : task[t].op = "reap"

Admits(op, v) ==
  Discipline = "observe" =>
    /\ Sequential(v)
    /\ op \in {"start", "delete"} => file[v].power = "Stopped"

\* A request arrives and its handler begins with the record it loaded.
Begin(t, op, v, pc, rec) ==
  /\ Idle(t)
  /\ Admits(op, v)
  /\ task' = [task EXCEPT ![t] = [IdleTask EXCEPT !.op = op, !.pc = pc, !.vm = v,
                                                   !.rec = rec]]

Fault(kind) == kind \in Faults /\ faults < MaxFaults /\ faults' = faults + 1

Count == requests < MaxRequests /\ requests' = requests + 1

\* POST /api/vms: spawn_vm up to its first save, of status Booting.
CreateVm(t, v) ==
  /\ life[v] = "unused"
  /\ Begin(t, "create", v, "trunc", [status |-> "Booting", power |-> "Booting", pid |-> NoPid])
  /\ Count
  /\ life' = [life EXCEPT ![v] = "live"]
  /\ UNCHANGED <<file, proc, faults>>

\* POST .../start: restart_vm loads the state.
StartVm(t, v) ==
  /\ Loads(v)
  /\ Begin(t, "start", v, "check", file[v])
  /\ Count
  /\ UNCHANGED <<file, life, proc, faults>>

\* POST .../stop and .../force-stop: stop_vm_h and force_stop_h load the state.  A
\* VMM has no handler for SIGTERM, so that both signals end it alike.
StopVm(t, v) ==
  /\ Loads(v)
  /\ Begin(t, "stop", v, "signal", file[v])
  /\ Count
  /\ UNCHANGED <<file, life, proc, faults>>

\* DELETE /api/vms/:id: delete_vm_h kills the VMM only if the state says Active.
DeleteVm(t, v) ==
  /\ file[v].status # "none"
  /\ Begin(t, "delete", v, IF file[v].status = "Active" THEN "signal" ELSE "rmdir", file[v])
  /\ Count
  /\ UNCHANGED <<file, life, proc, faults>>

\* GET of one VM, or its turn in a list: load, then reconcile if it is Active.
GetVm(t, v) ==
  /\ file[v].status = "Active"
  /\ Begin(t, "get", v, "reconcile", file[v])
  /\ UNCHANGED <<file, life, proc, requests, faults>>

-----------------------------------------------------------------------------
(***************************************************************************)
(* Steps of the handlers.                                                  *)
(***************************************************************************)

Finish(t) == task' = [task EXCEPT ![t] = IdleTask]

\* restart_vm: "Check not already running".
CheckAlive(t) ==
  /\ task[t].pc = "check"
  /\ IF Alive(task[t].rec.pid)
     THEN Finish(t)
     ELSE task' = [task EXCEPT ![t].pc = "spawn"]
  /\ UNCHANGED <<file, life, proc, requests, faults>>

\* Mutant: reconcile corrects its own copy and never saves it.
ReconcileUnsaved(t) ==
  /\ task[t].pc = "reconcile"
  /\ Finish(t)
  /\ UNCHANGED <<file, life, proc, requests, faults>>

\* VmState::reconcile: an Active VM whose pid is gone is saved as ShutOff; the
\* pid stays in the record.
Reconcile(t) ==
  /\ task[t].pc = "reconcile"
  /\ IF Alive(task[t].rec.pid)
     THEN Finish(t)
     ELSE task' = [task EXCEPT ![t].pc = "trunc", ![t].rec.status = "ShutOff",
                               ![t].rec.power = "Stopped"]
  /\ UNCHANGED <<file, life, proc, requests, faults>>

\* stop_vm and kill_vm: signal the recorded pid, whoever runs under it by now, and
\* save the VM as ShutOff without waiting for the process to go.
Signal(t) ==
  /\ task[t].pc = "signal"
  /\ LET p == task[t].rec.pid
     IN  proc' = IF p # NoPid /\ proc[p].st = "run"
                 THEN [proc EXCEPT ![p].st = "term"] ELSE proc
  /\ task' = [task EXCEPT ![t].pc = "trunc", ![t].rec.status = "ShutOff",
                          ![t].rec.pid = NoPid]
  /\ UNCHANGED <<file, life, requests, faults>>

\* stop_vm's kill fails with another error than ESRCH: it bails before it saves.
SignalFails(t) ==
  /\ Fault("signal")
  /\ task[t].pc = "signal" /\ task[t].op = "stop"
  /\ Alive(task[t].rec.pid)
  /\ Finish(t)
  /\ UNCHANGED <<file, life, proc, requests>>

\* cmd.spawn(), under any pid that is free.
Spawn(t) ==
  /\ task[t].pc = "spawn"
  /\ \E p \in Pids :
       /\ proc[p].st = "free"
       /\ proc' = [proc EXCEPT ![p] = [st |-> "run", vm |-> task[t].vm, child |-> TRUE]]
       /\ task' = [task EXCEPT ![t].pc = "trunc", ![t].pid = p,
                     ![t].rec = [status |-> "Active", power |-> "Running", pid |-> p]]
  /\ UNCHANGED <<file, life, requests, faults>>

\* Log, pty or spawn fails: the handler returns an error and the file stays as it is.
SpawnFails(t) ==
  /\ Fault("spawn")
  /\ task[t].pc = "spawn"
  /\ Finish(t)
  /\ UNCHANGED <<file, life, proc, requests>>

\* VmState::save, first half: create_dir_all, and fs::write opens and truncates.
SaveTruncates(t) ==
  /\ task[t].pc = "trunc"
  /\ file' = [file EXCEPT ![task[t].vm] = Empty]
  /\ task' = [task EXCEPT ![t].pc = "write", ![t].linked = TRUE]
  /\ UNCHANGED <<life, proc, requests, faults>>

\* Mutant: the handler leaves a reaper behind after its first save too, before
\* there is a child to wait for.
AfterSaveReapsAlways(k) ==
  CASE k.op \in {"create", "start"} ->
         [k EXCEPT !.op = "reap", !.pc = "wait", !.rec = NoFile, !.linked = FALSE]
    [] k.op = "delete" -> [k EXCEPT !.pc = "rmdir"]
    [] OTHER -> IdleTask

\* Mutant: restart_vm leaves no reaper behind.
AfterSaveStartForgets(k) ==
  CASE k.op = "create" /\ k.rec.status = "Booting" -> [k EXCEPT !.pc = "spawn"]
    [] k.op = "create" /\ k.rec.status = "Active" ->
         [k EXCEPT !.op = "reap", !.pc = "wait", !.rec = NoFile, !.linked = FALSE]
    [] k.op = "delete" -> [k EXCEPT !.pc = "rmdir"]
    [] OTHER -> IdleTask

\* What the handler does once the save is done.
AfterSave(k) ==
  CASE k.op = "create" /\ k.rec.status = "Booting" -> [k EXCEPT !.pc = "spawn"]
    [] k.op \in {"create", "start"} /\ k.rec.status = "Active" ->
         [k EXCEPT !.op = "reap", !.pc = "wait", !.rec = NoFile, !.linked = FALSE]
    [] k.op = "delete" -> [k EXCEPT !.pc = "rmdir"]
    [] OTHER -> IdleTask

\* VmState::save, second half: the bytes are written from offset 0.  Another save
\* may have written the file since it was truncated here: if its text is longer,
\* the end of it stays.
SaveWrites(t) ==
  /\ task[t].pc = "write"
  /\ LET v == task[t].vm
         r == task[t].rec
     IN  IF ~task[t].linked
         THEN file' = file
         ELSE \E c \in {r} \cup (IF file[v] \in {Empty, r} THEN {} ELSE {Garbled}) :
                 file' = [file EXCEPT ![v] = c]
  /\ task' = [task EXCEPT ![t] = AfterSave(task[t])]
  /\ UNCHANGED <<life, proc, requests, faults>>

\* Either half fails.  A handler that spawned a VMM returns without a reaper, and
\* the runtime waits for the dropped child; delete_vm_h ignores the error.
SaveFails(t) ==
  /\ Fault("save")
  /\ task[t].pc \in {"trunc", "write"}
  /\ task' = [task EXCEPT ![t] = IF @.op = "delete" THEN [@ EXCEPT !.pc = "rmdir"]
                                 ELSE IdleTask]
  /\ LET p == task[t].pid
     IN  proc' = IF task[t].op \in {"create", "start"} /\ p # NoPid
                 THEN [proc EXCEPT ![p].child = FALSE] ELSE proc
  /\ UNCHANGED <<file, life, requests>>

\* VmState::delete: remove_dir_all.
RemoveDir(t) ==
  /\ task[t].pc = "rmdir"
  /\ LET v == task[t].vm
     IN  /\ file' = [file EXCEPT ![v] = NoFile]
         /\ life' = [life EXCEPT ![v] = "deleted"]
         /\ task' = [u \in Tasks |-> IF u = t THEN IdleTask
                                     ELSE IF task[u].vm = v
                                     THEN [task[u] EXCEPT !.linked = FALSE] ELSE task[u]]
  /\ UNCHANGED <<proc, requests, faults>>

-----------------------------------------------------------------------------
(***************************************************************************)
(* Reapers, processes and the crash of the API.                            *)
(***************************************************************************)

\* child.wait() returns: the zombie is gone and its pid is free.  It cannot fail with
\* ECHILD, since nobody else waits for a child of the API (ReapersMatchChildren).
Wait(t) ==
  /\ task[t].pc = "wait"
  /\ proc[task[t].pid].st = "zombie"
  /\ proc' = [proc EXCEPT ![task[t].pid] = FreeProc]
  /\ task' = [task EXCEPT ![t].pc = "load"]
  /\ UNCHANGED <<file, life, requests, faults>>

\* The reaper marks whatever record it finds as stopped.
ReapLoad(t) ==
  /\ task[t].pc = "load"
  /\ IF Loads(task[t].vm)
     THEN task' = [task EXCEPT ![t].pc = "trunc",
                     ![t].rec = [status |-> "ShutOff", power |-> "Stopped", pid |-> NoPid]]
     ELSE Finish(t)
  /\ UNCHANGED <<file, life, proc, requests, faults>>

\* A VMM ends: its guest shuts down or resets, or it faults.
Exit(p) ==
  /\ proc[p].st = "run"
  /\ proc' = [proc EXCEPT ![p].st = "zombie"]
  /\ UNCHANGED <<file, life, task, requests, faults>>

\* A VMM ends because it was signalled.
Terminate(p) ==
  /\ proc[p].st = "term"
  /\ proc' = [proc EXCEPT ![p].st = "zombie"]
  /\ UNCHANGED <<file, life, task, requests, faults>>

\* Zombies whose handle is lost are collected by init or by the runtime.
OrphanReaped(p) ==
  /\ proc[p].st = "zombie"
  /\ ~proc[p].child
  /\ proc' = [proc EXCEPT ![p] = FreeProc]
  /\ UNCHANGED <<file, life, task, requests, faults>>

\* The API process dies and is started again; VMMs live on in their own sessions.
Crash ==
  /\ Fault("crash")
  /\ task' = [t \in Tasks |-> IdleTask]
  /\ proc' = [p \in Pids |-> [proc[p] EXCEPT !.child = FALSE]]
  /\ UNCHANGED <<file, life, requests>>

-----------------------------------------------------------------------------

Request ==
  \E t \in Tasks, v \in VMs :
    CreateVm(t, v) \/ StartVm(t, v) \/ StopVm(t, v) \/ DeleteVm(t, v) \/ GetVm(t, v)

Work(t) ==
  \/ CheckAlive(t) \/ Reconcile(t) \/ Signal(t) \/ SignalFails(t)
  \/ Spawn(t) \/ SpawnFails(t)
  \/ SaveTruncates(t) \/ SaveWrites(t) \/ SaveFails(t) \/ RemoveDir(t)
  \/ Wait(t) \/ ReapLoad(t)

Host(p) == Exit(p) \/ Terminate(p) \/ OrphanReaped(p)

Next ==
  \/ Request
  \/ \E t \in Tasks : Work(t)
  \/ \E p \in Pids : Host(p)
  \/ Crash

Spec == Init /\ [][Next]_vars

\* Tasks are scheduled, signalled processes end, zombies without a parent are
\* collected, and the UI keeps polling every VM: strongly, because the runtime has a
\* task for every request and Tasks is only a bound.  Guests may run for ever.
FairSpec ==
  /\ Spec
  /\ \A t \in Tasks : WF_vars(Work(t))
  /\ \A p \in Pids : WF_vars(Terminate(p) \/ OrphanReaped(p))
  /\ \A v \in VMs : SF_vars(\E t \in Tasks : GetVm(t, v))

-----------------------------------------------------------------------------
(***************************************************************************)
(* Properties.                                                             *)
(***************************************************************************)

\* The type invariant; a reaper knows the process it waits for.
TypeOK ==
  /\ file \in [VMs -> Record]
  /\ life \in [VMs -> {"unused", "live", "deleted"}]
  /\ proc \in [Pids -> ProcType]
  /\ task \in [Tasks -> TaskType]
  /\ \A t \in Tasks : task[t].pc = "wait" => task[t].pid \in Pids
  /\ requests \in Nat /\ faults \in Nat

\* restart_vm's "Check not already running": no VM ever has two VMM processes,
\* which would write to one disk image.
SingleVmm == \A v \in VMs : \A p, q \in ProcessesOf(v) : p = q

\* The handler holds the handle of a VMM it spawned, or its reaper does.
Holds(t) ==
  \/ task[t].op \in {"create", "start"} /\ task[t].pid # NoPid
  \/ task[t].pc = "wait"

\* "Reap the child to avoid zombies": whatever clients do, saves fail and the API
\* crashes, a VMM whose parent is the API has exactly one task that waits for it or is
\* going to, and that is a task of its own VM.  So no zombie is left, and no reaper
\* marks a VM as stopped for the end of another's process.
ReapersMatchChildren ==
  /\ \A p \in Pids : proc[p].child => \E t \in Tasks : Holds(t) /\ task[t].pid = p
  /\ \A t \in Tasks : Holds(t) =>
       LET p == task[t].pid IN proc[p].st # "free" /\ proc[p].child /\ proc[p].vm = task[t].vm
  /\ \A t, u \in Tasks : Holds(t) /\ Holds(u) /\ task[t].pid = task[u].pid => t = u

\* reconcile and the reapers repair the record: a VM that has no process does not
\* stay Active in its state.json, even if the API crashed in between, unless the host
\* has given the recorded pid to the VMM of another VM.
StatusHeals ==
  \A v \in VMs : (ProcessesOf(v) = {} /\ file[v].status = "Active")
    ~> (ProcessesOf(v) # {} \/ file[v].status # "Active" \/ Alive(file[v].pid))

=============================================================================

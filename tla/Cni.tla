-------------------------------- MODULE Cni --------------------------------
(***************************************************************************)
(* Addresses of VMs: the API's create, start and delete, the caiman-cni    *)
(* processes it runs (cni/src/main.rs, standalone.rs), and the allocation  *)
(* file they share without a lock (cni/src/ipam.rs).                       *)
(*                                                                         *)
(* A step is a system call on the file.  The TAP that caiman-cni makes     *)
(* matters here only in that it may fail: the VMM opens one of another     *)
(* name.  CHECK, VERSION and STATUS, which change nothing, are left out.   *)
(***************************************************************************)
EXTENDS Integers, FiniteSets

CONSTANTS
  Vms,           \* ids of VMs; an id is never used again
  Procs,         \* caiman-cni processes that can run at a time
  IpStart, IpEnd,
  None,          \* no address
  Torn,          \* a file that does not parse
  MaxRequests,   \* bound: runs of caiman-cni
  MaxFaults      \* bound: killed processes, failing saves, failing commands

Addrs == IpStart .. IpEnd

ASSUME CniAssumption ==
  /\ IpStart \in Nat /\ IpEnd \in Nat /\ IpStart <= IpEnd
  /\ None \notin Int
  /\ Torn \notin [Vms -> Addrs \cup {None}]
  /\ MaxRequests \in Nat /\ MaxFaults \in Nat

VARIABLES
  file,       \* allocations.json: an address or None for each VM, or Torn
  pc,         \* of each process: "idle", "load", "trunc", "write", "tap"
  req,        \* its request [op, vm], or the last one
  allocs,     \* its HashMap
  ans,        \* the address it will answer
  mixed,      \* processes in fs::write whose truncated file another one has written
  st,         \* each VM: "new", "creating", "live" or "deleted"
  ip,         \* the address in its record
  result,     \* the address in the last CNI result for it, on the standard output
  requests, faults,
  behind,     \* ghost: processes that hold a map loaded before another one saved
  spoiled     \* ghost: a saved allocation was lost, or may have been

procVars == <<pc, req, allocs, ans, mixed>>
apiVars == <<st, ip, result, requests>>
vars == <<file, procVars, apiVars, faults, behind, spoiled>>

Nobody == [v \in Vms |-> None]

Init ==
  /\ file = Nobody
  /\ pc = [p \in Procs |-> "idle"]
  /\ \E v \in Vms : req = [p \in Procs |-> [op |-> "ADD", vm |-> v]]
  /\ allocs = [p \in Procs |-> Nobody]
  /\ ans = [p \in Procs |-> None]
  /\ mixed = {}
  /\ st = [v \in Vms |-> "new"] /\ ip = Nobody /\ result = Nobody
  /\ requests = 0 /\ faults = 0 /\ behind = {} /\ spoiled = FALSE

Fault == faults < MaxFaults /\ faults' = faults + 1

-----------------------------------------------------------------------------
(***************************************************************************)
(* Requests                                                                *)
(***************************************************************************)

Busy(v) == \E p \in Procs : pc[p] # "idle" /\ req[p].vm = v

Run(p, op, v) ==
  /\ pc[p] = "idle" /\ requests < MaxRequests
  /\ requests' = requests + 1
  /\ pc' = [pc EXCEPT ![p] = "load"]
  /\ req' = [req EXCEPT ![p] = [op |-> op, vm |-> v]]
  /\ UNCHANGED <<file, allocs, ans, mixed, ip, result, faults, behind, spoiled>>

\* spawn_vm
Create(p, v) ==
  /\ st[v] = "new"
  /\ st' = [st EXCEPT ![v] = "creating"]
  /\ Run(p, "ADD", v)

\* restart_vm, which finds no TAP; nothing keeps two of them apart.
Start(p, v) ==
  /\ st[v] = "live"
  /\ Run(p, "ADD", v)
  /\ UNCHANGED st

\* delete_vm removes the record and leaves the network alone.  Clients are taken not
\* to delete a VM while they start it.
Delete(v) ==
  /\ st[v] = "live" /\ ~Busy(v)
  /\ st' = [st EXCEPT ![v] = "deleted"]
  /\ ip' = [ip EXCEPT ![v] = None] /\ result' = [result EXCEPT ![v] = None]
  /\ UNCHANGED <<file, procVars, requests, faults, behind, spoiled>>

\* DEL for a VM that is no more.  cni_del has no caller in the API: whoever runs
\* caiman-cni as a CNI plugin sends it.
Del(p, v) ==
  /\ st[v] = "deleted" /\ ~Busy(v)
  /\ Run(p, "DEL", v)
  /\ UNCHANGED st

-----------------------------------------------------------------------------
(***************************************************************************)
(* caiman-cni                                                              *)
(***************************************************************************)

\* load_allocations: a file that does not parse is an empty map.
Loaded == IF file = Torn THEN Nobody ELSE file

Used(a) == {a[v] : v \in Vms} \ {None}

\* Mutants of NextFree: the range is one too long; it counts the allocations.
NextFreeBeyond(a) ==
  LET free == (IpStart .. IpEnd + 1) \ Used(a) IN
  IF free = {} THEN None ELSE CHOOSE i \in free : \A j \in free : i <= j
NextFreeByCount(a) ==
  LET i == IpStart + Cardinality(Used(a)) IN IF i \in Addrs THEN i ELSE None

\* The lowest address that is not used, or None: "IPAM pool exhausted"
NextFree(a) ==
  LET free == Addrs \ Used(a) IN
  IF free = {} THEN None ELSE CHOOSE i \in free : \A j \in free : i <= j

\* It has loaded the map, and has yet to save it.
Saving(p) == pc[p] \in {"trunc", "write"}

\* Mutant of AddLoads: an existing allocation is not looked for.
AddLoadsAfresh(p) ==
  /\ pc[p] = "load" /\ req[p].op = "ADD"
  /\ LET v == req[p].vm
         a == NextFree(Loaded) IN
       /\ ans' = [ans EXCEPT ![p] = a]
       /\ allocs' = [allocs EXCEPT ![p] = IF a = None THEN Loaded ELSE [Loaded EXCEPT ![v] = a]]
       /\ pc' = [pc EXCEPT ![p] = IF a = None THEN "tap" ELSE "trunc"]
  /\ spoiled' = (spoiled \/ file = Torn)
  /\ UNCHANGED <<file, req, mixed, apiVars, faults, behind>>

\* allocate, up to its save
AddLoads(p) ==
  /\ pc[p] = "load" /\ req[p].op = "ADD"
  /\ LET v == req[p].vm
         known == Loaded[v]
         a == IF known # None THEN known ELSE NextFree(Loaded) IN
       /\ ans' = [ans EXCEPT ![p] = a]
       /\ allocs' = [allocs EXCEPT ![p] = IF a = None THEN Loaded ELSE [Loaded EXCEPT ![v] = a]]
       /\ pc' = [pc EXCEPT ![p] = IF known # None \/ a = None THEN "tap" ELSE "trunc"]
  /\ spoiled' = (spoiled \/ file = Torn)
  /\ UNCHANGED <<file, req, mixed, apiVars, faults, behind>>

\* release, up to its save
DelLoads(p) ==
  /\ pc[p] = "load" /\ req[p].op = "DEL"
  /\ allocs' = [allocs EXCEPT ![p] = [Loaded EXCEPT ![req[p].vm] = None]]
  /\ pc' = [pc EXCEPT ![p] = "trunc"]
  /\ spoiled' = (spoiled \/ file = Torn)
  /\ UNCHANGED <<file, req, ans, mixed, apiVars, faults, behind>>

\* save_allocations: fs::write truncates,
Truncate(p) ==
  /\ pc[p] = "trunc"
  /\ file' = Torn
  /\ pc' = [pc EXCEPT ![p] = "write"]
  /\ spoiled' = (spoiled \/ p \in behind)
  /\ UNCHANGED <<req, allocs, ans, mixed, apiVars, faults, behind>>

Ends(p) == pc' = [pc EXCEPT ![p] = IF req[p].op = "ADD" THEN "tap" ELSE "idle"]

\* and writes from offset 0.  Over what another process has written since, the shorter
\* text leaves the tail of the longer one.
Write(p) ==
  /\ pc[p] = "write"
  /\ \/ file' = allocs[p]
     \/ p \in mixed /\ file' = Torn
  /\ Ends(p)
  /\ mixed' = {q \in Procs \ {p} : pc[q] = "write"}
  /\ behind' = {q \in Procs \ {p} : Saving(q)}
  /\ spoiled' = (spoiled \/ p \in behind)
  /\ UNCHANGED <<req, allocs, ans, apiVars, faults>>

\* open or write fails: the error is dropped and the process goes on.
SaveFails(p) ==
  /\ Saving(p)
  /\ Fault
  /\ Ends(p)
  /\ mixed' = mixed \ {p} /\ behind' = behind \ {p}
  /\ spoiled' = TRUE
  /\ UNCHANGED <<file, req, allocs, ans, apiVars>>

\* The answer as the API takes it: CAIMAN_IP_CONFIG, or None when it is missing.  A
\* record that has an address keeps it when restart_vm gets none.
Answer(p, a) ==
  LET v == req[p].vm IN
  /\ st' = [st EXCEPT ![v] = "live"]
  /\ ip' = [ip EXCEPT ![v] = IF a # None \/ st[v] = "creating" THEN a ELSE @]

\* The CNI result beside it: main loads the file once more, and where it has no entry
\* for the VM says 10.100.0.2.
Report(p) ==
  LET v == req[p].vm IN
  result' = [result EXCEPT ![v] = IF Loaded[v] # None THEN Loaded[v] ELSE IpStart]

\* create_tap, and the answer
Tap(p) ==
  /\ pc[p] = "tap"
  /\ pc' = [pc EXCEPT ![p] = "idle"]
  /\ Answer(p, ans[p]) /\ Report(p)
  /\ UNCHANGED <<file, req, allocs, ans, mixed, requests, faults, behind, spoiled>>

\* A command of bridge.rs, create_tap or delete_tap fails: ADD answers without
\* CAIMAN_IP_CONFIG, DEL ends with the error.
CommandFails(p) ==
  /\ pc[p] \in {"load", "tap"}
  /\ Fault
  /\ pc' = [pc EXCEPT ![p] = "idle"]
  /\ \/ req[p].op = "ADD" /\ Answer(p, None) /\ Report(p)
     \/ req[p].op = "DEL" /\ UNCHANGED <<st, ip, result>>
  /\ UNCHANGED <<file, req, allocs, ans, mixed, requests, behind, spoiled>>

\* caiman-cni is not there, or is killed.  In the middle of its save that leaves a torn
\* file.
Killed(p) ==
  /\ pc[p] # "idle"
  /\ Fault
  /\ pc' = [pc EXCEPT ![p] = "idle"]
  /\ \/ req[p].op = "ADD" /\ Answer(p, None)
     \/ req[p].op = "DEL" /\ UNCHANGED <<st, ip>>
  /\ mixed' = mixed \ {p} /\ behind' = behind \ {p}
  /\ spoiled' = (spoiled \/ pc[p] = "write")
  /\ UNCHANGED <<file, req, allocs, ans, result, requests>>

-----------------------------------------------------------------------------
Cni(p) ==
  \/ AddLoads(p) \/ DelLoads(p) \/ Truncate(p) \/ Write(p) \/ SaveFails(p)
  \/ Tap(p) \/ CommandFails(p) \/ Killed(p)

Next ==
  \/ \E p \in Procs, v \in Vms : Create(p, v) \/ Start(p, v) \/ Del(p, v)
  \/ \E v \in Vms : Delete(v)
  \/ \E p \in Procs : Cni(p)

Spec == Init /\ [][Next]_vars

-----------------------------------------------------------------------------
(***************************************************************************)
(* Properties                                                              *)
(***************************************************************************)

\* The variables have their types; what caiman-cni answers is an address of the pool.
TypeOK ==
  /\ file \in [Vms -> Addrs \cup {None}] \cup {Torn}
  /\ pc \in [Procs -> {"idle", "load", "trunc", "write", "tap"}]
  /\ req \in [Procs -> [op: {"ADD", "DEL"}, vm: Vms]]
  /\ allocs \in [Procs -> [Vms -> Addrs \cup {None}]]
  /\ ans \in [Procs -> Addrs \cup {None}]
  /\ mixed \subseteq Procs
  /\ st \in [Vms -> {"new", "creating", "live", "deleted"}]
  /\ ip \in [Vms -> Addrs \cup {None}] /\ result \in [Vms -> Addrs \cup {None}]
  /\ requests \in 0 .. MaxRequests /\ faults \in 0 .. MaxFaults
  /\ behind \subseteq Procs /\ spoiled \in BOOLEAN

Distinct(b) == \A v, w \in Vms : b[v] # None /\ b[v] = b[w] => v = w

\* However processes overlap, fail and are killed, the allocation file never gives one
\* address to two VMs, and neither does a map that is going to be saved: a race loses
\* allocations, it does not write a map that contradicts itself.
AllocatedOnce ==
  /\ file # Torn => Distinct(file)
  /\ \A p \in Procs : Saving(p) => Distinct(allocs[p])

\* No two VM records have the same address, in whatever order VMs are created, started,
\* deleted and released and processes overlap, fail or are killed, until an allocation
\* is lost: a process saves a map it loaded before another one saved, loads a file that
\* is being written, or a save fails or is cut short.
UniqueAddress == ~spoiled => Distinct(ip)

\* Until then a VM keeps its address until it is deleted: starting it again finds the
\* allocation of its creation.
StableAddress ==
  [][\A v \in Vms :
       ip[v] # None /\ st'[v] = "live" /\ ~spoiled' => ip'[v] = ip[v]]_vars

=============================================================================

----------------------------- MODULE CniProofs -----------------------------
(***************************************************************************)
(* The allocation file never contradicts itself, and addresses are unique  *)
(* and stable until an allocation is lost, for any number of VMs and       *)
(* processes and any pool.                                                 *)
(***************************************************************************)
EXTENDS Cni, FiniteSetTheorems, TLAPS

\* Which requests may be at work on which VMs.
Roles ==
  /\ \A p \in Procs :
       pc[p] # "idle" =>
         /\ req[p].op = "ADD" => st[req[p].vm] \in {"creating", "live"}
         /\ req[p].op = "DEL" => st[req[p].vm] = "deleted" /\ pc[p] # "tap"
  /\ \A v \in Vms : ip[v] # None => st[v] = "live"

\* b has an address at most once, and agrees with the records and the answers under way.
BookOK(b) ==
  /\ Distinct(b)
  /\ \A v \in Vms : ip[v] # None => b[v] = ip[v]
  /\ \A p \in Procs : pc[p] = "tap" /\ ans[p] # None => b[req[p].vm] = ans[p]

\* What a process that is not behind is going to save is right, and differs from the file
\* in the entry of its own VM only.
SaveOK(p) ==
  /\ BookOK(allocs[p])
  /\ req[p].op = "ADD" => allocs[p][req[p].vm] = ans[p]
  /\ file # Torn => \A v \in Vms \ {req[p].vm} : allocs[p][v] = file[v]
  /\ file # Torn /\ req[p].op = "ADD" => file[req[p].vm] = None

\* The file is right, or somebody who is not behind is writing it; so are all maps that
\* are going to be saved but those of processes that are behind.
Books ==
  /\ file = Torn => \E p \in Procs : pc[p] = "write" /\ p \notin behind
  /\ mixed \subseteq behind
  /\ file # Torn => BookOK(file)
  /\ \A p \in Procs : Saving(p) /\ p \notin behind => SaveOK(p)
  /\ \A p \in behind : Saving(p)

\* The inductive invariant.  Once an allocation is lost, all that is known of the file is
\* that it does not contradict itself.
IInv == TypeOK /\ Roles /\ AllocatedOnce /\ (~spoiled => Books)

-----------------------------------------------------------------------------
\* A set of natural numbers that is not empty has a least element: among the intervals
\* 0 .. n of its elements n there is one that none of the others is part of.
LEMMA LeastNatural ==
  ASSUME NEW S \in SUBSET Nat, S # {}
  PROVE  \E i \in S : \A j \in S : i <= j
<1> DEFINE Upto == {0 .. n : n \in S}
<1>1. Upto \subseteq FiniteSubsetsOf(Nat)
  <2>1. SUFFICES ASSUME NEW n \in S
                 PROVE  (0 .. n) \subseteq Nat /\ IsFiniteSet(0 .. n)
    BY DEF FiniteSubsetsOf
  <2> QED BY FS_Interval
<1>2. Upto # {}
  OBVIOUS
<1>3. PICK T \in Upto : \A U \in Upto : <<U, T>> \notin StrictSubsetOrdering(Nat)
  <2> HIDE DEF Upto
  <2> QED BY <1>1, <1>2, FS_StrictSubsetOrderingWellFounded, WFMin
<1>4. PICK i \in S : T = 0 .. i
  OBVIOUS
<1>5. ASSUME NEW j \in S
      PROVE  i <= j
  <2>1. i \in Nat /\ j \in Nat
    OBVIOUS
  <2>2. ~(j < i)
    <3>1. SUFFICES ASSUME j < i
                   PROVE  FALSE
      OBVIOUS
    <3>2. (0 .. j) \subseteq (0 .. i) /\ (0 .. j) # (0 .. i)
      <4>1. i \in 0 .. i /\ i \notin 0 .. j
        BY <2>1, <3>1
      <4> QED BY <2>1, <3>1, <4>1
    <3>3. <<0 .. j, 0 .. i>> \in StrictSubsetOrdering(Nat)
      <4>1. (0 .. j) \in SUBSET Nat /\ (0 .. i) \in SUBSET Nat
        BY <2>1
      <4> QED BY <3>2, <4>1 DEF StrictSubsetOrdering
    <3> QED BY <1>3, <1>4, <3>3
  <2> QED BY <2>1, <2>2
<1> QED BY <1>5

\* What allocate finds is a free address of the pool, or nothing.
LEMMA NextFreeIsFree ==
  ASSUME NEW a \in [Vms -> Addrs \cup {None}]
  PROVE  /\ NextFree(a) \in Addrs \cup {None}
         /\ NextFree(a) # None => \A v \in Vms : a[v] # NextFree(a)
<1> DEFINE free == Addrs \ Used(a)
<1>1. CASE free = {}
  BY <1>1 DEF NextFree
<1>2. CASE free # {}
  <2>1. free \in SUBSET Nat
    BY CniAssumption DEF Addrs
  <2>2. \E i \in free : \A j \in free : i <= j
    <3> HIDE DEF free
    <3> QED BY <1>2, <2>1, LeastNatural
  <2>3. NextFree(a) \in free
    BY <1>2, <2>2 DEF NextFree
  <2> QED BY <2>3 DEF Used
<1> QED BY <1>1, <1>2

LEMMA LoadedType ==
  ASSUME TypeOK
  PROVE  Loaded \in [Vms -> Addrs \cup {None}]
BY DEF TypeOK, Loaded, Nobody

-----------------------------------------------------------------------------
(***************************************************************************)
(* Types                                                                   *)
(***************************************************************************)

LEMMA InitType ==
  ASSUME Init
  PROVE  TypeOK
<1>1. Nobody \in [Vms -> Addrs \cup {None}]
  BY DEF Nobody
<1>2. /\ pc \in [Procs -> {"idle", "load", "trunc", "write", "tap"}]
      /\ st \in [Vms -> {"new", "creating", "live", "deleted"}]
      /\ requests \in 0 .. MaxRequests /\ faults \in 0 .. MaxFaults
  BY CniAssumption DEF Init
<1>3. spoiled \in BOOLEAN
  BY DEF Init
<1> QED BY <1>1, <1>2, <1>3 DEF Init, TypeOK

LEMMA FaultType ==
  ASSUME TypeOK, Fault
  PROVE  faults' \in 0 .. MaxFaults
BY CniAssumption DEF TypeOK, Fault

LEMMA RunType ==
  ASSUME TypeOK, NEW p \in Procs, NEW v \in Vms, NEW op \in {"ADD", "DEL"}, Run(p, op, v),
         st' \in [Vms -> {"new", "creating", "live", "deleted"}]
  PROVE  TypeOK'
<1>1. requests' \in 0 .. MaxRequests
  BY CniAssumption DEF TypeOK, Run
<1>2. req' \in [Procs -> [op: {"ADD", "DEL"}, vm: Vms]]
  BY DEF TypeOK, Run
<1> QED BY <1>1, <1>2 DEF TypeOK, Run

LEMMA AnswerType ==
  ASSUME TypeOK, NEW p \in Procs, NEW a \in Addrs \cup {None}, Answer(p, a)
  PROVE  /\ st' \in [Vms -> {"new", "creating", "live", "deleted"}]
         /\ ip' \in [Vms -> Addrs \cup {None}]
BY DEF TypeOK, Answer

LEMMA ReportType ==
  ASSUME TypeOK, NEW p \in Procs, Report(p)
  PROVE  result' \in [Vms -> Addrs \cup {None}]
<1>1. IpStart \in Addrs
  BY CniAssumption DEF Addrs
<1> QED BY <1>1, LoadedType DEF TypeOK, Report

LEMMA TypeStep ==
  ASSUME TypeOK, [Next]_vars
  PROVE  TypeOK'
<1>1. ASSUME NEW p \in Procs, NEW v \in Vms, Create(p, v)
      PROVE  TypeOK'
  BY <1>1, RunType DEF Create, TypeOK
<1>2. ASSUME NEW p \in Procs, NEW v \in Vms, Start(p, v)
      PROVE  TypeOK'
  BY <1>2, RunType DEF Start, TypeOK
<1>3. ASSUME NEW p \in Procs, NEW v \in Vms, Del(p, v)
      PROVE  TypeOK'
  BY <1>3, RunType DEF Del, TypeOK
<1>4. ASSUME NEW v \in Vms, Delete(v)
      PROVE  TypeOK'
  BY <1>4 DEF Delete, TypeOK, procVars
<1>5. ASSUME NEW p \in Procs, AddLoads(p)
      PROVE  TypeOK'
  <2> DEFINE v == req[p].vm
             known == Loaded[v]
             a == IF known # None THEN known ELSE NextFree(Loaded)
  <2>1. v \in Vms
    BY DEF TypeOK
  <2>2. a \in Addrs \cup {None}
    BY <2>1, LoadedType, NextFreeIsFree
  <2>3. (IF a = None THEN Loaded ELSE [Loaded EXCEPT ![v] = a]) \in [Vms -> Addrs \cup {None}]
    BY <2>1, <2>2, LoadedType
  <2>4. allocs' \in [Procs -> [Vms -> Addrs \cup {None}]]
    BY <1>5, <2>3 DEF AddLoads, TypeOK
  <2> QED BY <1>5, <2>4 DEF AddLoads, TypeOK, apiVars
<1>6. ASSUME NEW p \in Procs, DelLoads(p)
      PROVE  TypeOK'
  <2>1. allocs' \in [Procs -> [Vms -> Addrs \cup {None}]]
    BY <1>6, LoadedType DEF DelLoads, TypeOK
  <2> QED BY <1>6, <2>1 DEF DelLoads, TypeOK, apiVars
<1>7. ASSUME NEW p \in Procs, Truncate(p)
      PROVE  TypeOK'
  <2> QED BY <1>7 DEF Truncate, TypeOK, apiVars
<1>8. ASSUME NEW p \in Procs, Write(p)
      PROVE  TypeOK'
  <2>1. pc' \in [Procs -> {"idle", "load", "trunc", "write", "tap"}]
    BY <1>8 DEF Write, Ends, TypeOK
  <2> QED BY <1>8, <2>1 DEF Write, TypeOK, apiVars
<1>9. ASSUME NEW p \in Procs, SaveFails(p)
      PROVE  TypeOK'
  BY <1>9, FaultType DEF SaveFails, Ends, TypeOK, apiVars
<1>10. ASSUME NEW p \in Procs, Tap(p)
       PROVE  TypeOK'
  <2> QED BY <1>10, AnswerType, ReportType DEF Tap, TypeOK
<1>11. ASSUME NEW p \in Procs, Killed(p)
       PROVE  TypeOK'
  <2>1. /\ st' \in [Vms -> {"new", "creating", "live", "deleted"}]
        /\ ip' \in [Vms -> Addrs \cup {None}]
    BY <1>11, AnswerType DEF Killed, TypeOK
  <2> QED BY <1>11, <2>1, FaultType DEF Killed, TypeOK
<1>12. ASSUME NEW p \in Procs, CommandFails(p)
       PROVE  TypeOK'
  <2>1. /\ st' \in [Vms -> {"new", "creating", "live", "deleted"}]
        /\ ip' \in [Vms -> Addrs \cup {None}] /\ result' \in [Vms -> Addrs \cup {None}]
    BY <1>12, AnswerType, ReportType DEF CommandFails, TypeOK
  <2> QED BY <1>12, <2>1, FaultType DEF CommandFails, TypeOK
<1>13. CASE UNCHANGED vars
  BY <1>13 DEF vars, procVars, apiVars, TypeOK
<1> QED BY <1>1, <1>2, <1>3, <1>4, <1>5, <1>6, <1>7, <1>8, <1>9, <1>10, <1>11, <1>12, <1>13
        DEF Next, Cni

\* The variables of the allocation file, of caiman-cni and of the API have their
\* types, and no answer is an address outside the pool.
THEOREM TypeCorrect == Spec => []TypeOK
<1>1. Init => TypeOK
  BY InitType
<1>2. TypeOK /\ [Next]_vars => TypeOK'
  BY TypeStep
<1> QED BY <1>1, <1>2, PTL DEF Spec

-----------------------------------------------------------------------------
(***************************************************************************)
(* Roles                                                                   *)
(***************************************************************************)

LEMMA RolesRun ==
  ASSUME TypeOK, Roles, NEW p \in Procs, NEW v \in Vms,
         Create(p, v) \/ Start(p, v) \/ Del(p, v)
  PROVE  Roles'
<1>1. CASE Create(p, v)
  BY <1>1 DEF Create, Run, TypeOK, Roles
<1>2. CASE Start(p, v)
  BY <1>2 DEF Start, Run, TypeOK, Roles
<1>3. CASE Del(p, v)
  BY <1>3 DEF Del, Run, TypeOK, Roles
<1> QED BY <1>1, <1>2, <1>3

LEMMA RolesAnswer ==
  ASSUME TypeOK, Roles, NEW p \in Procs, NEW a, Answer(p, a),
         pc[p] # "idle", req[p].op = "ADD", pc' = [pc EXCEPT ![p] = "idle"],
         UNCHANGED req
  PROVE  Roles'
<1> DEFINE v == req[p].vm
<1>1. v \in Vms /\ st[v] \in {"creating", "live"}
  BY DEF TypeOK, Roles
<1>2. st' = [st EXCEPT ![v] = "live"] /\ \A w \in Vms \ {v} : ip'[w] = ip[w]
  BY <1>1 DEF Answer, TypeOK
<1> QED BY <1>1, <1>2 DEF TypeOK, Roles

LEMMA RolesStep ==
  ASSUME TypeOK, Roles, [Next]_vars
  PROVE  Roles'
<1>1. ASSUME NEW v \in Vms, Delete(v)
      PROVE  Roles'
  BY <1>1 DEF Delete, Busy, TypeOK, Roles, procVars
<1>2. ASSUME NEW p \in Procs, AddLoads(p)
      PROVE  Roles'
  <2>1. /\ req[p].op = "ADD"
        /\ \A q \in Procs \ {p} : pc'[q] = pc[q]
        /\ pc[p] = "load"
        /\ UNCHANGED <<req, st, ip>>
    BY <1>2 DEF AddLoads, TypeOK, apiVars
  <2> QED BY <2>1 DEF TypeOK, Roles
<1>3. ASSUME NEW p \in Procs, DelLoads(p)
      PROVE  Roles'
  BY <1>3 DEF DelLoads, Roles, apiVars
<1>4. ASSUME NEW p \in Procs, Truncate(p)
      PROVE  Roles'
  BY <1>4 DEF Truncate, Roles, apiVars
<1>5. ASSUME NEW p \in Procs, Write(p)
      PROVE  Roles'
  BY <1>5 DEF Write, Ends, Roles, apiVars
<1>6. ASSUME NEW p \in Procs, SaveFails(p)
      PROVE  Roles'
  <2>1. /\ \A q \in Procs \ {p} : pc'[q] = pc[q]
        /\ pc'[p] = IF req[p].op = "ADD" THEN "tap" ELSE "idle"
        /\ UNCHANGED <<req, st, ip>> /\ pc[p] \in {"trunc", "write"}
    BY <1>6 DEF SaveFails, Saving, Ends, TypeOK, apiVars
  <2> QED BY <2>1 DEF TypeOK, Roles
<1>7. ASSUME NEW p \in Procs, Tap(p)
      PROVE  Roles'
  <2>1. req[p].op = "ADD"
    BY <1>7 DEF Tap, TypeOK, Roles
  <2> QED BY <1>7, <2>1, RolesAnswer DEF Tap
<1>8. ASSUME NEW p \in Procs, CommandFails(p) \/ Killed(p)
      PROVE  Roles'
  <2>1. CASE req[p].op = "ADD"
    BY <1>8, <2>1, RolesAnswer DEF CommandFails, Killed
  <2>2. CASE req[p].op # "ADD"
    BY <1>8, <2>2 DEF CommandFails, Killed, TypeOK, Roles
  <2> QED BY <2>1, <2>2
<1>9. CASE UNCHANGED vars
  BY <1>9 DEF vars, procVars, apiVars, Roles
<1> QED BY RolesRun, <1>1, <1>2, <1>3, <1>4, <1>5, <1>6, <1>7, <1>8, <1>9 DEF Next, Cni

-----------------------------------------------------------------------------
(***************************************************************************)
(* Maps without a double allocation                                        *)
(***************************************************************************)

\* An address that nobody has may be given to one, and one may lose its own.
LEMMA DistinctExcept ==
  ASSUME NEW b \in [Vms -> Addrs \cup {None}], Distinct(b), NEW v \in Vms, NEW a,
         a # None => \A w \in Vms : b[w] # a
  PROVE  Distinct([b EXCEPT ![v] = a])
<1>1. \A w \in Vms : [b EXCEPT ![v] = a][w] = IF w = v THEN a ELSE b[w]
  OBVIOUS
<1> QED BY <1>1 DEF Distinct

\* What is loaded has no double allocation: a torn file counts as empty.
LEMMA LoadedDistinct ==
  ASSUME AllocatedOnce
  PROVE  Distinct(Loaded)
BY DEF AllocatedOnce, Loaded, Distinct, Nobody

LEMMA OnceStep ==
  ASSUME TypeOK, AllocatedOnce, [Next]_vars
  PROVE  AllocatedOnce'
<1>1. ASSUME NEW p \in Procs, AddLoads(p)
      PROVE  AllocatedOnce'
  <2> DEFINE v == req[p].vm
             known == Loaded[v]
             a == IF known # None THEN known ELSE NextFree(Loaded)
  <2>1. v \in Vms
    BY DEF TypeOK
  <2>2. \A q \in Procs \ {p} : pc'[q] = pc[q] /\ allocs'[q] = allocs[q]
    BY <1>1 DEF AddLoads, TypeOK
  <2>3. pc'[p] = "trunc" => known = None /\ a # None /\ allocs'[p] = [Loaded EXCEPT ![v] = a]
    BY <1>1 DEF AddLoads, TypeOK
  <2>4. pc'[p] \in {"tap", "trunc"} /\ file' = file
    BY <1>1 DEF AddLoads, TypeOK
  <2>5. known = None => (a # None => \A w \in Vms : Loaded[w] # a)
    BY LoadedType, NextFreeIsFree
  <2>6. pc'[p] = "trunc" => Distinct(allocs'[p])
    <3>1. PICK b, i, u : b = Loaded /\ i = a /\ u = v
      OBVIOUS
    <3>2. ASSUME pc'[p] = "trunc"
          PROVE  /\ b \in [Vms -> Addrs \cup {None}] /\ Distinct(b) /\ u \in Vms
                 /\ \A w \in Vms : b[w] # i
                 /\ allocs'[p] = [b EXCEPT ![u] = i]
      BY <2>1, <2>3, <2>5, <3>1, <3>2, LoadedType, LoadedDistinct
    <3>3. ASSUME pc'[p] = "trunc"
          PROVE  Distinct([b EXCEPT ![u] = i])
      BY <3>2, <3>3, DistinctExcept
    <3> QED BY <3>2, <3>3
  <2> QED BY <2>2, <2>4, <2>6 DEF AllocatedOnce, Saving
<1>2. ASSUME NEW p \in Procs, DelLoads(p)
      PROVE  AllocatedOnce'
  <2>1. req[p].vm \in Vms
    BY DEF TypeOK
  <2>2. Distinct([Loaded EXCEPT ![req[p].vm] = None])
    BY <2>1, LoadedType, LoadedDistinct, DistinctExcept
  <2>3. /\ \A q \in Procs \ {p} : pc'[q] = pc[q] /\ allocs'[q] = allocs[q]
        /\ allocs'[p] = [Loaded EXCEPT ![req[p].vm] = None] /\ file' = file
    BY <1>2 DEF DelLoads, TypeOK
  <2> QED BY <2>2, <2>3 DEF AllocatedOnce, Saving
<1>3. ASSUME NEW p \in Procs, Truncate(p)
      PROVE  AllocatedOnce'
  <2>1. /\ \A q \in Procs : Saving(q)' => Saving(q)
        /\ file' = Torn /\ allocs' = allocs
    BY <1>3 DEF Truncate, TypeOK, Saving
  <2> QED BY <2>1 DEF AllocatedOnce
<1>4. ASSUME NEW p \in Procs, Write(p)
      PROVE  AllocatedOnce'
  <2>1. /\ \A q \in Procs : Saving(q)' => Saving(q)
        /\ allocs' = allocs /\ file' \in {allocs[p], Torn}
    BY <1>4 DEF Write, Ends, Saving
  <2>2. Distinct(allocs[p])
    BY <1>4 DEF AllocatedOnce, Write, Saving
  <2> QED BY <2>1, <2>2 DEF AllocatedOnce
<1>5. ASSUME NEW p \in Procs, SaveFails(p) \/ Tap(p) \/ CommandFails(p) \/ Killed(p)
      PROVE  AllocatedOnce'
  <2>1. (\A q \in Procs : Saving(q)' => Saving(q)) /\ UNCHANGED <<file, allocs>>
    BY <1>5 DEF SaveFails, Tap, CommandFails, Killed, Ends, TypeOK, Saving
  <2> QED BY <2>1 DEF AllocatedOnce
<1>6. ASSUME NEW p \in Procs, NEW v \in Vms, NEW op, Run(p, op, v)
      PROVE  AllocatedOnce'
  <2>1. (\A q \in Procs : Saving(q)' => Saving(q)) /\ UNCHANGED <<file, allocs>>
    BY <1>6 DEF Run, TypeOK, Saving
  <2> QED BY <2>1 DEF AllocatedOnce
<1>7. CASE UNCHANGED <<file, procVars>>
  BY <1>7 DEF procVars, AllocatedOnce, Saving
<1> QED BY <1>1, <1>2, <1>3, <1>4, <1>5, <1>6, <1>7
        DEF Next, Cni, Create, Start, Del, Delete, vars

-----------------------------------------------------------------------------
(***************************************************************************)
(* Books                                                                   *)
(***************************************************************************)

\* There is always a right book: the file, or what a process that truncated it and is
\* not behind is going to write.
LEMMA SomeBook ==
  ASSUME TypeOK, Books
  PROVE  \E b \in [Vms -> Addrs \cup {None}] : BookOK(b)
<1>1. CASE file # Torn
  BY <1>1 DEF Books, TypeOK
<1>2. CASE file = Torn
  <2>1. PICK p \in Procs : pc[p] = "write" /\ p \notin behind
    BY <1>2 DEF Books
  <2> QED BY DEF Books, SaveOK, Saving, TypeOK
<1> QED BY <1>1, <1>2

LEMMA BooksRun ==
  ASSUME TypeOK, Books, NEW p \in Procs, NEW v \in Vms, NEW op, Run(p, op, v)
  PROVE  Books'
<1>1. \A q \in Procs : /\ Saving(q)' <=> Saving(q)
                       /\ Saving(q) => req'[q] = req[q]
                       /\ pc'[q] = "tap" => pc[q] = "tap" /\ req'[q] = req[q]
                       /\ pc'[q] = "write" <=> pc[q] = "write"
  BY DEF Run, TypeOK, Saving
<1>2. UNCHANGED <<file, allocs, ans, mixed, ip, behind>>
  BY DEF Run
<1>3. ASSUME NEW b, BookOK(b), b' = b
      PROVE  BookOK(b)'
  BY <1>1, <1>2, <1>3 DEF BookOK
<1>4. ASSUME NEW q \in Procs, Saving(q), SaveOK(q)
      PROVE  SaveOK(q)'
  BY <1>1, <1>2, <1>4 DEF SaveOK, BookOK
<1>5. file # Torn => BookOK(file)'
  BY <1>1, <1>2 DEF Books, BookOK
<1>6. (file = Torn => \E q \in Procs : pc[q] = "write" /\ q \notin behind)'
  BY <1>1, <1>2 DEF Books
<1>7. (mixed \subseteq behind)' /\ (\A q \in behind : Saving(q))'
  BY <1>1, <1>2 DEF Books, TypeOK
<1>8. (\A q \in Procs : Saving(q) /\ q \notin behind => SaveOK(q))'
  BY <1>1, <1>2, <1>4 DEF Books
<1>9. (file # Torn => BookOK(file))'
  BY <1>2, <1>5
<1> QED BY <1>6, <1>7, <1>8, <1>9 DEF Books

LEMMA BooksDelete ==
  ASSUME TypeOK, Books, NEW v \in Vms, Delete(v)
  PROVE  Books'
<1>1. UNCHANGED <<file, pc, req, allocs, ans, mixed, behind>>
  BY DEF Delete, procVars
<1>2. \A w \in Vms : ip'[w] # None => ip'[w] = ip[w]
  BY DEF Delete, TypeOK
<1>3. ASSUME NEW b, b' = b, BookOK(b)
      PROVE  BookOK(b)'
  BY <1>1, <1>2, <1>3 DEF BookOK
<1>4. file # Torn => BookOK(file)'
  BY <1>1, <1>3 DEF Books
<1>5. ASSUME NEW q \in Procs, SaveOK(q)
      PROVE  SaveOK(q)'
  BY <1>1, <1>3, <1>5 DEF SaveOK
<1> QED BY <1>1, <1>4, <1>5 DEF Books, Saving

\* A book that is right stays so beside an answer under way that is in it.
LEMMA BookTap ==
  ASSUME TypeOK, NEW b, b' = b, BookOK(b), NEW p \in Procs,
         \A q \in Procs \ {p} : pc'[q] = pc[q] /\ ans'[q] = ans[q],
         UNCHANGED <<req, ip>>,
         pc'[p] = "tap" /\ ans'[p] # None => b[req[p].vm] = ans'[p]
  PROVE  BookOK(b)'
BY DEF BookOK, Distinct

LEMMA BooksAdd ==
  ASSUME TypeOK, Roles, Books, NEW p \in Procs, AddLoads(p), ~spoiled'
  PROVE  Books'
<1> DEFINE v == req[p].vm
           known == file[v]
           a == IF known # None THEN known ELSE NextFree(file)
<1>1. v \in Vms /\ st[v] \in {"creating", "live"} /\ ~Saving(p) /\ req[p].op = "ADD"
  BY DEF AddLoads, TypeOK, Roles, Saving
<1>2. file # Torn /\ Loaded = file /\ BookOK(file)
  BY DEF AddLoads, Books, Loaded
<1>3. file \in [Vms -> Addrs \cup {None}]
  BY <1>2 DEF TypeOK
<1>4. /\ ans' = [ans EXCEPT ![p] = a]
      /\ allocs' = [allocs EXCEPT ![p] = IF a = None THEN file ELSE [file EXCEPT ![v] = a]]
      /\ pc' = [pc EXCEPT ![p] = IF known # None \/ a = None THEN "tap" ELSE "trunc"]
      /\ UNCHANGED <<file, req, mixed, st, ip, behind>>
  BY <1>2 DEF AddLoads, apiVars
<1>5. \A q \in Procs \ {p} : pc'[q] = pc[q] /\ ans'[q] = ans[q] /\ allocs'[q] = allocs[q]
  BY <1>4 DEF TypeOK
<1>6. ans'[p] = a /\ p \notin behind
  BY <1>1, <1>4 DEF TypeOK, Books
<1>7. pc'[p] = "tap" /\ ans'[p] # None => known # None /\ ans'[p] = file[v]
  BY <1>4, <1>6 DEF TypeOK
<1>8. BookOK(file)'
  BY <1>2, <1>4, <1>7, BookTap
<1>9. ASSUME NEW q \in Procs \ {p}, Saving(q), q \notin behind
      PROVE  SaveOK(q)'
  <2>1. SaveOK(q) /\ req[q].vm \in Vms
    BY <1>9 DEF Books, TypeOK
  <2>2. pc'[p] = "tap" /\ ans'[p] # None => allocs[q][v] = ans'[p]
    <3>1. SUFFICES ASSUME pc'[p] = "tap", ans'[p] # None
                   PROVE  allocs[q][v] = file[v]
      BY <1>7
    <3>2. v # req[q].vm
      <4>1. CASE req[q].op = "ADD"
        BY <1>2, <1>7, <2>1, <3>1, <4>1 DEF SaveOK
      <4>2. CASE req[q].op = "DEL"
        BY <1>1, <1>9, <4>2 DEF Roles, Saving
      <4> QED BY <4>1, <4>2 DEF TypeOK
    <3> QED BY <1>1, <1>2, <2>1, <3>2 DEF SaveOK
  <2>3. BookOK(allocs[q])'
    <3> DEFINE b == allocs[q]
    <3>1. BookOK(b) /\ b' = b
      BY <1>5, <2>1 DEF SaveOK
    <3> HIDE DEF b
    <3>2. BookOK(b)'
      BY <1>4, <2>2, <3>1, BookTap DEF b
    <3> QED BY <3>2 DEF b
  <2> QED BY <1>4, <2>1, <2>3 DEF SaveOK
<1>10. ASSUME Saving(p)'
       PROVE  SaveOK(p)'
  <2>1. /\ pc'[p] = "trunc" /\ known = None /\ a # None
        /\ allocs'[p] = [file EXCEPT ![v] = a]
    BY <1>4, <1>10 DEF TypeOK, Saving
  <2>2. \A w \in Vms : file[w] # a
    BY <1>3, <2>1, NextFreeIsFree
  <2> DEFINE b == [file EXCEPT ![v] = a]
  <2>3. \A w \in Vms : b[w] = IF w = v THEN a ELSE file[w]
    BY <1>1, <1>3
  <2>4. Distinct(b)
    <3> HIDE DEF a, v, known
    <3> QED BY <1>2, <1>3, <2>2, DistinctExcept DEF BookOK
  <2>5. \A w \in Vms : ip[w] # None => b[w] = ip[w]
    BY <1>2, <2>1, <2>3 DEF BookOK
  <2>6. \A q \in Procs : pc'[q] = "tap" /\ ans'[q] # None => b[req[q].vm] = ans'[q]
    <3>1. SUFFICES ASSUME NEW q \in Procs, pc'[q] = "tap", ans'[q] # None
                   PROVE  b[req[q].vm] = ans'[q]
      OBVIOUS
    <3>2. q # p
      BY <2>1, <3>1
    <3>3. pc[q] = "tap" /\ ans[q] = ans'[q] /\ req[q].vm \in Vms
      BY <1>5, <3>1, <3>2 DEF TypeOK
    <3>4. file[req[q].vm] = ans[q] /\ ans[q] # None
      BY <1>2, <3>1, <3>3 DEF BookOK
    <3> QED BY <2>1, <2>3, <3>3, <3>4
  <2>7. UNCHANGED <<file, req, ip>> /\ allocs'[p] = b
    BY <1>4, <2>1
  <2>8. b[v] = ans'[p] /\ \A w \in Vms \ {v} : b[w] = file[w]
    BY <1>1, <1>6, <2>3
  <2>9. file[v] = None
    BY <2>1
  <2> HIDE DEF b, a, known
  <2>10. BookOK(allocs[p])'
    BY <2>4, <2>5, <2>6, <2>7 DEF BookOK
  <2> QED BY <2>7, <2>8, <2>9, <2>10 DEF SaveOK
<1>11. \A q \in Procs \ {p} : Saving(q)' <=> Saving(q)
  BY <1>5 DEF Saving
<1>12. file' # Torn /\ mixed' \subseteq behind' /\ behind' = behind
  BY <1>2, <1>4 DEF Books
<1>13. \A q \in behind' : Saving(q)'
  BY <1>6, <1>11, <1>12 DEF Books, TypeOK
<1> HIDE DEF v, a, known
<1> QED BY <1>8, <1>9, <1>10, <1>11, <1>12, <1>13 DEF Books

LEMMA BooksDel ==
  ASSUME TypeOK, Roles, Books, NEW p \in Procs, DelLoads(p), ~spoiled'
  PROVE  Books'
<1> DEFINE v == req[p].vm
           b == [file EXCEPT ![v] = None]
<1>1. v \in Vms /\ st[v] = "deleted" /\ ~Saving(p)
  BY DEF DelLoads, TypeOK, Roles, Saving
<1>2. file # Torn /\ Loaded = file /\ BookOK(file)
  BY DEF DelLoads, Books, Loaded
<1>3. file \in [Vms -> Addrs \cup {None}]
  BY <1>2 DEF TypeOK
<1>4. /\ allocs' = [allocs EXCEPT ![p] = b]
      /\ pc' = [pc EXCEPT ![p] = "trunc"]
      /\ UNCHANGED <<file, req, ans, mixed, st, ip, behind>>
  BY <1>2 DEF DelLoads, apiVars
<1>5. /\ pc'[p] = "trunc" /\ allocs'[p] = b
      /\ \A q \in Procs \ {p} : pc'[q] = pc[q] /\ allocs'[q] = allocs[q]
  BY <1>4 DEF TypeOK
<1>6. \A w \in Vms : b[w] = IF w = v THEN None ELSE file[w]
  BY <1>1, <1>3
<1>7. BookOK(file)'
  BY <1>2, <1>4, <1>5, BookTap
<1>8. BookOK(allocs[p])'
  <2>1. Distinct(b)
    BY <1>1, <1>2, <1>3, DistinctExcept DEF BookOK
  <2>2. \A w \in Vms : ip[w] # None => b[w] = ip[w]
    BY <1>1, <1>2 DEF BookOK, Roles
  <2>3. \A q \in Procs : pc'[q] = "tap" /\ ans'[q] # None => b[req[q].vm] = ans'[q]
    <3>1. SUFFICES ASSUME NEW q \in Procs, pc'[q] = "tap", ans'[q] # None
                   PROVE  b[req[q].vm] = ans'[q]
      OBVIOUS
    <3>2. pc[q] = "tap" /\ ans[q] = ans'[q] /\ req[q].vm \in Vms
      BY <1>4, <3>1 DEF TypeOK
    <3>3. file[req[q].vm] = ans[q]
      BY <1>2, <3>1, <3>2 DEF BookOK
    <3>4. req[q].vm # v
      BY <1>1, <3>2 DEF Roles, TypeOK
    <3> QED BY <1>6, <3>2, <3>3, <3>4
  <2> HIDE DEF b
  <2> QED BY <1>4, <1>5, <2>1, <2>2, <2>3 DEF BookOK
<1>9. SaveOK(p)'
  <2>1. req'[p] = req[p] /\ req[p].op = "DEL" /\ \A w \in Vms \ {v} : b[w] = file[w]
    BY <1>4, <1>6 DEF DelLoads
  <2> HIDE DEF b
  <2> QED BY <1>4, <1>5, <1>8, <2>1 DEF SaveOK
<1>10. ASSUME NEW q \in Procs \ {p}, Saving(q), q \notin behind
       PROVE  SaveOK(q)'
  <2>1. SaveOK(q)
    BY <1>10 DEF Books
  <2> DEFINE c == allocs[q]
  <2>2. BookOK(c) /\ c' = c
    BY <1>5, <2>1 DEF SaveOK
  <2>3. BookOK(c)'
    <3> HIDE DEF c, b
    <3> QED BY <1>4, <1>5, <2>2, BookTap
  <2> QED BY <1>4, <2>1, <2>3 DEF SaveOK
<1>11. \A q \in Procs \ {p} : Saving(q)' <=> Saving(q)
  BY <1>5 DEF Saving
<1>12. file' # Torn /\ mixed' \subseteq behind' /\ behind' = behind
  BY <1>2, <1>4 DEF Books
<1>13. \A q \in behind' : Saving(q)'
  BY <1>1, <1>11, <1>12 DEF Books, TypeOK
<1> HIDE DEF b, v
<1> QED BY <1>7, <1>9, <1>10, <1>11, <1>12, <1>13 DEF Books

LEMMA BooksTruncate ==
  ASSUME TypeOK, Books, NEW p \in Procs, Truncate(p), ~spoiled'
  PROVE  Books'
<1>1. /\ pc'[p] = "write" /\ pc[p] = "trunc" /\ p \notin behind
      /\ \A q \in Procs \ {p} : pc'[q] = pc[q]
      /\ file' = Torn
      /\ UNCHANGED <<req, allocs, ans, mixed, ip, behind>>
  BY DEF Truncate, TypeOK, apiVars
<1>2. \A q \in Procs : Saving(q)' <=> Saving(q)
  BY <1>1 DEF Saving
<1>3. ASSUME NEW q \in Procs, SaveOK(q)
      PROVE  SaveOK(q)'
  BY <1>1, <1>3 DEF SaveOK, BookOK
<1> QED BY <1>1, <1>2, <1>3 DEF Books, TypeOK

LEMMA BooksWrite ==
  ASSUME TypeOK, Books, NEW p \in Procs, Write(p), ~spoiled'
  PROVE  Books'
<1> DEFINE b == allocs[p]
<1>1. p \notin behind /\ Saving(p) /\ SaveOK(p)
  BY DEF Write, Books, Saving
<1>2. /\ file' = b
      /\ pc'[p] = IF req[p].op = "ADD" THEN "tap" ELSE "idle"
      /\ \A q \in Procs \ {p} : pc'[q] = pc[q]
      /\ UNCHANGED <<req, allocs, ans, ip>>
  BY DEF Write, Ends, Books, TypeOK, apiVars
<1>3. b \in [Vms -> Addrs \cup {None}] /\ b # Torn
  BY CniAssumption DEF TypeOK
<1>4. \A q \in Procs : Saving(q)' <=> q # p /\ Saving(q)
  BY <1>2 DEF Saving
<1>5. behind' = {q \in Procs \ {p} : Saving(q)} /\ mixed' \subseteq behind'
  BY DEF Write, Saving
<1>6. BookOK(file)'
  BY <1>1, <1>2 DEF SaveOK, BookOK
<1> HIDE DEF b
<1> QED BY <1>2, <1>3, <1>4, <1>5, <1>6 DEF Books

\* What Answer does to a book: an address that is answered is the one in the book, and
\* a record that loses its address asks for nothing.
LEMMA BookAnswer ==
  ASSUME TypeOK, NEW p \in Procs, NEW a, Answer(p, a),
         NEW b \in [Vms -> Addrs \cup {None}], BookOK(b),
         a # None => b[req[p].vm] = a
  PROVE  \A w \in Vms : ip'[w] # None => b[w] = ip'[w]
<1>1. \A w \in Vms : ip'[w] = ip[w] \/ (w = req[p].vm /\ ip'[w] = a)
  BY DEF Answer, TypeOK
<1> QED BY <1>1 DEF BookOK

LEMMA BooksEnd ==
  ASSUME TypeOK, Books, NEW p \in Procs, pc[p] \notin {"idle", "write"},
         pc' = [pc EXCEPT ![p] = "idle"],
         \A b \in [Vms -> Addrs \cup {None}] :
            BookOK(b) => \A w \in Vms : ip'[w] # None => b[w] = ip'[w],
         UNCHANGED <<file, req, allocs, ans>>,
         mixed' = mixed \ {p}, behind' = behind \ {p}
  PROVE  Books'
<1>1. pc'[p] = "idle" /\ \A q \in Procs \ {p} : pc'[q] = pc[q]
  BY DEF TypeOK
<1>2. ASSUME file # Torn
      PROVE  BookOK(file)'
  <2>1. file \in [Vms -> Addrs \cup {None}] /\ BookOK(file)
    BY <1>2 DEF Books, TypeOK
  <2> QED BY <1>1, <2>1 DEF BookOK, Distinct
<1>3. ASSUME NEW q \in Procs, Saving(q), q \notin behind
      PROVE  SaveOK(q)'
  <2>1. allocs[q] \in [Vms -> Addrs \cup {None}] /\ SaveOK(q)
    BY <1>3 DEF Books, TypeOK
  <2>2. BookOK(allocs[q])'
    BY <2>1 DEF SaveOK, BookOK
  <2> QED BY <2>1, <2>2 DEF SaveOK
<1>4. \A q \in Procs : Saving(q)' <=> Saving(q) /\ q # p
  BY <1>1 DEF Saving
<1>5. mixed' \subseteq behind' /\ \A q \in behind' : Saving(q)'
  BY <1>4 DEF Books, TypeOK
<1> QED BY <1>2, <1>3, <1>4, <1>5 DEF Books

LEMMA BooksTap ==
  ASSUME TypeOK, Books, NEW p \in Procs, Tap(p)
  PROVE  Books'
<1>1. ASSUME NEW b \in [Vms -> Addrs \cup {None}], BookOK(b)
      PROVE  \A w \in Vms : ip'[w] # None => b[w] = ip'[w]
  <2>1. ans[p] # None => b[req[p].vm] = ans[p]
    BY <1>1 DEF Tap, BookOK
  <2> QED BY <1>1, <2>1, BookAnswer DEF Tap
<1>2. mixed' = mixed \ {p} /\ behind' = behind \ {p}
  BY DEF Tap, Books, Saving
<1> QED BY <1>1, <1>2, BooksEnd DEF Tap

LEMMA BooksFails ==
  ASSUME TypeOK, Books, NEW p \in Procs, CommandFails(p) \/ Killed(p), ~spoiled'
  PROVE  Books'
<1>1. ASSUME NEW b \in [Vms -> Addrs \cup {None}], BookOK(b)
      PROVE  \A w \in Vms : ip'[w] # None => b[w] = ip'[w]
  <2>1. CASE Answer(p, None)
    BY <1>1, <2>1, BookAnswer
  <2>2. CASE UNCHANGED ip
    BY <1>1, <2>2 DEF BookOK
  <2> QED BY <2>1, <2>2 DEF CommandFails, Killed
<1>2. mixed' = mixed \ {p} /\ behind' = behind \ {p}
  BY DEF CommandFails, Killed, Books, Saving
<1> QED BY <1>1, <1>2, BooksEnd DEF CommandFails, Killed

LEMMA BooksStep ==
  ASSUME TypeOK, Roles, ~spoiled => Books, [Next]_vars
  PROVE  ~spoiled' => Books'
<1>1. SUFFICES ASSUME ~spoiled'
               PROVE  Books'
  OBVIOUS
<1>2. CASE UNCHANGED vars
  <2>1. Books
    BY <1>1, <1>2 DEF vars
  <2> QED BY <1>2, <2>1 DEF vars, procVars, apiVars, Books, SaveOK, BookOK, Saving
<1>3. CASE \E p \in Procs, v \in Vms : Create(p, v) \/ Start(p, v) \/ Del(p, v)
  <2>1. PICK p \in Procs, v \in Vms, op \in {"ADD", "DEL"} : Run(p, op, v)
    BY <1>3 DEF Create, Start, Del
  <2>2. Books
    BY <1>1, <2>1 DEF Run
  <2> QED BY <2>1, <2>2, BooksRun
<1>4. CASE \E v \in Vms : Delete(v)
  <2>1. PICK v \in Vms : Delete(v)
    BY <1>4
  <2>2. Books
    BY <1>1, <2>1 DEF Delete
  <2> QED BY <2>1, <2>2, BooksDelete
<1>5. ASSUME NEW p \in Procs, Cni(p)
      PROVE  Books'
  <2>1. CASE AddLoads(p)
    BY <1>1, <2>1, BooksAdd DEF AddLoads
  <2>2. CASE DelLoads(p)
    BY <1>1, <2>2, BooksDel DEF DelLoads
  <2>3. CASE Truncate(p)
    BY <1>1, <2>3, BooksTruncate DEF Truncate
  <2>4. CASE Write(p)
    BY <1>1, <2>4, BooksWrite DEF Write
  <2>5. CASE SaveFails(p)
    BY <1>1, <2>5 DEF SaveFails
  <2>6. CASE Tap(p)
    BY <1>1, <2>6, BooksTap DEF Tap
  <2>7. CASE CommandFails(p) \/ Killed(p)
    BY <1>1, <2>7, BooksFails DEF CommandFails, Killed
  <2> QED BY <1>5, <2>1, <2>2, <2>3, <2>4, <2>5, <2>6, <2>7 DEF Cni
<1> QED BY <1>2, <1>3, <1>4, <1>5 DEF Next

-----------------------------------------------------------------------------
(***************************************************************************)
(* Theorems                                                                *)
(***************************************************************************)

LEMMA InitIInv ==
  ASSUME Init
  PROVE  IInv
<1>1. Roles
  BY DEF Init, Roles, Nobody
<1>2. file # Torn
  BY CniAssumption, InitType DEF Init, TypeOK
<1>3. Books
  <2>1. BookOK(file)
    BY DEF Init, BookOK, Distinct, Nobody
  <2> QED BY <1>2, <2>1 DEF Init, Books, Saving
<1>4. AllocatedOnce
  BY DEF Init, AllocatedOnce, Distinct, Nobody
<1> QED BY <1>1, <1>3, <1>4, InitType DEF IInv

LEMMA StepIInv ==
  ASSUME IInv, [Next]_vars
  PROVE  IInv'
BY TypeStep, RolesStep, OnceStep, BooksStep DEF IInv

LEMMA AlwaysIInv == Spec => []IInv
<1>1. Init => IInv
  BY InitIInv
<1>2. IInv /\ [Next]_vars => IInv'
  BY StepIInv
<1> QED BY <1>1, <1>2, PTL DEF Spec

\* For every pool and every number of VMs and processes, and however processes overlap,
\* fail or are killed: the allocation file never gives one address to two VMs.
THEOREM NeverAllocatedTwice == Spec => []AllocatedOnce
BY AlwaysIInv, PTL DEF IInv

\* Until an allocation is lost, no two VM records have the same address.
THEOREM AddressesUnique == Spec => []UniqueAddress
<1>1. IInv => UniqueAddress
  <2>1. SUFFICES ASSUME IInv, ~spoiled
                 PROVE  Distinct(ip)
    BY DEF UniqueAddress
  <2>2. PICK b \in [Vms -> Addrs \cup {None}] : BookOK(b)
    BY <2>1, SomeBook DEF IInv
  <2> QED BY <2>2 DEF BookOK, Distinct
<1> QED BY <1>1, AlwaysIInv, PTL

LEMMA StableStep ==
  ASSUME IInv, [Next]_vars, NEW v \in Vms, ip[v] # None, st'[v] = "live", ~spoiled'
  PROVE  ip'[v] = ip[v]
<1>1. ASSUME NEW p \in Procs, NEW a, Answer(p, a), Books,
             \A b \in [Vms -> Addrs \cup {None}] :
                BookOK(b) => (a # None => b[req[p].vm] = a)
      PROVE  ip'[v] = ip[v]
  <2>1. CASE v # req[p].vm
    BY <1>1, <2>1 DEF Answer
  <2>2. CASE v = req[p].vm
    <3>1. st[v] = "live"
      BY DEF IInv, Roles
    <3>2. PICK b \in [Vms -> Addrs \cup {None}] : BookOK(b)
      BY <1>1, SomeBook DEF IInv
    <3>3. b[v] = ip[v] /\ (a # None => a = ip[v])
      BY <1>1, <2>2, <3>2 DEF BookOK
    <3>4. ip'[v] = IF a # None THEN a ELSE ip[v]
      BY <1>1, <2>2, <3>1 DEF Answer, IInv, TypeOK
    <3> QED BY <3>3, <3>4
  <2> QED BY <2>1, <2>2
<1>2. ASSUME NEW p \in Procs, Tap(p)
      PROVE  ip'[v] = ip[v]
  <2>1. Books
    BY <1>2 DEF Tap, IInv
  <2>2. ASSUME NEW b \in [Vms -> Addrs \cup {None}], BookOK(b)
        PROVE  ans[p] # None => b[req[p].vm] = ans[p]
    BY <1>2, <2>2 DEF Tap, BookOK
  <2> QED BY <1>1, <1>2, <2>1, <2>2 DEF Tap
<1>3. ASSUME NEW p \in Procs, CommandFails(p) \/ Killed(p)
      PROVE  ip'[v] = ip[v]
  <2>1. Books
    BY <1>3 DEF CommandFails, Killed, IInv
  <2>2. CASE Answer(p, None)
    BY <1>1, <2>1, <2>2
  <2> QED BY <1>3, <2>2 DEF CommandFails, Killed
<1>4. ASSUME NEW w \in Vms, Delete(w)
      PROVE  ip'[v] = ip[v]
  BY <1>4 DEF Delete, IInv, TypeOK
<1> QED BY <1>2, <1>3, <1>4
        DEF Next, Create, Start, Del, Run, Cni, AddLoads, DelLoads, Truncate, Write,
            SaveFails, apiVars, vars

\* Until an allocation is lost, a VM that has an address keeps it until it is deleted,
\* however often it is started and caiman-cni fails.
THEOREM AddressesStable == Spec => StableAddress
<1>1. IInv /\ [Next]_vars
        => [\A v \in Vms :
              ip[v] # None /\ st'[v] = "live" /\ ~spoiled' => ip'[v] = ip[v]]_vars
  BY StableStep
<1> QED BY <1>1, AlwaysIInv, PTL DEF Spec, StableAddress

=============================================================================

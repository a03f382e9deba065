--------------------------- MODULE DatapathProofs ---------------------------
(***************************************************************************)
(* Proofs about Datapath for any set of policies, frames, virtual machines *)
(* and programs, any default policies and any collision of vm_num.         *)
(***************************************************************************)
EXTENDS Datapath, FiniteSetTheorems, WellFoundedInduction, TLAPS

-----------------------------------------------------------------------------
(***************************************************************************)
(* The inductive invariant.                                                *)
(***************************************************************************)

\* What compile_policy has yet to write is the policy's; recompile_all writes what the
\* loop knows, and has names to compile only while it runs.
CurTodo ==
  /\ cur # NoPolicy => todo \subseteq Entries(cur.policy)
  /\ loop = "rewrite" => cur.policy = policies[cur.name]
  /\ loop \in {"recv", "compile", "ended"} => refill = {}

\* Unless a map operation failed, the entries of the policy being compiled are in the
\* map but those to be written, and those of every other policy are all there but for the
\* names recompile_all has not come to.
CurWritten ==
  cur # NoPolicy /\ ~failed =>
    \A k \in Entries(cur.policy) \ todo : policy_map[k] # NoVerdict

KnownWritten ==
  ~failed =>
    \A n \in Names :
      \/ policies[n] = NoPolicy
      \/ n \in refill
      \/ loop = "rewrite" /\ n = cur.name
      \/ \A k \in Entries(policies[n]) : policy_map[k] # NoVerdict

\* A frame inside the program has been granted whatever the loop knows, and is marked when
\* the map may hold more than that.
Granted == frame # NoFrame => Known \subseteq frame.grants /\ (old # {} => frame.stale)

\* A context has a program only where an XDP_ATTACH was carried out.
ProgArmed == \A i \in DOMAIN ctxs : ctxs[i].xdp_prog # NoProg => ctxs[i].uplink \in armed

MsInv == CurTodo /\ CurWritten /\ KnownWritten /\ MapExplained /\ Granted
NetInv == ProgArmed /\ NoReferenceLeaks
IInv == TypeOK /\ MsInv /\ NetInv /\ Enforced /\ DefaultDeny

-----------------------------------------------------------------------------
(***************************************************************************)
(* The entries of policies and the keys of lookups.                        *)
(***************************************************************************)

\* The entries of a policy are keys of the map.
LEMMA EntriesInMap == \A p \in Policies : Entries(p) \subseteq MapKeys
BY DEF MapKeys

\* So are the keys of the lookups.
LEMMA LookupInMap == \A f \in Frames, i \in 1 .. 3 : LookupKey(f, i) \in MapKeys
<1> SUFFICES ASSUME NEW f \in Frames, NEW i \in 1 .. 3 PROVE LookupKey(f, i) \in MapKeys
  OBVIOUS
<1> DEFINE L == {LookupKey(g, j) : g \in Frames, j \in 1 .. 3}
           E == UNION {Entries(p) : p \in Policies}
<1>1. LookupKey(f, i) \in L
  OBVIOUS
<1>2. MapKeys = E \cup L
  BY DEF MapKeys
<1> HIDE DEF L, E
<1> QED
  BY <1>1, <1>2

\* An entry that one of the lookups finds belongs to a policy that covers the frame.
LEMMA LookupCovers ==
  ASSUME NEW p \in Policies, NEW f \in Frames, NEW i \in 1 .. 3, LookupKey(f, i) \in Entries(p)
  PROVE  Covers(p, f)
<1> DEFINE a == IF i = 3 THEN 0 ELSE ProtoOf(f)
           b == IF i = 1 THEN PortOf(f) ELSE 0
<1>1. LookupKey(f, i) = Key(f.src, f.dst, a, b)
  BY DEF LookupKey
<1>2. PICK s \in p.from, d \in p.to, pp \in IF p.ports = {} THEN {<<0, 0>>} ELSE p.ports :
        Key(f.src, f.dst, a, b) = Key(s, d, pp[1], pp[2])
  BY <1>1 DEF Entries
<1>3. f.src = s /\ f.dst = d /\ pp[1] = a /\ pp[2] = b
  BY <1>2 DEF Key
<1>4. a \in {0, f.proto} /\ b \in {0, f.port}
  BY DEF ProtoOf, PortOf
<1> QED
  BY <1>2, <1>3, <1>4 DEF Covers

-----------------------------------------------------------------------------
(***************************************************************************)
(* Types.                                                                  *)
(***************************************************************************)

Events == [name: Names, policy: Policies \cup {NoPolicy}]

\* A restart lists the objects there are, one event for each.
LEMMA ListedTyped ==
  ASSUME MsTypeOK, Relist
  PROVE  chan' \in Seq(Events)
<1> DEFINE live == {n \in Names : desired[n] # NoPolicy}
           N == Cardinality(live)
<1>1. IsFiniteSet(live)
  BY MicrosegAssumption, FS_Subset
<1>2. N \in Nat
  BY <1>1, FS_CardinalityType
<1>3. PICK order \in Bijection(1 .. N, live) :
        chan' = [i \in 1 .. N |-> [name |-> order[i], policy |-> desired[order[i]]]]
  BY DEF Relist
<1>4. order \in [1 .. N -> live]
  BY <1>3 DEF Bijection, Injection
<1>5. \A i \in 1 .. N : [name |-> order[i], policy |-> desired[order[i]]] \in Events
  BY <1>4 DEF MsTypeOK, Events
<1> HIDE DEF N, live
<1> QED
  BY <1>2, <1>3, <1>5

\* What is known, and what the map held before, are policies.
LEMMA InForceTyped == MsTypeOK => Known \subseteq Policies /\ InForce \subseteq Policies
BY DEF Known, InForce, MsTypeOK

\* The types of everything but the frame in the program and its judgement.
LoopTyped ==
  /\ desired \in [Names -> Policies \cup {NoPolicy}]
  /\ chan \in Seq(Events)
  /\ watching \in BOOLEAN /\ events \in 0 .. MaxEvents /\ faults \in 0 .. MaxFaults
  /\ policies \in [Names -> Policies \cup {NoPolicy}]
  /\ loop \in {"recv", "compile", "refill", "rewrite", "ended"}
  /\ cur \in [name: Names, policy: Policies] \cup {NoPolicy}
  /\ (cur # NoPolicy) <=> (loop \in {"compile", "rewrite"})
  /\ todo \subseteq MapKeys /\ (todo # {} => cur # NoPolicy)
  /\ refill \subseteq {n \in Names : policies[n] # NoPolicy}
  /\ policy_map \in [MapKeys -> Verdicts \cup {NoVerdict}]
  /\ old \subseteq Policies /\ failed \in BOOLEAN

FramesIn == [frame: Frames, stage: 1 .. 4, grants: SUBSET Policies, stale: BOOLEAN]
Judged == [frame: Frames, verdict: Verdicts \cup {"ABORTED", "PASS"},
           grants: SUBSET Policies, stale: BOOLEAN]

\* The two parts of the types.
LEMMA MsTypes ==
  MsTypeOK <=> /\ LoopTyped
               /\ frame \in FramesIn \cup {NoFrame} /\ out \in Judged \cup {NoFrame}
BY DEF MsTypeOK, LoopTyped, FramesIn, Judged, Events

\* The first event in the channel.
LEMMA HeadTyped ==
  ASSUME LoopTyped, chan # <<>>
  PROVE  Head(chan) \in Events /\ Tail(chan) \in Seq(Events)
<1>1. chan \in Seq(Events)
  BY DEF LoopTyped
<1> QED
  BY <1>1

\* Every step of the daemon keeps the types of its state.
LEMMA LoopKeepsTypes ==
  ASSUME MsTypeOK, CurTodo, [Next]_vars
  PROVE  LoopTyped'
<1> USE MicrosegAssumption
<1>t. LoopTyped
  BY MsTypes
<1>1. ASSUME NEW n \in Names, NEW p \in Policies \cup {NoPolicy}, Change(n, p) PROVE LoopTyped'
  <2>1. [name |-> n, policy |-> p] \in Events
    BY DEF Events
  <2>2. chan' \in Seq(Events)
    BY <1>1, <1>t, <2>1 DEF Change, LoopTyped
  <2> QED
    BY <1>1, <1>t, <2>2 DEF Change, LoopTyped, loopVars
<1>2. CASE RecvApply
  <2>1. Head(chan) \in [name: Names, policy: Policies] /\ Tail(chan) \in Seq(Events)
    BY <1>2, <1>t, HeadTyped DEF RecvApply, Events
  <2>2. todo' \subseteq MapKeys
    BY <1>2, <2>1, EntriesInMap DEF RecvApply
  <2> QED
    BY <1>2, <1>t, <2>1, <2>2 DEF RecvApply, LoopTyped
<1>3. ASSUME NEW k \in MapKeys, WriteEntry(k) PROVE LoopTyped'
  <2>1. cur \in [name: Names, policy: Policies]
    BY <1>3, <1>t DEF WriteEntry, LoopTyped
  <2>2. cur.policy.action \in Verdicts
    BY <2>1 DEF PolicyType
  <2>3. policy_map' \in [MapKeys -> Verdicts \cup {NoVerdict}]
    BY <1>3, <1>t, <2>2 DEF WriteEntry, LoopTyped
  <2> QED
    BY <1>3, <1>t, <2>3 DEF WriteEntry, LoopTyped, clusterVars
<1>4. CASE WriteFails
  BY <1>4, <1>t DEF WriteFails, LoopTyped, clusterVars
<1>5. CASE Insert
  BY <1>5, <1>t DEF Insert, LoopTyped, clusterVars
<1>6. CASE RecvDeleted
  <2>1. Head(chan).name \in Names /\ Tail(chan) \in Seq(Events)
    BY <1>6, <1>t, HeadTyped DEF RecvDeleted, Events
  <2>2. policy_map' \in [MapKeys -> Verdicts \cup {NoVerdict}]
    BY <1>6, <1>t DEF RecvDeleted, Clear, LoopTyped
  <2>3. old' \subseteq Policies /\ failed' \in BOOLEAN
    <3>1. policies[Head(chan).name] \in Policies \cup {NoPolicy}
      BY <1>t, <2>1 DEF LoopTyped
    <3> QED
      BY <1>6, <1>t, <3>1 DEF RecvDeleted, Clear, LoopTyped
  <2>4. faults' \in 0 .. MaxFaults
    BY <1>6, <1>t DEF RecvDeleted, Clear, LoopTyped
  <2>5. policies' \in [Names -> Policies \cup {NoPolicy}]
    BY <1>6, <1>t, <2>1 DEF RecvDeleted, LoopTyped
  <2> QED
    BY <1>6, <1>t, <2>1, <2>2, <2>3, <2>5, <2>4 DEF RecvDeleted, LoopTyped
<1>7. ASSUME NEW n \in Names, Refill(n) PROVE LoopTyped'
  <2>1. policies[n] \in Policies
    BY <1>7, <1>t DEF Refill, LoopTyped
  <2>2. todo' \subseteq MapKeys
    BY <1>7, <2>1, EntriesInMap DEF Refill
  <2> QED
    BY <1>7, <1>t, <2>1, <2>2 DEF Refill, LoopTyped, clusterVars
<1>8. CASE Rewritten \/ Refilled \/ LoopEnds
  BY <1>8, <1>t DEF Rewritten, Refilled, LoopEnds, LoopTyped, clusterVars
<1>9. CASE WatcherEnds
  <2>1. watching' = FALSE /\ faults' \in 0 .. MaxFaults
    BY <1>9, <1>t DEF WatcherEnds, LoopTyped
  <2> QED
    BY <1>9, <1>t, <2>1 DEF WatcherEnds, LoopTyped, loopVars
<1>10. CASE MsRestart
  <2>1. Relist /\ faults' \in 0 .. MaxFaults
    BY <1>10, <1>t DEF MsRestart, Crash, Resume, LoopTyped
  <2>2. chan' \in Seq(Events)
    BY <2>1, ListedTyped
  <2>3. old' \subseteq Policies
    BY <2>1, InForceTyped DEF Relist
  <2> QED
    BY <1>t, <2>1, <2>2, <2>3 DEF Relist, LoopTyped
<1>11. CASE UNCHANGED <<clusterVars, faults, loopVars>>
  BY <1>11, <1>t DEF LoopTyped, clusterVars, loopVars
<1> QED
  BY <1>1, <1>2, <1>3, <1>4, <1>5, <1>6, <1>7, <1>8, <1>9, <1>10, <1>11
  DEF Next, MsNext, PolicyLoop, Enforce, LookupHits, LookupMisses, LookupDefault, FrameArrives,
      EnforceBegins, vars, msVars

\* The steps, seen from the frame in the program.
LEMMA FrameSteps ==
  ASSUME [Next]_vars
  PROVE  \/ Follow
         \/ LookupHits
         \/ LookupMisses
         \/ LookupDefault
         \/ \E f \in Frames : FrameArrives(f)
         \/ UNCHANGED <<loopVars, frame>> /\ out' = NoFrame
         \/ UNCHANGED vars
BY DEF Next, MsNext, PolicyLoop, Enforce, Change, WatcherEnds, RecvApply, Insert, RecvDeleted,
       Rewritten, Refilled, WriteFails, LoopEnds, WriteEntry, Refill, MsRestart, Crash, Resume,
       Relist

\* Every step of the daemon and of the XDP program keeps the types.
LEMMA MsTyped == TypeOK /\ CurTodo /\ [Next]_vars => MsTypeOK'
<1> SUFFICES ASSUME MsTypeOK, CurTodo, [Next]_vars PROVE MsTypeOK'
  BY DEF TypeOK
<1> USE MicrosegAssumption
<1>t. /\ LoopTyped /\ LoopTyped'
      /\ frame \in FramesIn \cup {NoFrame} /\ out \in Judged \cup {NoFrame}
  BY LoopKeepsTypes, MsTypes
<1> DEFINE Goal == frame' \in FramesIn \cup {NoFrame} /\ out' \in Judged \cup {NoFrame}
<1> SUFFICES Goal
  BY <1>t DEF MsTypeOK, LoopTyped, FramesIn, Judged, Events
<1>k. Known \subseteq Policies /\ Known' \subseteq Policies
  BY DEF Known
<1>1. CASE Follow
  BY <1>1, <1>t, <1>k DEF Follow, FramesIn
<1>2. CASE LookupHits
  <2>1. frame \in FramesIn
    BY <1>2, <1>t DEF LookupHits
  <2>2. LookupKey(frame.frame, frame.stage) \in MapKeys
    BY <1>2, <2>1, LookupInMap DEF LookupHits, FramesIn
  <2>3. policy_map[LookupKey(frame.frame, frame.stage)] \in Verdicts
    BY <1>2, <1>t, <2>2 DEF LookupHits, LoopTyped
  <2> QED
    BY <1>2, <2>1, <2>3 DEF LookupHits, Judge, FramesIn, Judged
<1>3. CASE LookupMisses
  BY <1>3, <1>t DEF LookupMisses, FramesIn
<1>4. CASE LookupDefault
  <2>1. frame \in FramesIn
    BY <1>4, <1>t DEF LookupDefault
  <2>2. frame.frame.dst \in Identities
    BY <2>1 DEF FrameType, FramesIn
  <2>3. default_policy[frame.frame.dst] \in Verdicts \cup {NoVerdict}
    BY <2>2
  <2>4. (IF default_policy[frame.frame.dst] = NoVerdict THEN "DENY"
         ELSE default_policy[frame.frame.dst]) \in Verdicts
    BY <2>3 DEF Verdicts
  <2> QED
    BY <1>4, <2>1, <2>4 DEF LookupDefault, Judge, FramesIn, Judged
<1>5. ASSUME NEW f \in Frames, FrameArrives(f) PROVE Goal
  <2>1. PICK s \in BOOLEAN : s = (old # {})
    OBVIOUS
  <2>2. CASE /\ frame' = [frame |-> f, stage |-> 1, grants |-> Known, stale |-> s]
             /\ out' = NoFrame
    BY <1>k, <2>2 DEF FramesIn
  <2>3. ASSUME NEW v \in {"ALLOW", "ABORTED", "PASS"}, Judge(f, v, Known, s) PROVE Goal
    <3>1. v \in Verdicts \cup {"ABORTED", "PASS"}
      BY DEF Verdicts
    <3> QED
      BY <1>k, <2>3, <3>1 DEF Judge, Judged
  <2> QED
    BY <1>5, <2>1, <2>2, <2>3 DEF FrameArrives, EnforceBegins
<1>6. CASE UNCHANGED <<loopVars, frame>> /\ out' = NoFrame
  BY <1>6, <1>t
<1>7. CASE UNCHANGED vars
  BY <1>7, <1>t DEF vars, msVars
<1> QED
  BY <1>1, <1>2, <1>3, <1>4, <1>5, <1>6, <1>7, FrameSteps

\* caiman_net_ctx_find returns a context of that id when there is one.
LEMMA FindFound ==
  ASSUME NetTypeOK, NEW id, Found(id) # {}
  PROVE  Find(id) \in 1 .. Len(ctxs) /\ ctxs[Find(id)].vm_id = id
<1>1. Found(id) \subseteq Nat
  BY DEF Found, NetTypeOK
<1>2. PICK i \in Found(id) : \A j \in Found(id) : ~ (<<j, i>> \in OpToRel(<, Nat))
  BY <1>1, WFMin, NatLessThanWellFounded
<1>3. ASSUME NEW j \in Found(id) PROVE i <= j
  <2>1. i \in Nat /\ j \in Nat
    BY <1>1
  <2>2. ~ (j < i)
    BY <1>2, <2>1 DEF OpToRel
  <2> QED
    BY <2>1, <2>2
<1>4. \E m \in Found(id) : \A j \in Found(id) : m <= j
  BY <1>3
<1>5. Find(id) \in Found(id)
  BY <1>4 DEF Find
<1> QED
  BY <1>5 DEF Found, NetTypeOK

Contexts == [vm_id: Ids, uplink: Uplinks, xdp_prog: Progs \cup {NoProg}]

\* Contexts in the table stay contexts when one is put first, taken out or changed.
LEMMA TableTyped ==
  ASSUME ctxs \in Seq(Contexts), NEW i \in 1 .. Len(ctxs), NEW c \in Contexts
  PROVE  /\ <<c>> \o ctxs \in Seq(Contexts)
         /\ Without(i) \in Seq(Contexts) /\ Len(Without(i)) = Len(ctxs) - 1
         /\ [ctxs EXCEPT ![i] = c] \in Seq(Contexts)
<1>1. <<c>> \in Seq(Contexts)
  OBVIOUS
<1>2. \A j \in 1 .. Len(ctxs) - 1 : (IF j < i THEN ctxs[j] ELSE ctxs[j + 1]) \in Contexts
  OBVIOUS
<1>3. Without(i) \in [1 .. Len(ctxs) - 1 -> Contexts] /\ Len(ctxs) - 1 \in Nat
  BY <1>2 DEF Without
<1>4. Without(i) \in Seq(Contexts) /\ Len(Without(i)) = Len(ctxs) - 1
  BY <1>3
<1> QED
  BY <1>1, <1>4

\* 1 for true
One(b) == IF b THEN 1 ELSE 0

\* bpf_prog_put takes one reference off, of the program it is given.
LEMMA PutOne ==
  ASSUME NEW r \in [Progs -> Int], NEW p \in Progs \cup {NoProg}
  PROVE  /\ Put(r, p) \in [Progs -> Int]
         /\ \A q \in Progs : Put(r, p)[q] = r[q] - One(p = q)
BY CaimanNetAssumption DEF Put, One

\* Detach puts the program of the uplink, if it comes off, and that of the context.
LEMMA DetachedPuts ==
  ASSUME NetTypeOK, NEW c \in Contexts, NEW keep \in BOOLEAN
  PROVE  /\ Detached(c, keep) \in [Progs -> Int]
         /\ c.xdp_prog = NoProg => Detached(c, keep) = refs
         /\ c.xdp_prog # NoProg =>
              \A q \in Progs :
                Detached(c, keep)[q] =
                  (refs[q] - One(~keep /\ xdp[c.uplink] = q)) - One(c.xdp_prog = q)
<1>1. /\ refs \in [Progs -> Int] /\ xdp[c.uplink] \in Progs \cup {NoProg}
      /\ c.xdp_prog \in Progs \cup {NoProg}
  BY DEF NetTypeOK, Contexts
<1>2. CASE c.xdp_prog = NoProg
  BY <1>1, <1>2 DEF Detached
<1>3. CASE c.xdp_prog # NoProg /\ keep
  <2>1. Detached(c, keep) = Put(refs, c.xdp_prog)
    BY <1>3 DEF Detached
  <2>2. ASSUME NEW q \in Progs PROVE One(~keep /\ xdp[c.uplink] = q) = 0
    BY <1>3 DEF One
  <2>3. /\ Put(refs, c.xdp_prog) \in [Progs -> Int]
        /\ \A q \in Progs : Put(refs, c.xdp_prog)[q] = refs[q] - One(c.xdp_prog = q)
    BY <1>1, PutOne
  <2>4. ASSUME NEW q \in Progs
        PROVE  Put(refs, c.xdp_prog)[q] =
                 (refs[q] - One(~keep /\ xdp[c.uplink] = q)) - One(c.xdp_prog = q)
    <3>1. refs[q] - One(~keep /\ xdp[c.uplink] = q) = refs[q]
      BY <1>1, <2>2
    <3> QED
      BY <2>3, <3>1
  <2> QED
    BY <1>3, <2>1, <2>3, <2>4
<1>4. CASE c.xdp_prog # NoProg /\ ~keep
  <2> DEFINE r == Put(refs, xdp[c.uplink])
  <2>1. r \in [Progs -> Int] /\ \A q \in Progs : r[q] = refs[q] - One(xdp[c.uplink] = q)
    BY <1>1, PutOne
  <2>2. Detached(c, keep) = Put(r, c.xdp_prog)
    BY <1>4 DEF Detached
  <2> HIDE DEF r
  <2>3. /\ Put(r, c.xdp_prog) \in [Progs -> Int]
        /\ \A q \in Progs : Put(r, c.xdp_prog)[q] = r[q] - One(c.xdp_prog = q)
    BY <1>1, <2>1, PutOne
  <2>4. ASSUME NEW q \in Progs
        PROVE  One(~keep /\ xdp[c.uplink] = q) = One(xdp[c.uplink] = q)
    BY <1>4 DEF One
  <2> QED
    BY <1>4, <2>1, <2>2, <2>3, <2>4
<1> QED
  BY <1>2, <1>3, <1>4

\* Attach takes a reference and puts two, as a restart of the daemon puts one.
LEMMA AttachPuts ==
  ASSUME NetTypeOK, NEW u \in Uplinks, NEW p \in Progs, NEW was \in Progs \cup {NoProg}
  PROVE  LET r == Put([refs EXCEPT ![p] = @ + 1], xdp[u])
             rr == Put(r, was)
         IN  /\ r \in [Progs -> Int] /\ rr \in [Progs -> Int]
             /\ \A q \in Progs : /\ r[q] = (refs[q] + One(p = q)) - One(xdp[u] = q)
                                  /\ rr[q] = r[q] - One(was = q)
<1> DEFINE t == [refs EXCEPT ![p] = @ + 1]
           r == Put(t, xdp[u])
<1>1. xdp[u] \in Progs \cup {NoProg}
  BY DEF NetTypeOK
<1>2. t \in [Progs -> Int] /\ \A q \in Progs : t[q] = refs[q] + One(p = q)
  BY DEF NetTypeOK, One
<1> HIDE DEF t
<1>3. r \in [Progs -> Int] /\ \A q \in Progs : r[q] = t[q] - One(xdp[u] = q)
  BY <1>1, <1>2, PutOne
<1> HIDE DEF r
<1>4. Put(r, was) \in [Progs -> Int] /\ \A q \in Progs : Put(r, was)[q] = r[q] - One(was = q)
  BY <1>3, PutOne
<1> QED
  BY <1>2, <1>3, <1>4 DEF r, t

\* Every step of caiman_net and its clients keeps the types.
LEMMA NetTyped == TypeOK /\ [Next]_vars => NetTypeOK'
<1> SUFFICES ASSUME NetTypeOK, [Next]_vars PROVE NetTypeOK'
  BY DEF TypeOK
<1> USE CaimanNetAssumption
<1>c. ctxs \in Seq(Contexts)
  BY DEF NetTypeOK, Contexts
<1>1. ASSUME NEW v \in Vms, VmAdd(v) PROVE NetTypeOK'
  <2>1. NewCtx(v) \in Contexts
    BY DEF NewCtx, Contexts
  <2>2. <<NewCtx(v)>> \o ctxs \in Seq(Contexts)
    BY <1>c, <2>1
  <2> QED
    BY <1>1, <2>2 DEF VmAdd, NetTypeOK, Contexts
<1>2. ASSUME NEW v \in Vms, VmAddFails(v) PROVE NetTypeOK'
  BY <1>2 DEF VmAddFails, NetTypeOK
<1>3. ASSUME NEW v \in Vms, VmGone(v) PROVE NetTypeOK'
  BY <1>3 DEF VmGone, NetTypeOK
<1>4. ASSUME NEW v \in Vms, NEW keep \in BOOLEAN, VmDel(v, keep) PROVE NetTypeOK'
  <2> DEFINE i == Find(vm_num[v])
  <2>1. i \in 1 .. Len(ctxs)
    BY <1>4, FindFound DEF VmDel
  <2> HIDE DEF i
  <2>2. ctxs[i] \in Contexts
    BY <1>c, <2>1
  <2>3. Without(i) \in Seq(Contexts)
    BY <1>c, <2>1, <2>2, TableTyped
  <2>4. refs' \in [Progs -> Int]
    BY <1>4, <2>2, DetachedPuts DEF VmDel, i
  <2>5. xdp' \in [Uplinks -> Progs \cup {NoProg}]
    BY <1>4, <2>2 DEF VmDel, XdpOff, NetTypeOK, Contexts, i
  <2> QED
    BY <1>4, <2>3, <2>4, <2>5 DEF VmDel, NetTypeOK, Contexts, i
<1>5. ASSUME NEW id \in Ids, NEW p \in Progs, XdpAttach(id, p) PROVE NetTypeOK'
  <2> DEFINE i == Find(id)
             c == [ctxs[i] EXCEPT !.xdp_prog = p]
  <2>1. i \in 1 .. Len(ctxs)
    BY <1>5, FindFound DEF XdpAttach
  <2> HIDE DEF i
  <2>2. ctxs[i] \in Contexts /\ c \in Contexts
    <3>1. ctxs[i] \in Contexts
      BY <1>c, <2>1
    <3> QED
      BY <3>1 DEF Contexts
  <2>3. [ctxs EXCEPT ![i] = c] \in Seq(Contexts)
    BY <1>c, <2>1, <2>2, TableTyped
  <2>4. ctxs' = [ctxs EXCEPT ![i] = c]
    BY <1>5 DEF XdpAttach, i
  <2>5. refs' \in [Progs -> Int]
    <3>1. ctxs[i].uplink \in Uplinks /\ ctxs[i].xdp_prog \in Progs \cup {NoProg}
      BY <2>2 DEF Contexts
    <3>2. refs' = Put(Put([refs EXCEPT ![p] = @ + 1], xdp[ctxs[i].uplink]), ctxs[i].xdp_prog)
      BY <1>5 DEF XdpAttach, i
    <3>3. PICK u \in Uplinks, was \in Progs \cup {NoProg} :
            u = ctxs[i].uplink /\ was = ctxs[i].xdp_prog
      BY <3>1
    <3>4. Put(Put([refs EXCEPT ![p] = @ + 1], xdp[u]), was) \in [Progs -> Int]
      BY AttachPuts
    <3> QED
      BY <3>2, <3>3, <3>4
  <2>6. xdp' \in [Uplinks -> Progs \cup {NoProg}] /\ armed' \subseteq Uplinks
    BY <1>5, <2>2 DEF XdpAttach, NetTypeOK, Contexts, i
  <2>7. UNCHANGED <<vmm, adds>> /\ cmds' \in 0 .. MaxCmds
    BY <1>5 DEF XdpAttach, NetTypeOK
  <2> HIDE DEF c
  <2> QED
    BY <2>3, <2>4, <2>5, <2>6, <2>7 DEF NetTypeOK, Contexts
<1>6. ASSUME NEW id \in Ids, NEW p \in Progs, XdpAttachFails(id, p) PROVE NetTypeOK'
  BY <1>6 DEF XdpAttachFails, NetTypeOK
<1>7. ASSUME NEW id \in Ids, NEW keep \in BOOLEAN, XdpDetach(id, keep) PROVE NetTypeOK'
  <2> DEFINE i == Find(id)
             c == [ctxs[i] EXCEPT !.xdp_prog = NoProg]
  <2>1. i \in 1 .. Len(ctxs)
    BY <1>7, FindFound DEF XdpDetach
  <2> HIDE DEF i
  <2>2. ctxs[i] \in Contexts /\ c \in Contexts
    <3>1. ctxs[i] \in Contexts
      BY <1>c, <2>1
    <3> QED
      BY <3>1 DEF Contexts
  <2>3. [ctxs EXCEPT ![i] = c] \in Seq(Contexts)
    BY <1>c, <2>1, <2>2, TableTyped
  <2>4. ctxs' = [ctxs EXCEPT ![i] = c]
    BY <1>7 DEF XdpDetach, i
  <2>5. refs' \in [Progs -> Int]
    BY <1>7, <2>2, DetachedPuts DEF XdpDetach, i
  <2>6. xdp' \in [Uplinks -> Progs \cup {NoProg}]
    BY <1>7, <2>2 DEF XdpDetach, XdpOff, NetTypeOK, Contexts, i
  <2>7. UNCHANGED <<vmm, adds, armed>> /\ cmds' \in 0 .. MaxCmds
    BY <1>7 DEF XdpDetach, NetTypeOK
  <2> HIDE DEF c
  <2> QED
    BY <2>3, <2>4, <2>5, <2>7, <2>6 DEF NetTypeOK, Contexts
<1>8. CASE MsRestart
  <2>1. refs' \in [Progs -> Int]
    BY <1>8, DatapathAssumption, AttachPuts DEF MsRestart
  <2> QED
    BY <1>8, <2>1, DatapathAssumption DEF MsRestart, NetTypeOK
<1>9. CASE UNCHANGED netVars
  BY <1>9 DEF netVars, NetTypeOK
<1> QED
  BY <1>1, <1>2, <1>3, <1>4, <1>5, <1>6, <1>7, <1>8, <1>9 DEF Next, NetNext, FrameArrives, vars

-----------------------------------------------------------------------------
(***************************************************************************)
(* The policy map.                                                         *)
(***************************************************************************)

\* Every step keeps the bookkeeping of compile_policy and recompile_all.
LEMMA NextCurTodo == TypeOK /\ CurTodo /\ [Next]_vars => CurTodo'
<1> SUFFICES ASSUME MsTypeOK, CurTodo, [Next]_vars PROVE CurTodo'
  BY DEF TypeOK
<1> USE MicrosegAssumption
<1>1. ASSUME NEW n \in Names, NEW p \in Policies \cup {NoPolicy}, Change(n, p) PROVE CurTodo'
  BY <1>1 DEF Change, CurTodo, loopVars
<1>2. CASE RecvApply
  BY <1>2 DEF RecvApply, CurTodo
<1>3. ASSUME NEW k \in MapKeys, WriteEntry(k) PROVE CurTodo'
  BY <1>3 DEF WriteEntry, CurTodo
<1>4. CASE WriteFails
  BY <1>4 DEF WriteFails, CurTodo
<1>5. CASE Insert
  BY <1>5 DEF Insert, CurTodo
<1>6. CASE RecvDeleted
  BY <1>6 DEF RecvDeleted, CurTodo, MsTypeOK
<1>7. ASSUME NEW n \in Names, Refill(n) PROVE CurTodo'
  BY <1>7 DEF Refill, CurTodo
<1>8. CASE Rewritten
  BY <1>8 DEF Rewritten, CurTodo
<1>9. CASE Refilled
  BY <1>9 DEF Refilled, CurTodo
<1>10. CASE Enforce
  BY <1>10 DEF Enforce, LookupHits, LookupMisses, LookupDefault, CurTodo, loopVars
<1>11. CASE MsRestart
  BY <1>11 DEF MsRestart, Crash, Resume, Relist, CurTodo
<1>12. CASE LoopEnds
  BY <1>12 DEF LoopEnds, CurTodo
<1>13. CASE UNCHANGED loopVars
  BY <1>13 DEF CurTodo, loopVars
<1> QED
  BY <1>1, <1>2, <1>3, <1>4, <1>5, <1>6, <1>7, <1>8, <1>9, <1>10, <1>11, <1>13, <1>12
  DEF Next, MsNext, PolicyLoop, WatcherEnds, FrameArrives, EnforceBegins, vars, msVars

\* Every step keeps the entries that are known to be in the map.
LEMMA NextWritten ==
  TypeOK /\ CurTodo /\ CurWritten /\ KnownWritten /\ [Next]_vars => CurWritten' /\ KnownWritten'
<1> SUFFICES ASSUME MsTypeOK, CurTodo, CurWritten, KnownWritten, [Next]_vars
             PROVE  CurWritten' /\ KnownWritten'
  BY DEF TypeOK
<1> USE MicrosegAssumption
<1>1. CASE RecvApply
  BY <1>1 DEF RecvApply, CurWritten, KnownWritten
<1>2. ASSUME NEW k \in MapKeys, WriteEntry(k) PROVE CurWritten' /\ KnownWritten'
  <2>1. cur # NoPolicy /\ cur.policy \in Policies /\ cur.policy.action \in Verdicts
    BY <1>2 DEF WriteEntry, MsTypeOK, PolicyType
  <2>2. \A j \in MapKeys : policy_map[j] # NoVerdict => policy_map'[j] # NoVerdict
    BY <1>2, <2>1 DEF WriteEntry, MsTypeOK
  <2>3. policy_map'[k] # NoVerdict
    BY <1>2, <2>1 DEF WriteEntry, MsTypeOK
  <2>4. CurWritten'
    BY <1>2, <2>3 DEF WriteEntry, CurWritten
  <2>5. KnownWritten'
    <3> QED
      BY <1>2, <2>2 DEF WriteEntry, KnownWritten
  <2> QED
    BY <2>4, <2>5
<1>3. CASE WriteFails
  BY <1>3 DEF WriteFails, CurWritten, KnownWritten
<1>4. CASE Insert
  <2>1. cur # NoPolicy /\ cur.name \in Names /\ refill = {}
    BY <1>4 DEF Insert, MsTypeOK, CurTodo
  <2> QED
    BY <1>4, <2>1 DEF Insert, CurWritten, KnownWritten
<1>5. CASE RecvDeleted
  <2>1. cur' = NoPolicy
    BY <1>5 DEF RecvDeleted, MsTypeOK
  <2>2. \A n \in Names : policies'[n] # NoPolicy => n \in refill'
    BY <1>5 DEF RecvDeleted
  <2> QED
    BY <2>1, <2>2 DEF CurWritten, KnownWritten
<1>6. ASSUME NEW n \in Names, Refill(n) PROVE CurWritten' /\ KnownWritten'
  BY <1>6 DEF Refill, CurWritten, KnownWritten
<1>7. CASE Rewritten
  <2>1. cur # NoPolicy /\ cur.policy = policies[cur.name]
    BY <1>7 DEF Rewritten, MsTypeOK, CurTodo
  <2> QED
    BY <1>7, <2>1 DEF Rewritten, CurWritten, KnownWritten
<1>8. CASE Refilled
  BY <1>8 DEF Refilled, CurWritten, KnownWritten
<1>9. CASE MsRestart
  BY <1>9 DEF MsRestart, Crash, Resume, Relist, CurWritten, KnownWritten
<1>10. CASE LoopEnds
  BY <1>10 DEF LoopEnds, CurWritten, KnownWritten
<1>11. CASE UNCHANGED loopVars
  BY <1>11 DEF CurWritten, KnownWritten, loopVars
<1> QED
  BY <1>1, <1>2, <1>3, <1>4, <1>5, <1>6, <1>7, <1>8, <1>9, <1>11, <1>10
  DEF Next, MsNext, PolicyLoop, WatcherEnds, FrameArrives, EnforceBegins, vars, msVars,
      Change, Enforce, LookupHits, LookupMisses, LookupDefault

\* A policy in force stays in force until the map is cleared.
LEMMA NextInForce ==
  ASSUME MsTypeOK, CurTodo, [Next]_vars
  PROVE  InForce \subseteq InForce' \/ policy_map' = [k \in MapKeys |-> NoVerdict]
<1> USE MicrosegAssumption
<1> DEFINE Goal == InForce \subseteq InForce' \/ policy_map' = [k \in MapKeys |-> NoVerdict]
<1>1. CASE RecvApply
  <2>1. cur = NoPolicy
    BY <1>1 DEF RecvApply, MsTypeOK
  <2> QED
    BY <1>1, <2>1 DEF RecvApply, InForce, Known
<1>2. CASE WriteFails \/ \E k \in MapKeys : WriteEntry(k)
  BY <1>2 DEF WriteFails, WriteEntry, InForce, Known
<1>3. CASE Insert
  <2>1. cur # NoPolicy /\ cur.name \in Names /\ cur.policy \in Policies
    BY <1>3 DEF Insert, MsTypeOK
  <2>2. \A n \in Names : policies'[n] = IF n = cur.name THEN cur.policy ELSE policies[n]
    BY <1>3, <2>1 DEF Insert, MsTypeOK
  <2>3. cur' = NoPolicy /\ old' = old \cup ({policies[cur.name]} \ {NoPolicy})
    BY <1>3 DEF Insert
  <2> QED
    BY <2>1, <2>2, <2>3 DEF InForce, Known
<1>4. CASE RecvDeleted
  <2>1. Head(chan).name \in Names
    <3>1. chan \in Seq(Events) /\ chan # <<>>
      BY <1>4 DEF RecvDeleted, MsTypeOK, Events
    <3>2. Head(chan) \in Events
      BY <3>1
    <3> QED
      BY <3>2 DEF Events
  <2>2. \A n \in Names : policies'[n] = IF n = Head(chan).name THEN NoPolicy ELSE policies[n]
    BY <1>4, <2>1 DEF RecvDeleted, MsTypeOK
  <2>3. cur' = cur
    BY <1>4 DEF RecvDeleted
  <2>4. CASE old' = {} /\ policy_map' = [k \in MapKeys |-> NoVerdict]
    BY <2>2, <2>3, <2>4 DEF InForce, Known
  <2>5. CASE old' = old \cup ({policies[Head(chan).name]} \ {NoPolicy})
    BY <2>1, <2>2, <2>3, <2>5 DEF InForce, Known
  <2> QED
    BY <1>4, <2>4, <2>5 DEF RecvDeleted, Clear
<1>5. ASSUME NEW n \in Names, Refill(n) PROVE Goal
  BY <1>5 DEF Refill, InForce, Known, MsTypeOK
<1>6. CASE Rewritten
  <2>1. cur # NoPolicy /\ cur.policy = policies[cur.name] /\ cur.name \in Names
    BY <1>6 DEF Rewritten, MsTypeOK, CurTodo
  <2> QED
    BY <1>6, <2>1 DEF Rewritten, InForce, Known
<1>7. CASE Refilled \/ LoopEnds
  BY <1>7 DEF Refilled, LoopEnds, InForce, Known
<1>8. CASE MsRestart
  <2>1. old' = InForce /\ cur' = NoPolicy /\ \A n \in Names : policies'[n] = NoPolicy
    BY <1>8 DEF MsRestart, Crash, Resume, Relist
  <2> QED
    BY <2>1 DEF InForce, Known
<1>9. CASE UNCHANGED loopVars
  BY <1>9 DEF InForce, Known, loopVars
<1> QED
  BY <1>1, <1>2, <1>3, <1>4, <1>5, <1>6, <1>7, <1>8, <1>9
  DEF Next, MsNext, PolicyLoop, WatcherEnds, FrameArrives, EnforceBegins, vars, msVars,
      Change, Enforce, LookupHits, LookupMisses, LookupDefault

\* Every step leaves each entry of the map as it is, takes it off, or writes what the
\* policy being compiled says.
LEMMA NextEntry ==
  ASSUME MsTypeOK, CurTodo, [Next]_vars, NEW k \in MapKeys
  PROVE  \/ policy_map'[k] \in {policy_map[k], NoVerdict}
         \/ /\ cur # NoPolicy /\ cur.policy \in InForce
            /\ k \in Entries(cur.policy) /\ policy_map'[k] = cur.policy.action
<1>1. CASE \E j \in MapKeys : WriteEntry(j)
  <2>1. PICK j \in MapKeys : WriteEntry(j)
    BY <1>1
  <2>2. cur # NoPolicy /\ cur.policy \in Policies
    BY <2>1 DEF WriteEntry, MsTypeOK
  <2>3. j \in Entries(cur.policy) /\ cur.policy \in InForce
    BY <2>1, <2>2 DEF WriteEntry, CurTodo, InForce, Known
  <2> QED
    BY <2>1, <2>2, <2>3 DEF WriteEntry
<1>2. CASE RecvDeleted
  BY <1>2 DEF RecvDeleted, Clear
<1>3. CASE UNCHANGED policy_map
  BY <1>3
<1> QED
  BY <1>1, <1>2
  DEF Next, MsNext, PolicyLoop, FrameArrives, EnforceBegins, vars, msVars, loopVars, Change,
      Enforce, LookupHits, LookupMisses, LookupDefault, RecvApply, WriteFails, Insert, Refill,
      Rewritten, Refilled, LoopEnds, WatcherEnds, MsRestart, Crash, Resume, Relist

\* Every step keeps each entry of the map explained.
LEMMA NextExplained == TypeOK /\ CurTodo /\ MapExplained /\ [Next]_vars => MapExplained'
<1> SUFFICES ASSUME MsTypeOK, CurTodo, MapExplained, [Next]_vars, NEW k \in MapKeys,
                    policy_map'[k] # NoVerdict
             PROVE  \E p \in InForce' : k \in Entries(p) /\ p.action = policy_map'[k]
  BY DEF TypeOK, MapExplained
<1>1. InForce \subseteq InForce'
  BY NextInForce
<1>2. CASE policy_map'[k] = policy_map[k]
  BY <1>1, <1>2 DEF MapExplained
<1>3. CASE /\ cur # NoPolicy /\ cur.policy \in InForce
           /\ k \in Entries(cur.policy) /\ policy_map'[k] = cur.policy.action
  BY <1>1, <1>3
<1> QED
  BY <1>2, <1>3, NextEntry

\* Every step leaves a frame in the program granted what the loop knows.
LEMMA NextGranted == TypeOK /\ CurTodo /\ Granted /\ [Next]_vars => Granted'
<1> SUFFICES ASSUME MsTypeOK, Granted, [Next]_vars, frame' # NoFrame
             PROVE  Known' \subseteq frame'.grants /\ (old' # {} => frame'.stale)
  BY DEF TypeOK, Granted
<1> DEFINE Goal == Known' \subseteq frame'.grants /\ (old' # {} => frame'.stale)
<1>t. frame # NoFrame => frame \in FramesIn
  BY MsTypes
<1>1. CASE Follow
  <2> DEFINE k == Known'
             o == old'
  <2>1. frame # NoFrame
    BY <1>1 DEF Follow
  <2>2. frame' = [frame EXCEPT !.grants = @ \cup k, !.stale = @ \/ o # {}]
    BY <1>1, <2>1 DEF Follow
  <2> HIDE DEF k, o
  <2>3. frame'.grants = frame.grants \cup k /\ frame'.stale = (frame.stale \/ o # {})
    BY <1>t, <2>1, <2>2 DEF FramesIn
  <2> QED
    BY <2>3 DEF k, o
<1>2. ASSUME NEW f \in Frames, FrameArrives(f) PROVE Goal
  <2>1. frame'.grants = Known /\ frame'.stale = (old # {}) /\ UNCHANGED loopVars
    BY <1>2 DEF FrameArrives, EnforceBegins, Judge
  <2> QED
    BY <2>1 DEF Known, loopVars
<1>3. CASE LookupMisses
  <2>1. frame \in FramesIn /\ frame # NoFrame
    BY <1>3, <1>t DEF LookupMisses
  <2>2. frame'.grants = frame.grants /\ frame'.stale = frame.stale /\ UNCHANGED loopVars
    BY <1>3, <2>1 DEF LookupMisses, FramesIn
  <2> QED
    BY <2>1, <2>2 DEF Granted, Known, loopVars
<1>4. CASE UNCHANGED <<loopVars, frame>>
  BY <1>4 DEF Granted, Known, loopVars
<1> QED
  BY <1>1, <1>2, <1>3, <1>4, FrameSteps DEF vars, msVars, LookupHits, LookupDefault, Judge

\* Every step keeps contexts with a program where an XDP_ATTACH was carried out.
LEMMA NextProgArmed == TypeOK /\ ProgArmed /\ [Next]_vars => ProgArmed'
<1> SUFFICES ASSUME NetTypeOK, ProgArmed, [Next]_vars PROVE ProgArmed'
  BY DEF TypeOK
<1>c. ctxs \in Seq(Contexts)
  BY DEF NetTypeOK, Contexts
<1>1. ASSUME NEW v \in Vms, VmAdd(v) PROVE ProgArmed'
  <2>1. ctxs' = <<NewCtx(v)>> \o ctxs /\ armed' = armed /\ NewCtx(v).xdp_prog = NoProg
    BY <1>1 DEF VmAdd, NewCtx
  <2> DEFINE c == NewCtx(v)
  <2> HIDE DEF c
  <2>2. \A i \in DOMAIN (<<c>> \o ctxs) :
          \/ (<<c>> \o ctxs)[i] = c
          \/ \E j \in DOMAIN ctxs : (<<c>> \o ctxs)[i] = ctxs[j]
    BY <1>c
  <2> QED
    BY <2>1, <2>2 DEF ProgArmed, c
<1>2. ASSUME NEW v \in Vms, NEW keep \in BOOLEAN, VmDel(v, keep) PROVE ProgArmed'
  <2> DEFINE i == Find(vm_num[v])
  <2>1. i \in 1 .. Len(ctxs)
    BY <1>2, FindFound DEF VmDel
  <2> HIDE DEF i
  <2>2. ctxs' = Without(i) /\ armed' = armed
    BY <1>2 DEF VmDel, i
  <2>3. \A j \in DOMAIN Without(i) : \E m \in DOMAIN ctxs : Without(i)[j] = ctxs[m]
    BY <1>c, <2>1 DEF Without
  <2> QED
    BY <2>2, <2>3 DEF ProgArmed
<1>3. ASSUME NEW id \in Ids, NEW p \in Progs, XdpAttach(id, p) PROVE ProgArmed'
  <2> DEFINE i == Find(id)
             c == [ctxs[i] EXCEPT !.xdp_prog = p]
  <2>1. i \in 1 .. Len(ctxs) /\ ctxs[i] \in Contexts
    BY <1>3, <1>c, FindFound DEF XdpAttach
  <2>2. ctxs' = [ctxs EXCEPT ![i] = c] /\ armed' = armed \cup {ctxs[i].uplink}
    BY <1>3 DEF XdpAttach
  <2>3. c.uplink = ctxs[i].uplink
    BY <2>1 DEF Contexts
  <2> HIDE DEF i, c
  <2> QED
    BY <2>2, <2>3 DEF ProgArmed
<1>4. ASSUME NEW id \in Ids, NEW keep \in BOOLEAN, XdpDetach(id, keep) PROVE ProgArmed'
  <2> DEFINE i == Find(id)
             c == [ctxs[i] EXCEPT !.xdp_prog = NoProg]
  <2>1. i \in 1 .. Len(ctxs) /\ ctxs[i] \in Contexts
    BY <1>4, <1>c, FindFound DEF XdpDetach
  <2>2. ctxs' = [ctxs EXCEPT ![i] = c] /\ armed' = armed
    BY <1>4 DEF XdpDetach
  <2>3. c.xdp_prog = NoProg
    BY <2>1 DEF Contexts
  <2> HIDE DEF i, c
  <2> QED
    BY <2>2, <2>3 DEF ProgArmed
<1>5. CASE UNCHANGED <<ctxs, armed>>
  BY <1>5 DEF ProgArmed
<1> QED
  BY <1>1, <1>2, <1>3, <1>4, <1>5
  DEF Next, NetNext, VmAddFails, VmGone, XdpAttachFails, MsRestart, netVars, vars, FrameArrives

\* Every step keeps the micro-segmentation program on an uplink without XDP_ATTACH.
LEMMA NextEnforced == TypeOK /\ ProgArmed /\ Enforced /\ [Next]_vars => Enforced'
<1> SUFFICES ASSUME NetTypeOK, ProgArmed, Enforced, [Next]_vars, MsUplink \notin armed'
             PROVE  xdp'[MsUplink] = MsProg
  BY DEF TypeOK, Enforced
<1> USE DatapathAssumption
<1>c. ctxs \in Seq(Contexts)
  BY DEF NetTypeOK, Contexts
<1>1. ASSUME NEW v \in Vms, NEW keep \in BOOLEAN, VmDel(v, keep) PROVE xdp'[MsUplink] = MsProg
  <2> DEFINE i == Find(vm_num[v])
  <2>1. i \in DOMAIN ctxs
    BY <1>1, <1>c, FindFound DEF VmDel
  <2>2. XdpOff(ctxs[i], keep) /\ armed' = armed
    BY <1>1 DEF VmDel
  <2> HIDE DEF i
  <2> QED
    BY <2>1, <2>2 DEF ProgArmed, Enforced, XdpOff
<1>2. ASSUME NEW id \in Ids, NEW p \in Progs, XdpAttach(id, p) PROVE xdp'[MsUplink] = MsProg
  <2>1. /\ xdp' = [xdp EXCEPT ![ctxs[Find(id)].uplink] = p]
        /\ armed' = armed \cup {ctxs[Find(id)].uplink}
    BY <1>2 DEF XdpAttach
  <2> QED
    BY <2>1 DEF Enforced, NetTypeOK
<1>3. ASSUME NEW id \in Ids, NEW keep \in BOOLEAN, XdpDetach(id, keep)
      PROVE  xdp'[MsUplink] = MsProg
  <2> DEFINE i == Find(id)
  <2>1. i \in DOMAIN ctxs
    BY <1>3, <1>c, FindFound DEF XdpDetach
  <2>2. XdpOff(ctxs[i], keep) /\ armed' = armed
    BY <1>3 DEF XdpDetach
  <2> HIDE DEF i
  <2> QED
    BY <2>1, <2>2 DEF ProgArmed, Enforced, XdpOff
<1>4. CASE MsRestart
  BY <1>4 DEF MsRestart, NetTypeOK
<1>5. CASE UNCHANGED <<xdp, armed>>
  BY <1>5 DEF Enforced
<1> QED
  BY <1>1, <1>2, <1>3, <1>4, <1>5
  DEF Next, NetNext, VmAdd, VmAddFails, VmGone, XdpAttachFails, netVars, vars, FrameArrives

\* A frame is let through by a policy the loop knows, an entry left of another one, or the
\* default of its destination.
LEMMA NextDefaultDeny ==
  TypeOK /\ MapExplained /\ Granted /\ Enforced /\ DefaultDeny /\ [Next]_vars => DefaultDeny'
<1> SUFFICES ASSUME MsTypeOK, MapExplained, Granted, Enforced, DefaultDeny, [Next]_vars
             PROVE  DefaultDeny'
  BY DEF TypeOK
<1> USE MicrosegAssumption
<1>f. frame # NoFrame => frame \in FramesIn
  BY MsTypes
<1>1. CASE LookupHits
  <2> DEFINE k == LookupKey(frame.frame, frame.stage)
  <2>1. frame.frame \in Frames /\ frame.stage \in 1 .. 3 /\ k \in MapKeys /\ frame # NoFrame
    BY <1>1, <1>f, LookupInMap DEF LookupHits, FramesIn
  <2>2. /\ policy_map[k] # NoVerdict
        /\ out' = [frame |-> frame.frame, verdict |-> policy_map[k],
                   grants |-> frame.grants, stale |-> frame.stale]
    BY <1>1 DEF LookupHits, Judge
  <2>3. policy_map[k] \in Verdicts
    BY <2>1, <2>2 DEF MsTypeOK
  <2>4. PICK p \in InForce : k \in Entries(p) /\ p.action = policy_map[k]
    BY <2>1, <2>2 DEF MapExplained
  <2>5. CASE p \in old
    BY <2>1, <2>2, <2>5 DEF Granted, DefaultDeny
  <2>6. CASE p \in Known
    <3>1. p \in frame.grants /\ p \in Policies
      BY <2>1, <2>6, InForceTyped DEF Granted
    <3>2. Covers(p, frame.frame)
      BY <2>1, <2>4, <3>1, LookupCovers
    <3>3. p.action \in Lets => Explicit(out')
      BY <2>2, <3>1, <3>2 DEF Explicit
    <3>4. out'.verdict = p.action /\ p.action # "PASS"
      BY <2>2, <2>3, <2>4 DEF Verdicts
    <3> QED
      BY <3>3, <3>4 DEF DefaultDeny, Passed
  <2> QED
    BY <2>4, <2>5, <2>6 DEF InForce
<1>2. CASE LookupDefault
  <2>1. frame.frame.dst \in Identities
    BY <1>2, <1>f DEF LookupDefault, FrameType, FramesIn
  <2> DEFINE d == default_policy[frame.frame.dst]
  <2>2. d \in Verdicts \cup {NoVerdict}
    BY <2>1
  <2>3. out' = [frame |-> frame.frame, verdict |-> IF d = NoVerdict THEN "DENY" ELSE d,
                grants |-> frame.grants, stale |-> frame.stale]
    BY <1>2 DEF LookupDefault, Judge
  <2>4. out'.verdict \in Lets \cup {"PASS"} => d \in Lets
    BY <2>2, <2>3 DEF Verdicts, Lets
  <2>5. d \in Lets => Explicit(out')
    BY <2>3 DEF Explicit
  <2> QED
    BY <2>4, <2>5 DEF DefaultDeny, Passed
<1>3. ASSUME NEW f \in Frames, FrameArrives(f) PROVE DefaultDeny'
  <2>1. CASE xdp[MsUplink] = MsProg
    <3>1. EnforceBegins(f)
      BY <1>3, <2>1 DEF FrameArrives
    <3>2. CASE out' = NoFrame
      BY <3>2 DEF DefaultDeny, Passed
    <3>3. ASSUME NEW v, Judge(f, v, Known, old # {}), f.net \in {"other", "short"}
          PROVE  DefaultDeny'
      <4>1. out'.frame.net \notin {"ip4", "ip6"}
        BY <3>3 DEF Judge
      <4> QED
        BY <4>1 DEF DefaultDeny, Passed
    <3> QED
      BY <3>1, <3>2, <3>3 DEF EnforceBegins
  <2>2. CASE xdp[MsUplink] # MsProg
    <3>1. MsUplink \in armed'
      BY <1>3, <2>2 DEF FrameArrives, Enforced, netVars
    <3> QED
      BY <3>1 DEF DefaultDeny
  <2> QED
    BY <2>1, <2>2
<1>4. CASE out' = NoFrame
  BY <1>4 DEF DefaultDeny, Passed
<1>5. CASE UNCHANGED vars
  BY <1>5 DEF vars, msVars, netVars, DefaultDeny, Passed
<1> QED
  BY <1>1, <1>2, <1>3, <1>4, <1>5, FrameSteps DEF Follow, LookupMisses

-----------------------------------------------------------------------------
(***************************************************************************)
(* References to programs.                                                 *)
(***************************************************************************)

\* The devices that run a program.
Runs(x, q) == {u \in Uplinks : x[u] = q}

\* All devices but u run the same.
Same(x, y, u) == \A w \in Uplinks \ {u} : y[w] = x[w]

\* They are finitely many.
LEMMA RunsFinite ==
  ASSUME NEW x, NEW q
  PROVE  IsFiniteSet(Runs(x, q)) /\ Cardinality(Runs(x, q)) \in Nat
<1>1. Runs(x, q) \in SUBSET Uplinks
  BY DEF Runs
<1>2. IsFiniteSet(Runs(x, q))
  BY <1>1, FS_Subset, CaimanNetAssumption
<1> QED
  BY <1>2, FS_CardinalityType

\* A device that runs another program.
LEMMA RunsExcept ==
  ASSUME NEW x, NEW y, NEW u \in Uplinks, NEW q, Same(x, y, u)
  PROVE  Cardinality(Runs(y, q)) =
           (Cardinality(Runs(x, q)) - One(x[u] = q)) + One(y[u] = q)
<1> DEFINE A == Runs(x, q)
           B == Runs(y, q)
<1>1. IsFiniteSet(A) /\ Cardinality(A) \in Nat /\ IsFiniteSet(B) /\ Cardinality(B) \in Nat
  BY RunsFinite
<1>2. A \ {u} = B \ {u} /\ (u \in A <=> x[u] = q) /\ (u \in B <=> y[u] = q)
  BY DEF Runs, Same
<1> HIDE DEF A, B
<1>3. /\ Cardinality(A \ {u}) = IF u \in A THEN Cardinality(A) - 1 ELSE Cardinality(A)
      /\ Cardinality(B \ {u}) = IF u \in B THEN Cardinality(B) - 1 ELSE Cardinality(B)
  BY <1>1, FS_RemoveElement
<1>4. Cardinality(A \ {u}) = Cardinality(A) - One(x[u] = q)
  BY <1>1, <1>2, <1>3 DEF One
<1>5. Cardinality(B \ {u}) = Cardinality(B) - One(y[u] = q)
  BY <1>1, <1>2, <1>3 DEF One
<1>6. Cardinality(A) - One(x[u] = q) = Cardinality(B) - One(y[u] = q)
  BY <1>2, <1>4, <1>5
<1>7. One(x[u] = q) \in {0, 1} /\ One(y[u] = q) \in {0, 1}
  BY DEF One
<1>8. Cardinality(B) = (Cardinality(A) - One(x[u] = q)) + One(y[u] = q)
  BY <1>1, <1>6, <1>7
<1> QED
  BY <1>8 DEF A, B

\* A context that is detached from its uplink leaves no reference behind.
LEMMA DetachBounded ==
  ASSUME NetTypeOK, NoReferenceLeaks, NEW c \in Contexts, NEW keep \in BOOLEAN,
         XdpOff(c, keep), refs' = Detached(c, keep)
  PROVE  NoReferenceLeaks'
<1> SUFFICES ASSUME NEW q \in Progs PROVE refs'[q] <= Cardinality(Runs(xdp', q))
  BY DEF NoReferenceLeaks, Runs
<1> USE CaimanNetAssumption
<1>t. /\ xdp \in [Uplinks -> Progs \cup {NoProg}] /\ refs[q] \in Int /\ c.uplink \in Uplinks
      /\ refs[q] <= Cardinality(Runs(xdp, q)) /\ Cardinality(Runs(xdp, q)) \in Nat
  <2>1. Cardinality(Runs(xdp, q)) \in Nat
    BY RunsFinite
  <2>2. refs[q] <= Cardinality(Runs(xdp, q))
    BY DEF NoReferenceLeaks, Runs
  <2> QED
    BY <2>1, <2>2 DEF NetTypeOK, Contexts
<1>1. CASE c.xdp_prog = NoProg
  <2>1. xdp' = xdp /\ refs' = refs
    BY <1>1, <1>t, DetachedPuts DEF XdpOff
  <2> QED
    BY <1>t, <2>1
<1>2. CASE c.xdp_prog # NoProg /\ keep
  <2>1. xdp' = xdp
    BY <1>2, <1>t DEF XdpOff
  <2>2. refs'[q] = (refs[q] - One(~keep /\ xdp[c.uplink] = q)) - One(c.xdp_prog = q)
    BY <1>2, DetachedPuts
  <2>3. One(~keep /\ xdp[c.uplink] = q) \in {0, 1} /\ One(c.xdp_prog = q) \in {0, 1}
    BY DEF One
  <2> QED
    BY <1>t, <2>1, <2>2, <2>3
<1>3. CASE c.xdp_prog # NoProg /\ ~keep
  <2>1. xdp' = [xdp EXCEPT ![c.uplink] = NoProg]
    BY <1>3 DEF XdpOff
  <2>2. refs'[q] = (refs[q] - One(xdp[c.uplink] = q)) - One(c.xdp_prog = q)
    BY <1>3, DetachedPuts DEF One
  <2>3. Same(xdp, xdp', c.uplink) /\ xdp'[c.uplink] = NoProg
    BY <1>t, <2>1 DEF Same
  <2>4. Cardinality(Runs(xdp', q)) =
          (Cardinality(Runs(xdp, q)) - One(xdp[c.uplink] = q)) + One(xdp'[c.uplink] = q)
    BY <1>t, <2>3, RunsExcept
  <2> QED
    BY <1>t, <2>2, <2>3, <2>4 DEF One
<1> QED
  BY <1>1, <1>2, <1>3

\* Every step keeps the references within the devices that hold them.
LEMMA NextNoLeaks == TypeOK /\ NoReferenceLeaks /\ [Next]_vars => NoReferenceLeaks'
<1> SUFFICES ASSUME NetTypeOK, NoReferenceLeaks, [Next]_vars PROVE NoReferenceLeaks'
  BY DEF TypeOK
<1> USE CaimanNetAssumption
<1>c. ctxs \in Seq(Contexts)
  BY DEF NetTypeOK, Contexts
<1>1. ASSUME NEW v \in Vms, NEW keep \in BOOLEAN, VmDel(v, keep) PROVE NoReferenceLeaks'
  <2> DEFINE c == ctxs[Find(vm_num[v])]
  <2>1. c \in Contexts
    BY <1>1, <1>c, FindFound DEF VmDel
  <2>2. XdpOff(c, keep) /\ refs' = Detached(c, keep)
    BY <1>1 DEF VmDel
  <2> HIDE DEF c
  <2> QED
    BY <2>1, <2>2, DetachBounded
<1>2. ASSUME NEW id \in Ids, NEW keep \in BOOLEAN, XdpDetach(id, keep) PROVE NoReferenceLeaks'
  <2> DEFINE c == ctxs[Find(id)]
  <2>1. c \in Contexts
    BY <1>2, <1>c, FindFound DEF XdpDetach
  <2>2. XdpOff(c, keep) /\ refs' = Detached(c, keep)
    BY <1>2 DEF XdpDetach
  <2> HIDE DEF c
  <2> QED
    BY <2>1, <2>2, DetachBounded
<1>3. ASSUME NEW u \in Uplinks, NEW p \in Progs, NEW was \in Progs \cup {NoProg},
             xdp' = [xdp EXCEPT ![u] = p],
             LET r == Put([refs EXCEPT ![p] = @ + 1], xdp[u]) IN refs' \in {r, Put(r, was)}
      PROVE  NoReferenceLeaks'
  <2> SUFFICES ASSUME NEW q \in Progs PROVE refs'[q] <= Cardinality(Runs(xdp', q))
    BY DEF NoReferenceLeaks, Runs
  <2>a. xdp \in [Uplinks -> Progs \cup {NoProg}] /\ refs[q] \in Int
    BY DEF NetTypeOK
  <2>b. refs[q] <= Cardinality(Runs(xdp, q))
    BY DEF NoReferenceLeaks, Runs
  <2>1. /\ xdp \in [Uplinks -> Progs \cup {NoProg}] /\ refs[q] \in Int
        /\ refs[q] <= Cardinality(Runs(xdp, q)) /\ Cardinality(Runs(xdp, q)) \in Nat
    BY <2>a, <2>b, RunsFinite
  <2>2. Same(xdp, xdp', u) /\ xdp'[u] = p
    BY <1>3, <2>1 DEF Same
  <2>3. Cardinality(Runs(xdp', q)) =
          (Cardinality(Runs(xdp, q)) - One(xdp[u] = q)) + One(xdp'[u] = q)
    BY <2>2, RunsExcept
  <2>4. \/ refs'[q] = (refs[q] + One(p = q)) - One(xdp[u] = q)
        \/ refs'[q] = ((refs[q] + One(p = q)) - One(xdp[u] = q)) - One(was = q)
    BY <1>3, AttachPuts
  <2> QED
    BY <2>1, <2>3, <2>4, <2>2 DEF One
<1>4. ASSUME NEW id \in Ids, NEW p \in Progs, XdpAttach(id, p) PROVE NoReferenceLeaks'
  <2> DEFINE c == ctxs[Find(id)]
  <2>1. c \in Contexts
    BY <1>4, <1>c, FindFound DEF XdpAttach
  <2>2. /\ xdp' = [xdp EXCEPT ![c.uplink] = p]
        /\ refs' = Put(Put([refs EXCEPT ![p] = @ + 1], xdp[c.uplink]), c.xdp_prog)
    BY <1>4 DEF XdpAttach
  <2> HIDE DEF c
  <2> QED
    BY <1>3, <2>1, <2>2 DEF Contexts
<1>5. CASE MsRestart
  <2>1. /\ xdp' = [xdp EXCEPT ![MsUplink] = MsProg]
        /\ refs' = Put([refs EXCEPT ![MsProg] = @ + 1], xdp[MsUplink])
    BY <1>5 DEF MsRestart
  <2> QED
    BY <1>3, <2>1, DatapathAssumption
<1>6. CASE UNCHANGED <<xdp, refs>>
  BY <1>6 DEF NoReferenceLeaks
<1>7. ASSUME NEW id \in Ids, NEW p \in Progs, XdpAttachFails(id, p)
      PROVE  UNCHANGED <<xdp, refs>>
  BY <1>7 DEF XdpAttachFails, NetTypeOK
<1> QED
  BY <1>1, <1>2, <1>4, <1>5, <1>6, <1>7
  DEF Next, NetNext, VmAdd, VmAddFails, VmGone, netVars, vars, FrameArrives

-----------------------------------------------------------------------------
(***************************************************************************)
(* The theorems.                                                           *)
(***************************************************************************)

\* The daemon is in its loop with an empty map, and caiman_net has no contexts.
LEMMA InitIInv == Init => IInv
<1> SUFFICES ASSUME Init PROVE IInv
  OBVIOUS
<1> USE MicrosegAssumption, CaimanNetAssumption, DatapathAssumption
<1>1. MsTypeOK
  <2>1. desired \in [Names -> Policies \cup {NoPolicy}] /\ policies = desired
    BY DEF Init, MsInit
  <2>2. policy_map \in [MapKeys -> Verdicts \cup {NoVerdict}]
    BY DEF Init, MsInit
  <2>3. chan \in Seq([name: Names, policy: Policies \cup {NoPolicy}])
    BY DEF Init, MsInit
  <2>4. /\ events \in 0 .. MaxEvents /\ faults \in 0 .. MaxFaults
        /\ loop = "recv" /\ cur = NoPolicy
        /\ todo = {} /\ refill = {} /\ old = {} /\ failed = FALSE /\ watching = TRUE
        /\ frame = NoFrame /\ out = NoFrame
    BY DEF Init, MsInit
  <2> QED
    BY <2>1, <2>2, <2>3, <2>4 DEF MsTypeOK
<1>2. xdp \in [Uplinks -> Progs \cup {NoProg}] /\ xdp[MsUplink] = MsProg
      /\ refs = [p \in Progs |-> Cardinality(Runs(xdp, p))] /\ ctxs = <<>>
  BY DEF Init, NetInit, Runs
<1>3. refs \in [Progs -> Int]
  BY <1>2, RunsFinite
<1>4. NetTypeOK
  <2>1. ctxs \in Seq([vm_id: Ids, uplink: Uplinks, xdp_prog: Progs \cup {NoProg}])
    BY <1>2
  <2>2. /\ vmm \in [Vms -> {"off", "bare", "added"}]
        /\ adds \in 0 .. MaxAdds /\ cmds \in 0 .. MaxCmds /\ armed \subseteq Uplinks
    BY DEF Init, NetInit
  <2> QED
    BY <1>2, <1>3, <2>1, <2>2 DEF NetTypeOK
<1>5. MsInv
  BY DEF Init, MsInit, MsInv, CurTodo, CurWritten, KnownWritten, MapExplained, Granted
<1>6. ProgArmed
  BY <1>2 DEF ProgArmed
<1>7. NoReferenceLeaks
  <2>1. ASSUME NEW p \in Progs PROVE refs[p] <= Cardinality(Runs(xdp, p))
    BY <1>2, RunsFinite
  <2> QED
    BY <2>1 DEF NoReferenceLeaks, Runs
<1>8. Enforced /\ DefaultDeny
  BY <1>2 DEF Init, MsInit, Enforced, DefaultDeny, Passed
<1> QED
  BY <1>1, <1>4, <1>5, <1>6, <1>7, <1>8 DEF IInv, TypeOK, NetInv

\* Every step of either program preserves the invariant.
LEMMA NextIInv == IInv /\ [Next]_vars => IInv'
BY MsTyped, NetTyped, NextCurTodo, NextWritten, NextExplained, NextGranted, NextProgArmed,
   NextNoLeaks, NextEnforced, NextDefaultDeny
DEF IInv, TypeOK, MsInv, NetInv

\* The invariant holds in every behaviour of the node's uplink.
THEOREM DatapathInvariant == Spec => []IInv
BY InitIInv, NextIInv, PTL DEF Spec

\* Types hold for any policies, frames, virtual machines and programs.
THEOREM TypeCorrect == Spec => []TypeOK
BY DatapathInvariant, PTL DEF IInv

\* Every entry of the policy map is explained by a policy that may be in the map, whatever
\* fails or restarts and however the policies overlap.
THEOREM EntriesExplained == Spec => []MapExplained
BY DatapathInvariant, PTL DEF IInv, MsInv

\* Between two events, when nothing was replaced, lost or left unwritten since the last
\* clear, the map has an entry exactly where a policy the loop knows has one, and its
\* verdict is that of such a policy.
THEOREM EntriesExact == Spec => []MapExact
<1>1. ASSUME IInv, Settled, NEW k \in MapKeys
      PROVE  IF Claims(k) = {} THEN policy_map[k] = NoVerdict
             ELSE policy_map[k] \in {p.action : p \in Claims(k)}
  <2>1. /\ MsTypeOK /\ CurTodo /\ KnownWritten /\ MapExplained
        /\ loop \in {"recv", "ended"} /\ ~failed /\ old = {} /\ cur = NoPolicy /\ refill = {}
    BY <1>1 DEF IInv, TypeOK, MsInv, Settled, MsTypeOK, CurTodo
  <2>2. policy_map[k] # NoVerdict => \E p \in Claims(k) : p.action = policy_map[k]
    BY <2>1 DEF MapExplained, InForce, Known, Claims
  <2>3. ASSUME NEW p \in Claims(k) PROVE policy_map[k] # NoVerdict
    <3>1. PICK n \in Names : policies[n] = p /\ k \in Entries(p) /\ p \in Policies
      BY DEF Claims
    <3>2. policies[n] # NoPolicy
      BY <3>1, MicrosegAssumption
    <3> QED
      BY <2>1, <3>1, <3>2 DEF KnownWritten
  <2> QED
    BY <2>2, <2>3
<1>2. IInv => MapExact
  BY <1>1 DEF MapExact
<1> QED
  BY <1>2, DatapathInvariant, PTL

\* The uplink runs the micro-segmentation program until an XDP_ATTACH for it is carried out.
THEOREM StaysEnforced == Spec => []Enforced
BY DatapathInvariant, PTL DEF IInv

\* Unless entries of replaced or lost policies are in the map or an XDP_ATTACH took the
\* program off, no IP frame passes the uplink that neither a policy the loop knew while
\* it was judged nor the default of its destination lets, although the map changes
\* between the lookups for it.
THEOREM DeniedByDefault == Spec => []DefaultDeny
BY DatapathInvariant, PTL DEF IInv

\* caiman_net and the daemon leave no reference to a program behind.
THEOREM NothingLeaks == Spec => []NoReferenceLeaks
BY DatapathInvariant, PTL DEF IInv, NetInv

=============================================================================

------------------------------ MODULE Microseg ------------------------------
(***************************************************************************)
(* Micro-segmentation: the policy loop of caiman-microseg, which compiles  *)
(* MicroSegPolicy objects into a BPF hash map (microseg/src/compiler.rs),  *)
(* and the XDP program that judges each frame by looking into that map     *)
(* several times while it changes (microseg/ebpf/xdp_microseg.c).          *)
(*                                                                         *)
(* labels_to_identity hashes a label set; an identity is here the label    *)
(* set itself.  The priority of a policy, which compile_policy writes      *)
(* beside the verdict, is never read back, and left out.  Every map        *)
(* operation is one step, on either side.                                  *)
(***************************************************************************)
EXTENDS Naturals, Sequences, FiniteSets, Functions

CONSTANTS
  Names,           \* namespace/name of the policy objects
  Policies,        \* the specs an object may have, see PolicyType
  Identities,      \* label sets, and Unknown
  Unknown,         \* IDENTITY_UNKNOWN: the MAC is not in identity_map
  Frames,          \* the frames that arrive, see FrameType
  default_policy,  \* default_policy_map: a verdict or NoVerdict for each identity
  NoVerdict,       \* no entry in a map
  NoPolicy,        \* no object of that name
  NoFrame,         \* no frame is being judged
  MaxEvents,       \* bound: changes of policy objects
  MaxFaults        \* bound: failing map operations, crashes, watchers that end

Verdicts == {"ALLOW", "DENY", "LOG"}
Lets == {"ALLOW", "LOG"}

TCP == 6
UDP == 17

\* 0 is "any" for protocol and port, in a policy entry and in a lookup.
PolicyType ==
  [action: Verdicts, from: SUBSET Identities, to: SUBSET Identities,
   ports: SUBSET (Nat \X Nat)]

\* src and dst are what identity_map has for the two MACs of the frame.
FrameType ==
  [net: {"ip4", "ip6", "other", "short"}, src: Identities, dst: Identities,
   proto: Nat, port: Nat]

Key(s, d, proto, port) == [src |-> s, dst |-> d, proto |-> proto, port |-> port]

\* compile_policy: the keys it writes for a policy
Entries(p) ==
  {Key(s, d, pp[1], pp[2]) :
     s \in p.from, d \in p.to, pp \in IF p.ports = {} THEN {<<0, 0>>} ELSE p.ports}

\* xdp_microseg_enforce parses the headers of IPv4 only, ports of TCP and UDP only.
ProtoOf(f) == IF f.net = "ip4" THEN f.proto ELSE 0
PortOf(f) == IF f.net = "ip4" /\ f.proto \in {TCP, UDP} THEN f.port ELSE 0

\* lookup_verdict: exact, then any port, then any protocol
LookupKey(f, stage) ==
  CASE stage = 1 -> Key(f.src, f.dst, ProtoOf(f), PortOf(f))
    [] stage = 2 -> Key(f.src, f.dst, ProtoOf(f), 0)
    [] stage = 3 -> Key(f.src, f.dst, 0, 0)

\* The keys that matter: those of the policies and of the lookups.
MapKeys ==
  (UNION {Entries(p) : p \in Policies}) \cup {LookupKey(f, i) : f \in Frames, i \in 1 .. 3}

ASSUME MicrosegAssumption ==
  /\ Policies \subseteq PolicyType
  /\ Frames \subseteq FrameType
  /\ Unknown \in Identities
  /\ \A p \in Policies : Unknown \notin p.from \cup p.to
  /\ NoVerdict \notin Verdicts
  /\ NoPolicy \notin Policies \cup [name: Names, policy: Policies]
  /\ IsFiniteSet(Names)
  /\ default_policy \in [Identities -> Verdicts \cup {NoVerdict}]
  /\ MaxEvents \in Nat /\ MaxFaults \in Nat

VARIABLES
  desired,      \* the objects in the cluster, [Names -> policy or NoPolicy]
  chan,         \* events from the watcher: [name, policy], NoPolicy for Deleted
  watching,     \* the watcher's task holds its end of the channel
  events, faults,
  policies,     \* policy_loop's HashMap
  loop,         \* "recv", "compile", "refill" (recompile_all), "rewrite" (in it), "ended"
  cur,          \* what compile_policy is writing, [name, policy], or NoPolicy
  todo,         \* the entries it has yet to write
  refill,       \* recompile_all: names it has yet to compile
  policy_map,   \* [MapKeys -> verdict or NoVerdict]
  old,          \* ghost: policies replaced or lost since the map was last cleared
  failed,       \* ghost: an entry was not written since the map was last cleared
  frame,        \* the frame in the XDP program: [frame, stage, grants, stale] or NoFrame
  out           \* the judgement of this step: [frame, verdict, grants, stale] or NoFrame

loopVars == <<policies, loop, cur, todo, refill, policy_map, old, failed>>
clusterVars == <<desired, chan, watching, events>>
msVars == <<clusterVars, faults, loopVars, frame, out>>

MsInit ==
  /\ desired = [n \in Names |-> NoPolicy] /\ chan = <<>> /\ watching = TRUE
  /\ events = 0 /\ faults = 0
  /\ policies = desired /\ loop = "recv" /\ cur = NoPolicy /\ todo = {} /\ refill = {}
  /\ policy_map = [k \in MapKeys |-> NoVerdict]
  /\ old = {} /\ failed = FALSE
  /\ frame = NoFrame /\ out = NoFrame

\* The policies policy_loop knows, with the one it is compiling.
Known ==
  {p \in Policies :
     (\E n \in Names : policies[n] = p) \/ (cur # NoPolicy /\ cur.policy = p)}

\* The policies whose entries may be in the map.
InForce == Known \cup old

-----------------------------------------------------------------------------
(***************************************************************************)
(* The cluster and the watcher (external: watcher.rs is not in the         *)
(* repository).                                                            *)
(***************************************************************************)

\* An object is created, changed or deleted.  Added and Modified are the same to
\* policy_loop.
Change(n, p) ==
  /\ events < MaxEvents
  /\ desired[n] # p
  /\ desired' = [desired EXCEPT ![n] = p]
  /\ chan' = IF watching THEN Append(chan, [name |-> n, policy |-> p]) ELSE chan
  /\ events' = events + 1
  /\ UNCHANGED <<watching, faults, loopVars, frame>>
  /\ out' = NoFrame

\* watch_policies returns or panics, and its end of the channel is dropped.
WatcherEnds ==
  /\ watching /\ loop # "ended"
  /\ faults < MaxFaults
  /\ faults' = faults + 1
  /\ watching' = FALSE
  /\ UNCHANGED <<desired, chan, events, loopVars, frame>>
  /\ out' = NoFrame

-----------------------------------------------------------------------------
(***************************************************************************)
(* policy_loop                                                             *)
(***************************************************************************)

\* A frame inside the XDP program meets the map as it is from now on: the policies the
\* loop knows, and whether the map may hold entries of policies it does not.
Follow ==
  /\ frame' = IF frame = NoFrame THEN NoFrame
              ELSE [frame EXCEPT !.grants = @ \cup Known', !.stale = @ \/ old' # {}]
  /\ out' = NoFrame

\* Added and Modified: the new version is compiled on top of what is in the map.
RecvApply ==
  /\ loop = "recv" /\ chan # <<>> /\ Head(chan).policy # NoPolicy
  /\ cur' = Head(chan) /\ todo' = Entries(Head(chan).policy)
  /\ chan' = Tail(chan)
  /\ loop' = "compile"
  /\ UNCHANGED <<desired, watching, events, faults, policies, refill, policy_map, old, failed>>
  /\ Follow

\* maps::update_policy_entry.  The order of the entries is the policy's own.
WriteEntry(k) ==
  /\ k \in todo
  /\ policy_map' = [policy_map EXCEPT ![k] = cur.policy.action]
  /\ todo' = todo \ {k}
  /\ UNCHANGED <<clusterVars, faults, policies, loop, cur, refill, old, failed>>
  /\ Follow

\* It fails, for instance because the map is full: compile_policy returns, its
\* caller logs a warning and goes on.
WriteFails ==
  /\ todo # {}
  /\ faults < MaxFaults
  /\ faults' = faults + 1
  /\ todo' = {} /\ failed' = TRUE
  /\ UNCHANGED <<clusterVars, policies, loop, cur, refill, policy_map, old>>
  /\ Follow

\* policies.insert(key, p)
Insert ==
  /\ loop = "compile" /\ todo = {}
  /\ old' = old \cup ({policies[cur.name]} \ {NoPolicy})
  /\ policies' = [policies EXCEPT ![cur.name] = cur.policy]
  /\ cur' = NoPolicy
  /\ loop' = "recv"
  /\ UNCHANGED <<clusterVars, faults, todo, refill, policy_map, failed>>
  /\ Follow

\* maps::clear_policy_map, whose error recompile_all ignores: what a failed clear
\* leaves is any part of the map.
Clear ==
  \/ /\ policy_map' = [k \in MapKeys |-> NoVerdict]
     /\ old' = {} /\ failed' = FALSE
     /\ UNCHANGED faults
  \/ /\ faults < MaxFaults
     /\ faults' = faults + 1
     /\ \E gone \in SUBSET {k \in MapKeys : policy_map[k] # NoVerdict} :
          policy_map' = [k \in MapKeys |-> IF k \in gone THEN NoVerdict ELSE policy_map[k]]
     /\ old' = old \cup ({policies[Head(chan).name]} \ {NoPolicy}) /\ failed' = TRUE

\* Mutant of RecvDeleted: recompile_all writes over the map without clearing it.
RecvDeletedKeeps ==
  /\ loop = "recv" /\ chan # <<>> /\ Head(chan).policy = NoPolicy
  /\ policies' = [policies EXCEPT ![Head(chan).name] = NoPolicy]
  /\ refill' = {n \in Names : policies'[n] # NoPolicy}
  /\ old' = {} /\ failed' = FALSE
  /\ chan' = Tail(chan)
  /\ loop' = "refill"
  /\ UNCHANGED <<desired, watching, events, faults, cur, todo, policy_map>>
  /\ Follow

\* Mutant of RecvDeleted: recompile_all goes through the names before one is removed.
RecvDeletedLate ==
  /\ loop = "recv" /\ chan # <<>> /\ Head(chan).policy = NoPolicy
  /\ policies' = [policies EXCEPT ![Head(chan).name] = NoPolicy]
  /\ refill' = {n \in Names : policies[n] # NoPolicy}
  /\ Clear
  /\ chan' = Tail(chan)
  /\ loop' = "refill"
  /\ UNCHANGED <<desired, watching, events, cur, todo>>
  /\ Follow

\* Deleted: the name is removed, and recompile_all begins with an empty map.
RecvDeleted ==
  /\ loop = "recv" /\ chan # <<>> /\ Head(chan).policy = NoPolicy
  /\ policies' = [policies EXCEPT ![Head(chan).name] = NoPolicy]
  /\ refill' = {n \in Names : policies'[n] # NoPolicy}
  /\ Clear
  /\ chan' = Tail(chan)
  /\ loop' = "refill"
  /\ UNCHANGED <<desired, watching, events, cur, todo>>
  /\ Follow

\* recompile_all takes the policies in the order of the HashMap, which is any.
Refill(n) ==
  /\ loop = "refill" /\ n \in refill
  /\ refill' = refill \ {n}
  /\ cur' = [name |-> n, policy |-> policies[n]] /\ todo' = Entries(policies[n])
  /\ loop' = "rewrite"
  /\ UNCHANGED <<clusterVars, faults, policies, policy_map, old, failed>>
  /\ Follow

Rewritten ==
  /\ loop = "rewrite" /\ todo = {}
  /\ cur' = NoPolicy
  /\ loop' = "refill"
  /\ UNCHANGED <<clusterVars, faults, policies, todo, refill, policy_map, old, failed>>
  /\ Follow

\* Mutant of Refilled: recompile_all returns after one policy.
RefilledEarly ==
  /\ loop = "refill"
  /\ loop' = "recv" /\ refill' = {}
  /\ UNCHANGED <<clusterVars, faults, policies, cur, todo, policy_map, old, failed>>
  /\ Follow

Refilled ==
  /\ loop = "refill" /\ refill = {}
  /\ loop' = "recv"
  /\ UNCHANGED <<clusterVars, faults, policies, cur, todo, refill, policy_map, old, failed>>
  /\ Follow

\* Mutant of LoopEnds: None => continue, on a channel that stays closed.
LoopEndsNever ==
  /\ loop = "recv" /\ chan = <<>> /\ ~watching
  /\ UNCHANGED <<clusterVars, faults, loopVars>>
  /\ Follow

\* rx.recv() gives None: policy_loop returns, and with it the daemon.
LoopEnds ==
  /\ loop = "recv" /\ chan = <<>> /\ ~watching
  /\ loop' = "ended"
  /\ UNCHANGED <<clusterVars, faults, policies, cur, todo, refill, policy_map, old, failed>>
  /\ Follow

\* run(), again: the HashMap is lost, the pinned maps stay, and the watcher lists the
\* objects there are, in any order.
Relist ==
  /\ old' = InForce
  /\ policies' = [n \in Names |-> NoPolicy]
  /\ loop' = "recv" /\ cur' = NoPolicy /\ todo' = {} /\ refill' = {}
  /\ LET live == {n \in Names : desired[n] # NoPolicy} IN
       \E order \in Bijection(1 .. Cardinality(live), live) :
         chan' = [i \in 1 .. Cardinality(live) |->
                    [name |-> order[i], policy |-> desired[order[i]]]]
  /\ watching' = TRUE
  /\ UNCHANGED <<desired, events, policy_map, failed>>
  /\ Follow

\* The daemon dies at any point, or has come to its end; its DaemonSet starts it again.
Crash == loop # "ended" /\ faults < MaxFaults /\ faults' = faults + 1 /\ Relist
Resume == loop = "ended" /\ faults' = faults /\ Relist

-----------------------------------------------------------------------------
(***************************************************************************)
(* xdp_microseg_enforce.  grants and stale are ghosts: the policies the    *)
(* loop has known while the frame was judged, and whether the map may have *)
(* held entries of others.  Statistics and audit events, which nothing     *)
(* reads back, are left out.                                               *)
(***************************************************************************)

Judge(f, verdict, grants, stale) ==
  /\ out' = [frame |-> f, verdict |-> verdict, grants |-> grants, stale |-> stale]
  /\ frame' = NoFrame

\* Truncated frames are aborted, and frames that are not IP go to the redirect
\* without a lookup.
EnforceBegins(f) ==
  /\ frame = NoFrame
  /\ \/ /\ f.net \in {"ip4", "ip6"}
        /\ frame' = [frame |-> f, stage |-> 1, grants |-> Known, stale |-> old # {}]
        /\ out' = NoFrame
     \/ f.net = "other" /\ Judge(f, "ALLOW", Known, old # {})
     \/ f.net = "short" /\ Judge(f, "ABORTED", Known, old # {})
  /\ UNCHANGED <<clusterVars, faults, loopVars>>

\* One of the three lookups finds an entry.
LookupHits ==
  /\ frame # NoFrame /\ frame.stage \in 1 .. 3
  /\ policy_map[LookupKey(frame.frame, frame.stage)] # NoVerdict
  /\ Judge(frame.frame, policy_map[LookupKey(frame.frame, frame.stage)], frame.grants, frame.stale)
  /\ UNCHANGED <<clusterVars, faults, loopVars>>

LookupMisses ==
  /\ frame # NoFrame /\ frame.stage \in 1 .. 3
  /\ policy_map[LookupKey(frame.frame, frame.stage)] = NoVerdict
  /\ frame' = [frame EXCEPT !.stage = @ + 1]
  /\ UNCHANGED <<clusterVars, faults, loopVars>>
  /\ out' = NoFrame

\* Mutant of LookupDefault: the default of the source identity.
LookupDefaultOfSource ==
  /\ frame # NoFrame /\ frame.stage = 4
  /\ LET d == default_policy[frame.frame.src] IN
       Judge(frame.frame, IF d = NoVerdict THEN "DENY" ELSE d, frame.grants, frame.stale)
  /\ UNCHANGED <<clusterVars, faults, loopVars>>

\* The default of the destination, or DENY.
LookupDefault ==
  /\ frame # NoFrame /\ frame.stage = 4
  /\ LET d == default_policy[frame.frame.dst] IN
       Judge(frame.frame, IF d = NoVerdict THEN "DENY" ELSE d, frame.grants, frame.stale)
  /\ UNCHANGED <<clusterVars, faults, loopVars>>

-----------------------------------------------------------------------------
PolicyLoop ==
  \/ RecvApply \/ Insert \/ RecvDeleted \/ Rewritten \/ Refilled \/ WriteFails \/ LoopEnds
  \/ \E k \in MapKeys : WriteEntry(k)
  \/ \E n \in Names : Refill(n)

Enforce == LookupHits \/ LookupMisses \/ LookupDefault

\* Everything but restarts and the arrival of frames, which concern the uplink too.
MsNext ==
  \/ \E n \in Names, p \in Policies \cup {NoPolicy} : Change(n, p)
  \/ WatcherEnds
  \/ PolicyLoop
  \/ Enforce

-----------------------------------------------------------------------------
(***************************************************************************)
(* Properties                                                              *)
(***************************************************************************)

\* The variables of policy_loop and of the XDP program have their types.
MsTypeOK ==
  /\ desired \in [Names -> Policies \cup {NoPolicy}]
  /\ chan \in Seq([name: Names, policy: Policies \cup {NoPolicy}])
  /\ watching \in BOOLEAN /\ events \in 0 .. MaxEvents /\ faults \in 0 .. MaxFaults
  /\ policies \in [Names -> Policies \cup {NoPolicy}]
  /\ loop \in {"recv", "compile", "refill", "rewrite", "ended"}
  /\ cur \in [name: Names, policy: Policies] \cup {NoPolicy}
  /\ (cur # NoPolicy) <=> (loop \in {"compile", "rewrite"})
  /\ todo \subseteq MapKeys /\ (todo # {} => cur # NoPolicy)
  /\ refill \subseteq {n \in Names : policies[n] # NoPolicy}
  /\ policy_map \in [MapKeys -> Verdicts \cup {NoVerdict}]
  /\ old \subseteq Policies /\ failed \in BOOLEAN
  /\ frame \in [frame: Frames, stage: 1 .. 4, grants: SUBSET Policies, stale: BOOLEAN]
                \cup {NoFrame}
  /\ out \in [frame: Frames, verdict: Verdicts \cup {"ABORTED", "PASS"},
              grants: SUBSET Policies, stale: BOOLEAN] \cup {NoFrame}

\* Every entry of the policy map comes from a policy that is in force, is being
\* compiled, or was replaced since the map was last cleared, and says what that
\* policy says: compile_policy overwrites entries of other policies and
\* recompile_all, restarts and failing map operations leave parts of the map.
MapExplained ==
  \A k \in MapKeys :
    policy_map[k] # NoVerdict =>
      \E p \in InForce : k \in Entries(p) /\ p.action = policy_map[k]

\* The policies in the loop's HashMap that have an entry for the key k.
Claims(k) == {p \in Policies : \E n \in Names : policies[n] = p /\ k \in Entries(p)}

\* Nothing was replaced, lost or left half written since the map was last cleared.
Settled == loop \in {"recv", "ended"} /\ ~failed /\ old = {}

\* Then the map is exactly what the policies the loop knows say: no entry is missing,
\* none is left of a deleted policy, and where policies overlap the entry is that of
\* one of them: the last one compiled, whatever the priorities.
MapExact ==
  Settled => \A k \in MapKeys :
               IF Claims(k) = {} THEN policy_map[k] = NoVerdict
               ELSE policy_map[k] \in {p.action : p \in Claims(k)}

Covers(p, f) ==
  /\ f.src \in p.from /\ f.dst \in p.to
  /\ p.ports = {} \/ \E pp \in p.ports : pp[1] \in {0, f.proto} /\ pp[2] \in {0, f.port}

\* Someone let the frame of this judgement through: a policy the loop knew at some time
\* while the frame was judged, or the default of its destination.
Explicit(o) ==
  \/ default_policy[o.frame.dst] \in Lets
  \/ \E p \in o.grants : p.action \in Lets /\ Covers(p, o.frame)

\* Whatever fails on the way, the loop comes to know the objects of the cluster once
\* they stop changing, even if the watcher's task ends and takes the daemon with it.
EventuallyKnown == <>[](loop = "recv" /\ chan = <<>> /\ policies = desired)

=============================================================================

------------------------------ MODULE Datapath ------------------------------
(***************************************************************************)
(* The uplink of a node: caiman-microseg attaches its XDP program to the   *)
(* device on which caiman_net attaches and detaches the programs of VMs,   *)
(* and the device runs one program at a time.  Composes Microseg and       *)
(* CaimanNet, which share the slot xdp[MsUplink].                          *)
(***************************************************************************)
EXTENDS Microseg, CaimanNet

CONSTANTS
  MsUplink,   \* the --uplink of caiman-microseg
  MsProg,     \* xdp_microseg_enforce; every other program is a router
  MaxInputs   \* bound: changes, faults, starts of VMMs and XDP commands together

ASSUME DatapathAssumption ==
  MsUplink \in Uplinks /\ MsProg \in Progs /\ MaxInputs \in Nat

vars == <<msVars, netVars>>

\* caiman-microseg has come through run() as far as its policy loop.
Init ==
  /\ MsInit
  /\ NetInit([u \in Uplinks |-> IF u = MsUplink THEN MsProg ELSE NoProg])

\* A frame arrives.  xdp_vm_router redirects it by its MAC without a lookup of
\* policies; without a program the kernel's stack has it.
FrameArrives(f) ==
  \/ /\ xdp[MsUplink] = MsProg
     /\ EnforceBegins(f)
     /\ UNCHANGED netVars
  \/ /\ xdp[MsUplink] # MsProg
     /\ frame = NoFrame
     /\ Judge(f, IF f.net = "short" /\ xdp[MsUplink] # NoProg THEN "ABORTED" ELSE "PASS",
              Known, old # {})
     /\ UNCHANGED <<clusterVars, faults, loopVars, netVars>>

\* run() attaches the program again before the loop starts.
MsRestart ==
  /\ Crash \/ Resume
  /\ xdp' = [xdp EXCEPT ![MsUplink] = MsProg]
  /\ refs' = Put([refs EXCEPT ![MsProg] = @ + 1], xdp[MsUplink])
  /\ UNCHANGED <<ctxs, vmm, adds, cmds, armed>>

Next ==
  /\ \/ MsNext /\ UNCHANGED netVars
     \/ MsRestart
     \/ NetNext /\ UNCHANGED <<clusterVars, faults, loopVars, frame>> /\ out' = NoFrame
     \/ \E f \in Frames : FrameArrives(f)
  /\ events' + faults' + adds' + cmds' <= MaxInputs

Spec == Init /\ [][Next]_vars

\* The loop is a task of the daemon, and the daemon that has ended is started again by
\* its DaemonSet.
FairSpec ==
  /\ Spec
  /\ WF_vars(PolicyLoop /\ UNCHANGED netVars)
  /\ WF_vars(loop = "ended" /\ MsRestart)

-----------------------------------------------------------------------------
\* All variables have their types.
TypeOK == MsTypeOK /\ NetTypeOK

\* The uplink runs the micro-segmentation program as long as nobody sent an XDP_ATTACH
\* for it: VMs that come, go, are killed or fail to register do not take it off,
\* although VM_DEL detaches from the shared uplink.
Enforced == MsUplink \notin armed => xdp[MsUplink] = MsProg

\* An IP frame that gets past the uplink.
Passed ==
  out # NoFrame /\ out.frame.net \in {"ip4", "ip6"} /\ out.verdict \in Lets \cup {"PASS"}

\* "All VM-to-VM traffic is DENY by default": an IP frame that gets past the uplink was
\* let through by an ALLOW or LOG policy the loop knew while it was judged, or by the
\* default of its destination, although xdp_microseg_enforce reads the map in three
\* steps while entries are cleared and written.  Two things void this: entries of
\* replaced or lost policies that are still in the map, and an XDP_ATTACH for the uplink.
DefaultDeny == Passed => Explicit(out) \/ out.stale \/ MsUplink \in armed

\* "Explicit ALLOW rules required for each communication path": the same, whatever is
\* left in the map.
ExplicitAllow == Passed => Explicit(out) \/ MsUplink \in armed

=============================================================================

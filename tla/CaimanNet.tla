----------------------------- MODULE CaimanNet -----------------------------
(***************************************************************************)
(* The caiman_net kernel module: contexts of VMs and the XDP programs      *)
(* attached through them (kernel/caiman_net), and its clients, the VMMs    *)
(* that add and delete their context (vmm/src/main.rs, netlink_ctrl.rs)    *)
(* and whoever sends XDP_ATTACH and XDP_DETACH (external: the VMM has      *)
(* functions for them that nothing calls).                                 *)
(*                                                                         *)
(* Generic netlink runs one handler of the family at a time, so a handler  *)
(* is one step.                                                            *)
(***************************************************************************)
EXTENDS Integers, Sequences, FiniteSets

CONSTANTS
  Vms,        \* virtual machines of the node
  Ids,        \* values of vm_num
  vm_num,     \* its value for each VM: "vm-7" gives 7, other names a hash & 0xFF
  Uplinks,    \* network devices
  uplink,     \* the --uplink of each VM's VMM
  Progs,      \* XDP programs that can be attached
  NoProg,     \* xdp_prog is NULL, or the device runs no program
  MaxAdds,    \* bound: starts of VMMs
  MaxCmds     \* bound: XDP_ATTACH and XDP_DETACH commands

ASSUME CaimanNetAssumption ==
  /\ vm_num \in [Vms -> Ids] /\ uplink \in [Vms -> Uplinks]
  /\ NoProg \notin Progs
  /\ IsFiniteSet(Uplinks)
  /\ MaxAdds \in Nat /\ MaxCmds \in Nat

VARIABLES
  ctxs,       \* vm_net_table: contexts [vm_id, uplink, xdp_prog], newest first
  xdp,        \* the program each uplink runs
  refs,       \* references to each program, those of its pin and its users left out
  vmm,        \* for each VM: "off", "bare" (VM_ADD failed) or "added"
  adds, cmds,
  armed       \* ghost: uplinks on which an XDP_ATTACH was carried out

netVars == <<ctxs, xdp, refs, vmm, adds, cmds, armed>>

NetInit(initial) ==
  /\ ctxs = <<>> /\ xdp = initial
  /\ refs = [p \in Progs |-> Cardinality({u \in Uplinks : initial[u] = p})]
  /\ vmm = [v \in Vms |-> "off"]
  /\ adds = 0 /\ cmds = 0 /\ armed = {}

-----------------------------------------------------------------------------
Found(id) == {i \in DOMAIN ctxs : ctxs[i].vm_id = id}

\* caiman_net_ctx_find: hash_add_rcu puts new contexts at the head of their bucket
Find(id) == CHOOSE i \in Found(id) : \A j \in Found(id) : i <= j

\* hash_del_rcu
Without(i) == [j \in 1 .. Len(ctxs) - 1 |-> IF j < i THEN ctxs[j] ELSE ctxs[j + 1]]

\* bpf_prog_put
Put(r, p) == IF p = NoProg THEN r ELSE [r EXCEPT ![p] = @ - 1]

\* Mutant of XdpOff: the test of ctx->xdp_prog is dropped.
XdpOffAlways(c, keep) ==
  xdp' = [xdp EXCEPT ![c.uplink] = IF keep THEN @ ELSE NoProg]

\* caiman_net_xdp_detach: nothing without a program of its own, else it takes off
\* whatever the uplink runs; dev_xdp_attach may fail, and nobody looks.
XdpOff(c, keep) ==
  xdp' = [xdp EXCEPT ![c.uplink] = IF keep \/ c.xdp_prog = NoProg THEN @ ELSE NoProg]

\* The references it puts: the device puts that of the program it ran, and
\* caiman_net_xdp_detach puts ctx->xdp_prog once more.
Detached(c, keep) ==
  IF c.xdp_prog = NoProg THEN refs
  ELSE Put(IF keep THEN refs ELSE Put(refs, xdp[c.uplink]), c.xdp_prog)

-----------------------------------------------------------------------------
(***************************************************************************)
(* The VMM: vm_add once the guest runs, vm_del when its vCPUs have ended.  *)
(***************************************************************************)

\* caiman_net_ctx_alloc.  The VMM makes the MAC from vm_num, so that it says no more than
\* vm_id.
NewCtx(v) == [vm_id |-> vm_num[v], uplink |-> uplink[v], xdp_prog |-> NoProg]

\* cmd_vm_add
VmAdd(v) ==
  /\ vmm[v] = "off" /\ adds < MaxAdds
  /\ adds' = adds + 1
  /\ vmm' = [vmm EXCEPT ![v] = "added"]
  /\ ctxs' = <<NewCtx(v)>> \o ctxs
  /\ UNCHANGED <<xdp, refs, cmds, armed>>

\* No caiman-netctl, no memory, no such device: the VMM goes on without.
VmAddFails(v) ==
  /\ vmm[v] = "off" /\ adds < MaxAdds
  /\ adds' = adds + 1
  /\ vmm' = [vmm EXCEPT ![v] = "bare"]
  /\ UNCHANGED <<ctxs, xdp, refs, cmds, armed>>

\* cmd_vm_del: caiman_net_xdp_detach, then caiman_net_ctx_free, which finds no
\* program to put any more.
VmDel(v, keep) ==
  /\ vmm[v] # "off" /\ Found(vm_num[v]) # {}
  /\ vmm' = [vmm EXCEPT ![v] = "off"]
  /\ LET i == Find(vm_num[v]) IN
       /\ XdpOff(ctxs[i], keep)
       /\ refs' = Detached(ctxs[i], keep)
       /\ ctxs' = Without(i)
  /\ UNCHANGED <<adds, cmds, armed>>

\* VM_DEL answers ENOENT or cannot be sent, or the VMM is killed (it handles no
\* signal) or exits on a guest's power-off, before it comes to vm_del.
VmGone(v) ==
  /\ vmm[v] # "off"
  /\ vmm' = [vmm EXCEPT ![v] = "off"]
  /\ UNCHANGED <<ctxs, xdp, refs, adds, cmds, armed>>

-----------------------------------------------------------------------------
(***************************************************************************)
(* XDP commands.  dev_xdp_attach (external) takes over the reference of    *)
(* its caller and puts that of the program the device ran before.          *)
(***************************************************************************)

\* cmd_xdp_attach: bpf_prog_get_type_path takes a reference, which the device now has;
\* the program the context had before is put.
XdpAttach(id, p) ==
  /\ cmds < MaxCmds /\ Found(id) # {}
  /\ cmds' = cmds + 1
  /\ LET i == Find(id) IN
       /\ xdp' = [xdp EXCEPT ![ctxs[i].uplink] = p]
       /\ refs' = Put(Put([refs EXCEPT ![p] = @ + 1], xdp[ctxs[i].uplink]), ctxs[i].xdp_prog)
       /\ ctxs' = [ctxs EXCEPT ![i].xdp_prog = p]
       /\ armed' = armed \cup {ctxs[i].uplink}
  /\ UNCHANGED <<vmm, adds>>

\* Mutant of XdpAttachFails: the error path keeps the reference.
XdpAttachFailsLeaks(id, p) ==
  /\ cmds < MaxCmds /\ Found(id) # {}
  /\ cmds' = cmds + 1
  /\ refs' = [refs EXCEPT ![p] = @ + 1]
  /\ UNCHANGED <<ctxs, xdp, vmm, adds, armed>>

\* Both modes fail: the reference that bpf_prog_get_type_path took is put, and the
\* program the context had stays.
XdpAttachFails(id, p) ==
  /\ cmds < MaxCmds /\ Found(id) # {}
  /\ cmds' = cmds + 1
  /\ refs' = [refs EXCEPT ![p] = (@ + 1) - 1]
  /\ UNCHANGED <<ctxs, xdp, vmm, adds, armed>>

\* cmd_xdp_detach
XdpDetach(id, keep) ==
  /\ cmds < MaxCmds /\ Found(id) # {}
  /\ cmds' = cmds + 1
  /\ LET i == Find(id) IN
       /\ XdpOff(ctxs[i], keep)
       /\ refs' = Detached(ctxs[i], keep)
       /\ ctxs' = [ctxs EXCEPT ![i].xdp_prog = NoProg]
  /\ UNCHANGED <<vmm, adds, armed>>

NetNext ==
  \/ \E v \in Vms :
       VmAdd(v) \/ VmAddFails(v) \/ VmGone(v) \/ \E keep \in BOOLEAN : VmDel(v, keep)
  \/ \E id \in Ids :
       \/ \E p \in Progs : XdpAttach(id, p) \/ XdpAttachFails(id, p)
       \/ \E keep \in BOOLEAN : XdpDetach(id, keep)

-----------------------------------------------------------------------------
(***************************************************************************)
(* Properties                                                              *)
(***************************************************************************)

\* The variables of the module and its clients have their types.
NetTypeOK ==
  /\ ctxs \in Seq([vm_id: Ids, uplink: Uplinks, xdp_prog: Progs \cup {NoProg}])
  /\ xdp \in [Uplinks -> Progs \cup {NoProg}]
  /\ refs \in [Progs -> Int]
  /\ vmm \in [Vms -> {"off", "bare", "added"}]
  /\ adds \in 0 .. MaxAdds /\ cmds \in 0 .. MaxCmds
  /\ armed \subseteq Uplinks

\* No reference is left behind: a program has at most one for each device that runs it,
\* through attach, replacement, attach that fails in both modes, detach that the device
\* refuses, VM_DEL and killed VMMs.  (It may have fewer: detach puts twice.)
NoReferenceLeaks ==
  \A p \in Progs : refs[p] <= Cardinality({u \in Uplinks : xdp[u] = p})

=============================================================================

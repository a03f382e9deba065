--------------------------- MODULE MCVmLifecycle ----------------------------
(***************************************************************************)
(* Small instances of VmLifecycle: VMs and tasks are model values, pids    *)
(* are numbers as in the code, where 0 is none.                            *)
(***************************************************************************)
EXTENDS VmLifecycle

=============================================================================

------------------------------- MODULE MCCni -------------------------------
(* Three VMs and a pool of two addresses, so that it runs out.              *)
EXTENDS Cni
=============================================================================

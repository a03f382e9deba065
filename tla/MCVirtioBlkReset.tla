-------------------------- MODULE MCVirtioBlkReset --------------------------
(***************************************************************************)
(* A driver that issues one read at a time and may be reloaded.            *)
(***************************************************************************)
EXTENDS VirtioBlkReset

MCImage == [s \in Sectors |-> "a"]

MCRequests ==
  {[type |-> "IN", sector |-> "s0", data |-> "a", devWrites |-> TRUE, form |-> "good"]}

=============================================================================

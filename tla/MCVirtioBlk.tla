---------------------------- MODULE MCVirtioBlk -----------------------------
(***************************************************************************)
(* A queue of two descriptors whose indices wrap at four, a disk of one    *)
(* sector, a read, a write, a read into a buffer outside guest memory and  *)
(* the two malformed chains the dataplane tells apart.                     *)
(***************************************************************************)
EXTENDS VirtioBlk

Req(type, data, devWrites, form) ==
  [type |-> type, sector |-> "s0", data |-> data, devWrites |-> devWrites, form |-> form]

MCImage == [s \in Sectors |-> "a"]

MCRequests ==
  {Req("IN", "a", TRUE, "good"), Req("OUT", "b", FALSE, "good"),
   Req("IN", "a", TRUE, "badBuffer"),
   Req("IN", "a", TRUE, "short"), Req("IN", "a", TRUE, "badHeader")}

=============================================================================

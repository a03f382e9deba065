--------------------------- MODULE VirtioBlkReset ---------------------------
(***************************************************************************)
(* VirtioBlk with a driver that is unloaded and loaded again while the     *)
(* virtual machine runs.  The new driver starts from fresh rings; what the *)
(* device does on REG_STATUS = 0 is in mmio_write: it stores the value.    *)
(***************************************************************************)
EXTENDS VirtioBlk

\* An orderly unload: every request has been answered and the device is idle.
\* REG_STATUS = 0 and REG_QUEUE_READY = 0 are written and the rings are freed;
\* last_avail_idx, used_idx and irq_status of the device keep their values.
Reload ==
  /\ ready
  /\ free = Heads
  /\ drv = "idle" /\ isr = "idle"
  /\ dp = "blocked" /\ ~kickfd
  /\ ready' = FALSE
  /\ avail_idx' = 0 /\ used_mem' = 0 /\ last_used' = 0
  /\ avail_ring' = [s \in Slots |-> 0]
  /\ used_ring' = [s \in Slots |-> 0]
  /\ desc' = [h \in Heads |-> NoRequest]
  /\ UNCHANGED <<buffers, last_avail_idx, used_idx, irq_status, kickfd, irqfd, dp, head,
                 disk, drv, isr, free, cloned>>

ReloadNext == Next \/ Reload

ReloadSpec == Init /\ [][ReloadNext]_vars

\* The device only works on chains the driver has handed to it: virtio 1.x, which
\* queue.rs claims to follow, has the device start again from index zero after a
\* reset.
OnlyPostedServed == dp = "parse" => head \notin free

=============================================================================

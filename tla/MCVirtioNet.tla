---------------------------- MODULE MCVirtioNet -----------------------------
(***************************************************************************)
(* A receive chain of each layout and two transmit chains.                 *)
(***************************************************************************)
EXTENDS VirtioNet, TLC

MCLayout == "r1" :> "roomy" @@ "r2" :> "small" @@ "r3" :> "unusable"

=============================================================================

----------------------------- MODULE MCConsole -----------------------------
(***************************************************************************)
(* One client, two bytes each way, a ring buffer of two bytes, a channel   *)
(* of one chunk, room for one byte in Serial.output, and one interrupt for *)
(* a byte typed where the code sends four.                                 *)
(***************************************************************************)
EXTENDS Console
=============================================================================

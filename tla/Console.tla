------------------------------ MODULE Console ------------------------------
(***************************************************************************)
(* The serial console end to end: the guest's port (Serial) and the API's  *)
(* bridge (ConsoleBridge), with the terminal between them.  What clients   *)
(* type goes through one mpsc channel and one thread to that terminal.     *)
(***************************************************************************)
EXTENDS Serial, ConsoleBridge

vars == <<serialVars, bridgeVars>>

Init == SerialInit /\ BridgeInit

\* What a client typed reaches the terminal, maybe after the client has left.
ClientTypes(newline) ==
  /\ joins > 0
  /\ Type(newline)
  /\ UNCHANGED bridgeVars

Next ==
  \/ SerialNext /\ UNCHANGED bridgeVars
  \/ BridgeNext(out) /\ UNCHANGED serialVars
  \/ \E newline \in BOOLEAN : ClientTypes(newline)

Spec == Init /\ [][Next]_vars

\* Threads and tasks run for ever, and a driver that has begun goes on.  Nobody has to
\* type, to send, to connect or to leave.
FairSpec ==
  /\ Spec
  /\ WF_vars((Interrupt \/ Polled) /\ UNCHANGED bridgeVars)
  /\ WF_vars(SerialStdin /\ UNCHANGED bridgeVars)
  /\ WF_vars(Reader(out) /\ UNCHANGED serialVars)
  /\ \A c \in Clients : WF_vars(Serve(c) /\ UNCHANGED serialVars)

-----------------------------------------------------------------------------
\* All variables have their types.
TypeOK == SerialTypeOK /\ BridgeTypeOK

\* What leaves the terminal reaches every client that stays, also one that was skipped
\* ahead, which then goes on from the oldest chunk there is: when the output pauses, as
\* the bounds make it, a client that is behind catches up.
CaughtUp(c) == out = 0 \/ \E i \in DOMAIN got[c] : got[c][i] = out

EventuallyShown ==
  \A c \in Clients : (st[c] # "off") ~> (st[c] = "off" \/ CaughtUp(c))

=============================================================================

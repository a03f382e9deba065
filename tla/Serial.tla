------------------------------- MODULE Serial -------------------------------
(***************************************************************************)
(* The serial port of caiman-vmm: the 16550A registers (device/serial.rs)  *)
(* served on vCPU threads, the serial-stdin thread (main.rs) that feeds    *)
(* them, the terminal between the API and that thread, and the guest's     *)
(* driver (external: Linux, which finds no FIFO and sends byte by byte).   *)
(*                                                                         *)
(* A port access is one critical section of the Serial mutex, hence one    *)
(* step.  One vCPU at a time is in the driver, which holds a lock.         *)
(* LSR_THRE is set whenever the mutex is free and is left out.             *)
(***************************************************************************)
EXTENDS Naturals, Sequences

CONSTANTS
  OutMax,      \* 64: bytes in Serial.output that make it flush
  Pulses,      \* 4: interrupts for a byte
  MaxSend,     \* bound: bytes the guest sends
  MaxType      \* bound: bytes clients type

ASSUME SerialAssumption ==
  OutMax \in Nat \ {0} /\ Pulses \in Nat \ {0} /\ MaxSend \in Nat /\ MaxType \in Nat

VARIABLES
  rbr, dr,      \* the receive register and LSR_DR; bytes are numbered as typed
  ier, iir,     \* enabled interrupts; the one indicated
  irqfd,        \* the pending interrupt
  held,         \* bytes in Serial.output
  pulses,       \* serial-stdin: interrupts it has yet to write for its byte
  line, keys,   \* the terminal: a line not yet ended; bytes that can be read
  typed,
  reading,      \* serial-stdin is in its loop
  drv, saved,   \* the driver's program point; IER while it polls
  todo, sent,   \* bytes the driver has yet to send; bytes it has sent
  received,     \* bytes it has read
  out           \* bytes that left the terminal on the API's side

driver == <<drv, saved, todo, sent, received>>
terminal == <<line, keys, typed, reading>>
serialVars == <<rbr, dr, ier, iir, irqfd, held, pulses, terminal, driver, out>>

SerialInit ==
  /\ rbr = 0 /\ dr = FALSE /\ ier = {} /\ iir = "NO_INT" /\ irqfd = FALSE
  /\ held = 0 /\ pulses = 0 /\ line = <<>> /\ keys = <<>> /\ typed = 0 /\ reading = TRUE
  /\ drv = "boot" /\ saved = {} /\ todo = 0 /\ sent = 0 /\ received = <<>> /\ out = 0

-----------------------------------------------------------------------------
(***************************************************************************)
(* Registers                                                               *)
(***************************************************************************)

Indicated(enabled, ready) ==
  IF "THRI" \in enabled THEN "THRI"
  ELSE IF "RDI" \in enabled /\ ready THEN "RDI" ELSE "NO_INT"

update_irq ==
  /\ iir' = Indicated(ier', dr')
  /\ irqfd' = (irqfd \/ iir' # "NO_INT")

\* Mutant of WriteIer: the interrupt is not recalculated.
WriteIerOnly(enabled) == ier' = enabled /\ UNCHANGED <<dr, iir, irqfd>>

WriteIer(enabled) == ier' = enabled /\ UNCHANGED dr /\ update_irq

\* transmit_byte keeps the byte until a line is complete or OutMax are there.
Transmit(newline) ==
  /\ IF newline \/ held + 1 >= OutMax
     THEN held' = 0 /\ out' = out + held + 1
     ELSE held' = held + 1 /\ UNCHANGED out
  /\ sent' = sent + 1
  /\ UNCHANGED <<ier, dr>> /\ update_irq

-----------------------------------------------------------------------------
(***************************************************************************)
(* The guest's driver                                                      *)
(***************************************************************************)

\* Its startup enables the receive interrupt.
Open ==
  /\ drv = "boot"
  /\ drv' = "idle"
  /\ WriteIer({"RDI"})
  /\ UNCHANGED <<rbr, held, pulses, terminal, saved, todo, sent, received, out>>

\* There is something to send: the transmit interrupt is enabled.
StartTx ==
  /\ drv = "idle" /\ sent + todo < MaxSend
  /\ todo' = todo + 1
  /\ WriteIer(ier \cup {"THRI"})
  /\ UNCHANGED <<rbr, held, pulses, terminal, drv, saved, sent, received, out>>

\* A kernel message, at boot too: interrupts off, the byte, interrupts as they were.
PolledBegin ==
  /\ drv \in {"boot", "idle"} /\ sent + todo < MaxSend
  /\ saved' = ier
  /\ drv' = "poll"
  /\ WriteIer({})
  /\ UNCHANGED <<rbr, held, pulses, terminal, todo, sent, received, out>>

PolledWrite(newline) ==
  /\ drv = "poll"
  /\ Transmit(newline)
  /\ drv' = "restore"
  /\ UNCHANGED <<rbr, pulses, terminal, saved, todo, received>>

PolledEnd ==
  /\ drv = "restore"
  /\ WriteIer(saved)
  /\ drv' = IF saved = {} THEN "boot" ELSE "idle"
  /\ UNCHANGED <<rbr, held, pulses, terminal, saved, todo, sent, received, out>>

IrqStart ==
  /\ drv = "idle" /\ irqfd
  /\ irqfd' = FALSE
  /\ drv' = "iir"
  /\ UNCHANGED <<rbr, dr, ier, iir, held, pulses, terminal, saved, todo, sent, received, out>>

\* Reading IIR clears a transmit interrupt.  The handler ends when none is indicated.
ReadIir ==
  /\ drv = "iir"
  /\ drv' = IF iir = "NO_INT" THEN "idle" ELSE "lsr"
  /\ iir' = IF iir = "THRI" THEN "NO_INT" ELSE iir
  /\ UNCHANGED <<rbr, dr, ier, irqfd, held, pulses, terminal, saved, todo, sent, received, out>>

ReadLsr ==
  /\ drv = "lsr"
  /\ drv' = IF dr THEN "rbr" ELSE IF "THRI" \in ier THEN "thr" ELSE "iir"
  /\ UNCHANGED <<rbr, dr, ier, iir, irqfd, held, pulses, terminal, saved, todo, sent, received,
                 out>>

\* Mutant of ReadRbr: LSR_DR stays set.
ReadRbrKeeps ==
  /\ drv = "rbr"
  /\ received' = Append(received, [message |-> rbr, whole |-> TRUE])
  /\ drv' = "lsr"
  /\ Len(received) < MaxType + 1
  /\ UNCHANGED <<ier, dr>> /\ update_irq
  /\ UNCHANGED <<rbr, held, pulses, terminal, saved, todo, sent, out>>

ReadRbr ==
  /\ drv = "rbr"
  /\ received' = Append(received, [message |-> rbr, whole |-> TRUE])
  /\ drv' = "lsr"
  /\ dr' = FALSE /\ UNCHANGED ier /\ update_irq
  /\ UNCHANGED <<rbr, held, pulses, terminal, saved, todo, sent, out>>

WriteThr(newline) ==
  /\ drv = "thr" /\ todo > 0
  /\ todo' = todo - 1
  /\ Transmit(newline)
  /\ drv' = IF todo' = 0 THEN "stopTx" ELSE "iir"
  /\ UNCHANGED <<rbr, pulses, terminal, saved, received>>

StopTx ==
  /\ drv = "stopTx"
  /\ WriteIer(ier \ {"THRI"})
  /\ drv' = "iir"
  /\ UNCHANGED <<rbr, held, pulses, terminal, saved, todo, sent, received, out>>

\* The guest goes down: run_loop flushes.  Through port 0x604 the process exits at once.
GuestEnds(flush) ==
  /\ drv \in {"boot", "idle"}
  /\ drv' = "off" /\ held' = 0 /\ pulses' = 0 /\ reading' = FALSE
  /\ out' = IF flush THEN out + held ELSE out
  /\ UNCHANGED <<rbr, dr, ier, iir, irqfd, line, keys, typed, saved, todo, sent, received>>

-----------------------------------------------------------------------------
(***************************************************************************)
(* Terminal and serial-stdin                                               *)
(***************************************************************************)

\* The API opens /dev/ptmx and leaves the terminal as it is: it echoes what is typed
\* and hands it on line by line.  What is typed after the VMM has ended is lost.
Type(newline) ==
  /\ drv # "off" /\ typed < MaxType
  /\ typed' = typed + 1
  /\ out' = out + 1
  /\ IF newline
     THEN line' = <<>> /\ keys' = keys \o Append(line, typed')
     ELSE line' = Append(line, typed') /\ UNCHANGED keys
  /\ UNCHANGED <<rbr, dr, ier, iir, irqfd, held, pulses, reading, driver>>

\* A byte goes to the register whether or not the last one was read.
Feed ==
  /\ reading /\ pulses = 0 /\ keys # <<>>
  /\ rbr' = Head(keys) /\ dr' = TRUE /\ iir' = "RDI"
  /\ keys' = Tail(keys)
  /\ pulses' = Pulses
  /\ UNCHANGED <<ier, irqfd, held, line, typed, reading, driver, out>>

\* Mutant of Pulse: no interrupt is written for the byte.
PulseNone ==
  /\ pulses > 0
  /\ pulses' = 0
  /\ UNCHANGED <<rbr, dr, ier, iir, irqfd, held, terminal, driver, out>>

\* irqfd, then a sleep of 1 ms
Pulse ==
  /\ pulses > 0
  /\ pulses' = pulses - 1
  /\ irqfd' = TRUE
  /\ UNCHANGED <<rbr, dr, ier, iir, held, terminal, driver, out>>

\* read returns no byte (^D at the start of a line, a terminal that hung up) or fails:
\* the thread ends, and what is typed from then on stays in the terminal.
StdinEnds ==
  /\ reading /\ pulses = 0
  /\ reading' = FALSE
  /\ UNCHANGED <<rbr, dr, ier, iir, irqfd, held, pulses, line, keys, typed, driver, out>>

-----------------------------------------------------------------------------
Interrupt ==
  \/ IrqStart \/ ReadIir \/ ReadLsr \/ ReadRbr \/ StopTx
  \/ \E newline \in BOOLEAN : WriteThr(newline)

Polled == PolledEnd \/ \E newline \in BOOLEAN : PolledWrite(newline)

SerialStdin == Feed \/ Pulse

SerialNext ==
  \/ Open \/ StartTx \/ PolledBegin \/ Polled \/ Interrupt \/ SerialStdin \/ StdinEnds
  \/ \E flush \in BOOLEAN : GuestEnds(flush)

-----------------------------------------------------------------------------
(***************************************************************************)
(* Properties                                                              *)
(***************************************************************************)

\* The registers, the terminal and the driver have their types.
SerialTypeOK ==
  /\ rbr \in Nat /\ dr \in BOOLEAN /\ ier \subseteq {"RDI", "THRI"}
  /\ iir \in {"NO_INT", "THRI", "RDI"} /\ irqfd \in BOOLEAN
  /\ held \in 0 .. OutMax - 1 /\ pulses \in 0 .. Pulses
  /\ line \in Seq(Nat) /\ keys \in Seq(Nat) /\ typed \in 0 .. MaxType
  /\ reading \in BOOLEAN
  /\ drv \in {"boot", "idle", "poll", "restore", "iir", "lsr", "rbr", "thr", "stopTx", "off"}
  /\ saved \subseteq {"RDI", "THRI"} /\ todo \in 0 .. MaxSend /\ sent \in 0 .. MaxSend
  /\ received \in Seq([message: Nat, whole: BOOLEAN]) /\ out \in Nat

\* A byte in the receive register is always going to be noticed: while the driver is
\* idle an interrupt is on its way, and the IIR its handler will read indicates one.
\* serial-stdin sets iir without looking at IER, update_irq overwrites it from there,
\* lets the transmit interrupt win and is run with all interrupts off by a kernel
\* message; reading IIR clears it.
NoLostInput ==
  dr /\ drv = "idle" => iir # "NO_INT" /\ (irqfd \/ pulses > 0)

Input == INSTANCE LossyFifo WITH
  sent <- typed,
  inFlight <- (IF dr THEN <<rbr>> ELSE <<>>) \o keys \o line,
  delivered <- received

\* From the terminal to the guest bytes keep their order and none comes twice, though
\* serial-stdin overwrites a byte that was not read in time.
InputIsFifo == Input!Spec

\* Once the driver has enabled the receive interrupt, a byte in the receive register (or
\* the one it is overwritten with) is read, or the guest ends: no kernel message,
\* transmission or clearing of IIR leaves it there for ever.
EventuallyRead ==
  (dr /\ drv \notin {"boot", "poll", "restore"}) ~> (~dr \/ drv = "off")

=============================================================================

---------------------------- MODULE ConsoleProofs ----------------------------
(***************************************************************************)
(* Proofs about Console for any number of clients, sizes of the buffers    *)
(* and number of bytes: no byte in the receive register goes unnoticed,    *)
(* input is a lossy FIFO, and a client that keeps up misses nothing.       *)
(***************************************************************************)
EXTENDS Console, SequenceTheorems, TLAPS

-----------------------------------------------------------------------------
(***************************************************************************)
(* The inductive invariant: the serial port.                               *)
(***************************************************************************)

\* The receive interrupt is enabled from Open on, except while a kernel message is
\* written, which puts it back; during boot nothing is enabled.
InDriver == {"iir", "lsr", "rbr", "thr", "stopTx"}

Enabling ==
  /\ drv \in InDriver \cup {"idle"} => "RDI" \in ier
  /\ drv = "boot" => ier = {}
  /\ drv \in {"poll", "restore"} => saved = {} \/ "RDI" \in saved

\* A byte not read is indicated whenever the driver is about to look at IIR, and read
\* only when it is there.
Indicating ==
  /\ dr /\ drv \in {"idle", "iir"} => iir # "NO_INT"
  /\ drv = "rbr" => dr

\* What there is to send fits the bound.
Sending == sent + todo <= MaxSend /\ (drv = "poll" => sent + todo < MaxSend)

-----------------------------------------------------------------------------
(***************************************************************************)
(* The inductive invariant: the bridge.                                    *)
(***************************************************************************)

\* The bytes before chunk k of the channel, or before the one to be broadcast next.
Start(k) == IF k <= Len(chan) THEN chan[k][1] - 1 ELSE read - Len(chunk)

\* The last byte a client got.
Reached(c) == IF got[c] = <<>> THEN 0 ELSE got[c][Len(got[c])]

\* Ring buffer and chunk end with the byte read last, and the ring buffer lacks bytes
\* only when it is full.
RingShape ==
  /\ Len(ring) <= read /\ \A i \in 1 .. Len(ring) : ring[i] = read - Len(ring) + i
  /\ Len(ring) < RingSize => Len(ring) = read
  /\ Len(chunk) <= read /\ \A i \in 1 .. Len(chunk) : chunk[i] = read - Len(chunk) + i

\* Chunks are not empty and follow each other.
ChanShape ==
  \A k \in 1 .. Len(chan) :
    /\ Len(chan[k]) > 0
    /\ \A i \in 1 .. Len(chan[k]) : chan[k][i] = Start(k) + i
    /\ Start(k + 1) = Start(k) + Len(chan[k])
    /\ Start(k) >= 0 /\ Start(k) <= read

\* What a client receives next does not begin behind what it has.
NextFits ==
  \A c \in Clients :
    /\ pos[c] \in 1 .. Len(chan) + 1
    /\ st[c] = "live" /\ c \notin lagged => Start(pos[c]) <= Reached(c)

SerialInv == SerialTypeOK /\ Enabling /\ Indicating /\ Sending /\ NoLostInput
BridgeInv == BridgeTypeOK /\ RingShape /\ ChanShape /\ NextFits /\ NoGap
IInv == SerialInv /\ BridgeInv

-----------------------------------------------------------------------------
(***************************************************************************)
(* The serial port.                                                        *)
(***************************************************************************)

\* update_irq indicates the byte in the register when the receive interrupt is enabled,
\* and then writes irqfd.
LEMMA UpdateIrq ==
  ASSUME SerialTypeOK, update_irq, dr' \in BOOLEAN
  PROVE  /\ iir' \in {"NO_INT", "THRI", "RDI"} /\ irqfd' \in BOOLEAN
         /\ dr' /\ "RDI" \in ier' => iir' # "NO_INT" /\ irqfd'
BY DEF update_irq, Indicated, SerialTypeOK

\* A byte sent keeps Serial.output below its limit.
LEMMA TransmitTyped ==
  ASSUME SerialTypeOK, NEW newline \in BOOLEAN, Transmit(newline), sent < MaxSend
  PROVE  /\ held' \in 0 .. OutMax - 1 /\ out' \in Nat /\ sent' \in 0 .. MaxSend /\ sent' = sent + 1
         /\ ier' = ier /\ dr' = dr /\ update_irq
BY SerialAssumption DEF Transmit, SerialTypeOK

\* Every access to the port, every byte typed and every interrupt keeps its invariant.
LEMMA NextSerial == SerialInv /\ [Next]_vars => SerialInv'
<1> SUFFICES ASSUME SerialTypeOK, Enabling, Indicating, Sending, NoLostInput, [Next]_vars
             PROVE  SerialInv'
  BY DEF SerialInv
<1> USE SerialAssumption
<1>1. CASE Open
  <2>1. update_irq /\ ier' = {"RDI"} /\ dr' = dr
    BY <1>1 DEF Open, WriteIer
  <2>2. SerialTypeOK'
    BY <1>1, <2>1, UpdateIrq DEF Open, SerialTypeOK, terminal
  <2> QED
    BY <1>1, <2>1, <2>2, UpdateIrq
    DEF Open, SerialInv, Enabling, Indicating, Sending, NoLostInput
<1>2. CASE StartTx
  <2>1. update_irq /\ ier' = ier \cup {"THRI"} /\ dr' = dr
    BY <1>2 DEF StartTx, WriteIer
  <2>2. SerialTypeOK'
    BY <1>2, <2>1, UpdateIrq DEF StartTx, SerialTypeOK, terminal
  <2> QED
    BY <1>2, <2>1, <2>2, UpdateIrq
    DEF StartTx, SerialTypeOK, SerialInv, Enabling, Indicating, Sending, NoLostInput
<1>3. CASE PolledBegin
  <2>1. update_irq /\ ier' = {} /\ dr' = dr
    BY <1>3 DEF PolledBegin, WriteIer
  <2>2. SerialTypeOK'
    BY <1>3, <2>1, UpdateIrq DEF PolledBegin, SerialTypeOK, terminal
  <2> QED
    BY <1>3, <2>2
    DEF PolledBegin, SerialInv, Enabling, Indicating, Sending, NoLostInput, InDriver
<1>4. ASSUME NEW newline \in BOOLEAN, PolledWrite(newline) PROVE SerialInv'
  <2>1. sent < MaxSend
    BY <1>4 DEF PolledWrite, Sending, SerialTypeOK
  <2>2. /\ held' \in 0 .. OutMax - 1 /\ out' \in Nat /\ sent' \in 0 .. MaxSend /\ sent' = sent + 1
        /\ ier' = ier /\ dr' = dr /\ update_irq
    BY <1>4, <2>1, TransmitTyped DEF PolledWrite
  <2>3. SerialTypeOK'
    BY <1>4, <2>2, UpdateIrq DEF PolledWrite, SerialTypeOK, terminal
  <2> QED
    BY <1>4, <2>2, <2>3
    DEF PolledWrite, SerialTypeOK, SerialInv, Enabling, Indicating, Sending, NoLostInput,
        InDriver
<1>5. CASE PolledEnd
  <2>1. update_irq /\ ier' = saved /\ dr' = dr
    BY <1>5 DEF PolledEnd, WriteIer
  <2>2. SerialTypeOK'
    BY <1>5, <2>1, UpdateIrq DEF PolledEnd, SerialTypeOK, terminal
  <2> QED
    BY <1>5, <2>1, <2>2, UpdateIrq
    DEF PolledEnd, SerialInv, Enabling, Indicating, Sending, NoLostInput, InDriver
<1>6. CASE IrqStart
  BY <1>6
  DEF IrqStart, terminal, SerialTypeOK, SerialInv, Enabling, Indicating, Sending, NoLostInput
<1>7. CASE ReadIir
  BY <1>7
  DEF ReadIir, terminal, SerialTypeOK, SerialInv, Enabling, Indicating, Sending, NoLostInput,
      InDriver
<1>8. CASE ReadLsr
  BY <1>8
  DEF ReadLsr, terminal, SerialTypeOK, SerialInv, Enabling, Indicating, Sending, NoLostInput,
      InDriver
<1>9. CASE ReadRbr
  <2>1. received' \in Seq([message: Nat, whole: BOOLEAN])
    BY <1>9 DEF ReadRbr, SerialTypeOK
  <2>2. SerialTypeOK'
    BY <1>9, <2>1, UpdateIrq DEF ReadRbr, SerialTypeOK, terminal
  <2> QED
    BY <1>9, <2>2 DEF ReadRbr, SerialInv, Enabling, Indicating, Sending, NoLostInput, InDriver
<1>10. ASSUME NEW newline \in BOOLEAN, WriteThr(newline) PROVE SerialInv'
  <2>1. sent < MaxSend
    BY <1>10 DEF WriteThr, Sending, SerialTypeOK
  <2>2. /\ held' \in 0 .. OutMax - 1 /\ out' \in Nat /\ sent' \in 0 .. MaxSend /\ sent' = sent + 1
        /\ ier' = ier /\ dr' = dr /\ update_irq
    BY <1>10, <2>1, TransmitTyped DEF WriteThr
  <2>3. SerialTypeOK'
    BY <1>10, <2>2, UpdateIrq DEF WriteThr, SerialTypeOK, terminal
  <2>4. dr' => iir' # "NO_INT"
    BY <1>10, <2>2, UpdateIrq DEF WriteThr, Enabling, InDriver
  <2>5. drv' \in {"stopTx", "iir"} /\ "RDI" \in ier'
    BY <1>10, <2>2 DEF WriteThr, Enabling, InDriver
  <2>6. sent' + todo' <= MaxSend
    BY <1>10, <2>2 DEF WriteThr, Sending, SerialTypeOK
  <2> QED
    BY <2>3, <2>4, <2>5, <2>6 DEF SerialInv, Enabling, Indicating, Sending, NoLostInput
<1>11. CASE StopTx
  <2>1. update_irq /\ ier' = ier \ {"THRI"} /\ dr' = dr
    BY <1>11 DEF StopTx, WriteIer
  <2>2. SerialTypeOK'
    BY <1>11, <2>1, UpdateIrq DEF StopTx, SerialTypeOK, terminal
  <2> QED
    BY <1>11, <2>1, <2>2, UpdateIrq
    DEF StopTx, SerialInv, Enabling, Indicating, Sending, NoLostInput, InDriver
<1>12. ASSUME NEW flush \in BOOLEAN, GuestEnds(flush) PROVE SerialInv'
  <2>1. SerialTypeOK'
    <3>1. out' \in Nat /\ held' \in 0 .. OutMax - 1 /\ pulses' \in 0 .. Pulses
      BY <1>12, SerialAssumption DEF GuestEnds, SerialTypeOK
    <3>2. reading' \in BOOLEAN
      BY <1>12 DEF GuestEnds
    <3> QED
      BY <1>12, <3>1, <3>2 DEF GuestEnds, SerialTypeOK
  <2> QED
    BY <1>12, <2>1
    DEF GuestEnds, SerialInv, Enabling, Indicating, Sending, NoLostInput, InDriver
<1>13. ASSUME NEW newline \in BOOLEAN, Type(newline) PROVE SerialInv'
  <2>1. typed' \in 0 .. MaxType /\ typed' \in Nat /\ out' \in Nat
    BY <1>13 DEF Type, SerialTypeOK
  <2>2. line' \in Seq(Nat) /\ keys' \in Seq(Nat)
    <3>1. Append(line, typed') \in Seq(Nat) /\ keys \in Seq(Nat)
      BY <2>1 DEF SerialTypeOK
    <3>2. keys \o Append(line, typed') \in Seq(Nat) /\ <<>> \in Seq(Nat)
      BY <3>1
    <3> QED
      BY <1>13, <3>1, <3>2 DEF Type
  <2>3. SerialTypeOK'
    BY <1>13, <2>2 DEF Type, SerialTypeOK, driver
  <2> QED
    BY <1>13, <2>3 DEF Type, driver, SerialInv, Enabling, Indicating, Sending, NoLostInput
<1>14. CASE Feed
  <2>1. SerialTypeOK'
    BY <1>14 DEF Feed, SerialTypeOK, driver
  <2> QED
    BY <1>14, <2>1 DEF Feed, driver, SerialInv, Enabling, Indicating, Sending, NoLostInput
<1>15. CASE Pulse
  <2>1. SerialTypeOK'
    BY <1>15 DEF Pulse, terminal, driver, SerialTypeOK
  <2> QED
    BY <1>15, <2>1
    DEF Pulse, terminal, driver, SerialInv, Enabling, Indicating, Sending, NoLostInput
<1>16. CASE UNCHANGED serialVars
  BY <1>16
  DEF serialVars, terminal, driver, SerialTypeOK, SerialInv, Enabling, Indicating, Sending,
      NoLostInput
<1>17. CASE StdinEnds
  <2>1. SerialTypeOK'
    BY <1>17 DEF StdinEnds, driver, SerialTypeOK
  <2> QED
    BY <1>17, <2>1 DEF StdinEnds, driver, SerialInv, Enabling, Indicating, Sending, NoLostInput
<1> QED
  BY <1>1, <1>2, <1>3, <1>4, <1>5, <1>6, <1>7, <1>8, <1>9, <1>10, <1>11, <1>12, <1>13, <1>14,
     <1>15, <1>16, <1>17
  DEF Next, SerialNext, Interrupt, Polled, SerialStdin, ClientTypes, vars

-----------------------------------------------------------------------------
(***************************************************************************)
(* Input is a lossy FIFO.                                                  *)
(***************************************************************************)

\* The byte in the register, what the terminal hands on, and the line not yet ended.
Register == IF dr THEN <<rbr>> ELSE <<>>
InFlight == Register \o keys \o line

\* A sequence put behind one byte.
LEMMA ByteFirst ==
  ASSUME NEW x \in Nat, NEW s \in Seq(Nat)
  PROVE  <<x>> \o s # <<>> /\ Head(<<x>> \o s) = x /\ Tail(<<x>> \o s) = s
<1> DEFINE c == <<x>> \o s
<1>1. <<x>> \in Seq(Nat) /\ Len(<<x>>) = 1 /\ <<x>>[1] = x
  OBVIOUS
<1>2. /\ c \in Seq(Nat) /\ Len(c) = 1 + Len(s)
      /\ \A i \in 1 .. 1 + Len(s) : c[i] = IF i <= 1 THEN <<x>>[i] ELSE s[i - 1]
  BY <1>1, ConcatProperties
<1> HIDE DEF c
<1>3. c # <<>> /\ Head(c) = x
  BY <1>1, <1>2
<1>4. /\ Tail(c) \in Seq(Nat) /\ Len(Tail(c)) = Len(s)
      /\ \A i \in 1 .. Len(s) : Tail(c)[i] = s[i]
  BY <1>2, <1>3
<1>5. Tail(c) = s
  BY <1>4, SeqEqual
<1> QED
  BY <1>3, <1>5 DEF c

\* A sequence is its first byte and the rest.
LEMMA ByteAndRest ==
  ASSUME NEW s \in Seq(Nat), s # <<>>
  PROVE  <<Head(s)>> \o Tail(s) = s
<1> DEFINE c == <<Head(s)>> \o Tail(s)
<1>1. /\ Head(s) \in Nat /\ Head(s) = s[1] /\ Tail(s) \in Seq(Nat) /\ Len(s) \in Nat \ {0}
      /\ Len(Tail(s)) = Len(s) - 1 /\ \A i \in 1 .. Len(s) - 1 : Tail(s)[i] = s[i + 1]
  OBVIOUS
<1>2. <<Head(s)>> \in Seq(Nat) /\ Len(<<Head(s)>>) = 1 /\ <<Head(s)>>[1] = s[1]
  BY <1>1
<1>3. /\ c \in Seq(Nat) /\ Len(c) = 1 + (Len(s) - 1)
      /\ \A i \in 1 .. 1 + (Len(s) - 1) : c[i] = IF i <= 1 THEN <<Head(s)>>[i] ELSE Tail(s)[i - 1]
  BY <1>1, <1>2, ConcatProperties
<1> HIDE DEF c
<1>4. ASSUME NEW i \in 1 .. Len(s) PROVE c[i] = s[i]
  <2>1. CASE i = 1
    BY <1>1, <1>2, <1>3, <2>1
  <2>2. CASE i # 1
    <3>1. i - 1 \in 1 .. Len(s) - 1 /\ (i - 1) + 1 = i /\ ~ (i <= 1) /\ i \in 1 .. 1 + (Len(s) - 1)
      BY <1>1, <2>2
    <3>2. c[i] = Tail(s)[i - 1] /\ Tail(s)[i - 1] = s[(i - 1) + 1]
      BY <1>1, <1>3, <3>1
    <3> QED
      BY <3>1, <3>2
  <2> QED
    BY <2>1, <2>2
<1>5. Len(c) = Len(s)
  BY <1>1, <1>3
<1>6. c = s
  BY <1>3, <1>4, <1>5, SeqEqual
<1> QED
  BY <1>6 DEF c

\* The sequences of the mapping.
LEMMA InputTyped ==
  ASSUME SerialInv
  PROVE  Register \in Seq(Nat) /\ keys \in Seq(Nat) /\ line \in Seq(Nat) /\ rbr \in Nat
         /\ dr \in BOOLEAN
BY DEF SerialInv, SerialTypeOK, Register

\* The abstract actions, with the mapping written out.
LEMMA MapsToStutter ==
  ASSUME typed' = typed, InFlight' = InFlight, received' = received
  PROVE  UNCHANGED Input!vars
BY DEF Input!vars, InFlight, Register

\* A byte enters behind those in flight.
LEMMA MapsToSend ==
  ASSUME typed' = typed + 1, InFlight' = Append(InFlight, typed + 1), received' = received
  PROVE  Input!Send
BY DEF Input!Send, InFlight, Register

\* The oldest in flight is gone.
LEMMA MapsToLose ==
  ASSUME typed' = typed, InFlight # <<>>, InFlight' = Tail(InFlight), received' = received
  PROVE  Input!Lose
BY DEF Input!Lose, InFlight, Register

\* The oldest in flight comes out whole.
LEMMA MapsToDeliver ==
  ASSUME typed' = typed, InFlight # <<>>, InFlight' = Tail(InFlight),
         received' = Append(received, [message |-> Head(InFlight), whole |-> TRUE])
  PROVE  Input!Deliver(TRUE)
BY DEF Input!Deliver, InFlight, Register

\* Three sequences one after the other.
LEMMA Regroup ==
  ASSUME NEW s \in Seq(Nat), NEW t \in Seq(Nat), NEW u \in Seq(Nat)
  PROVE  s \o (t \o u) = (s \o t) \o u
BY ConcatAssociative, SMTT(30)

\* A byte that is typed goes to the end, at once behind those that can be read when it
\* ends the line.
LEMMA TypeSends ==
  ASSUME SerialInv, NEW newline \in BOOLEAN, Type(newline)
  PROVE  Input!Send
<1> DEFINE x == typed + 1
           r == Register \o keys
<1>1. typed' = x /\ x \in Nat /\ received' = received /\ UNCHANGED <<rbr, dr>>
  BY DEF Type, SerialInv, SerialTypeOK, driver
<1>2. /\ Register \in Seq(Nat) /\ keys \in Seq(Nat) /\ line \in Seq(Nat) /\ <<x>> \in Seq(Nat)
      /\ r \in Seq(Nat) /\ Append(line, x) \in Seq(Nat)
  BY <1>1, InputTyped, ConcatProperties
<1>3. Register' = Register
  BY <1>1 DEF Register
<1> HIDE DEF x, r
<1>4. CASE newline
  <2>1. line' = <<>> /\ keys' = keys \o Append(line, x)
    BY <1>1, <1>4 DEF Type
  <2>2. Register \o (keys \o Append(line, x)) = r \o Append(line, x)
    <3> DEFINE a == Append(line, x)
    <3>1. a \in Seq(Nat) /\ keys \in Seq(Nat) /\ Register \in Seq(Nat)
      BY <1>2
    <3> HIDE DEF a
    <3>2. Register \o (keys \o a) = (Register \o keys) \o a
      BY <3>1, Regroup
    <3>3. r = Register \o keys
      BY DEF r
    <3> QED
      BY <3>2, <3>3 DEF a
  <2>3. InFlight' = (r \o Append(line, x)) \o <<>>
    BY <1>3, <2>1, <2>2 DEF InFlight
  <2>4. r \o Append(line, x) \in Seq(Nat)
    BY <1>2, ConcatProperties
  <2>5. InFlight' = r \o Append(line, x)
    BY <2>3, <2>4, ConcatEmptySeq
  <2> QED
    BY <1>1, <2>5, MapsToSend DEF InFlight, x, r
<1>5. CASE ~newline
  <2>1. line' = Append(line, x) /\ keys' = keys
    BY <1>1, <1>5 DEF Type
  <2>2. InFlight' = r \o Append(line, x)
    BY <1>3, <2>1 DEF InFlight, r
  <2> QED
    BY <1>1, <2>2, MapsToSend DEF InFlight, x, r
<1> QED
  BY <1>4, <1>5

\* While the register holds a byte, that one is the oldest in flight.
LEMMA RegisterFirst ==
  ASSUME SerialInv, dr
  PROVE  InFlight # <<>> /\ Head(InFlight) = rbr /\ Tail(InFlight) = keys \o line
<1>1. rbr \in Nat /\ keys \in Seq(Nat) /\ line \in Seq(Nat) /\ keys \o line \in Seq(Nat)
      /\ <<rbr>> \in Seq(Nat)
  BY InputTyped, ConcatProperties
<1>2. InFlight = (<<rbr>> \o keys) \o line
  BY DEF InFlight, Register
<1>3. InFlight = <<rbr>> \o (keys \o line)
  BY <1>1, <1>2, ConcatAssociative
<1> QED
  BY <1>1, <1>3, ByteFirst

\* With an empty register only the terminal holds bytes.
LEMMA RegisterEmpty ==
  ASSUME NEW k \in Seq(Nat), NEW l \in Seq(Nat)
  PROVE  <<>> \o k \o l = k \o l
<1>1. <<>> \o k = k
  BY ConcatEmptySeq
<1> QED
  BY <1>1

\* Feeding the next byte loses the one that was not read, or changes nothing.
LEMMA FeedMaps == SerialInv /\ Feed => Input!Lose \/ UNCHANGED Input!vars
<1> SUFFICES ASSUME SerialInv, Feed PROVE Input!Lose \/ UNCHANGED Input!vars
  OBVIOUS
<1>1. /\ keys \in Seq(Nat) /\ keys # <<>> /\ line \in Seq(Nat) /\ Head(keys) \in Nat
      /\ Tail(keys) \in Seq(Nat)
  BY InputTyped DEF Feed
<1>2. Register' = <<Head(keys)>> /\ keys' = Tail(keys)
      /\ UNCHANGED <<line, typed, received>>
  BY DEF Feed, Register, driver
<1>3. <<Head(keys)>> \o Tail(keys) = keys
  BY <1>1, ByteAndRest
<1>4. InFlight' = keys \o line
  BY <1>2, <1>3 DEF InFlight
<1>5. CASE dr
  BY <1>2, <1>4, <1>5, RegisterFirst, MapsToLose
<1>6. CASE ~dr
  <2>1. InFlight = keys \o line
    BY <1>6 DEF InFlight, Register
  <2> QED
    BY <1>2, <1>4, <2>1, MapsToStutter
<1> QED
  BY <1>5, <1>6

\* The driver reads the byte in the register.
LEMMA ReadRbrDelivers == SerialInv /\ ReadRbr => Input!Next
<1> SUFFICES ASSUME SerialInv, ReadRbr PROVE Input!Next
  OBVIOUS
<1>1. dr
  BY DEF SerialInv, Indicating, ReadRbr
<1>2. InFlight # <<>> /\ Head(InFlight) = rbr /\ Tail(InFlight) = keys \o line
  BY <1>1, RegisterFirst
<1>3. Register' = <<>> /\ UNCHANGED <<keys, line, typed>>
      /\ received' = Append(received, [message |-> rbr, whole |-> TRUE])
  BY DEF ReadRbr, Register, terminal
<1>4. InFlight' = <<>> \o keys \o line
  BY <1>3 DEF InFlight
<1>5. InFlight' = keys \o line
  BY <1>4, InputTyped, RegisterEmpty
<1>6. Input!Deliver(TRUE)
  BY <1>2, <1>3, <1>5, MapsToDeliver
<1> QED
  BY <1>6 DEF Input!Next

\* Every step is a step of the link, or none.
LEMMA InputStep == SerialInv /\ [Next]_vars => [Input!Next]_(Input!vars)
<1> SUFFICES ASSUME SerialInv, [Next]_vars PROVE Input!Next \/ UNCHANGED Input!vars
  OBVIOUS
<1>1. ASSUME NEW newline \in BOOLEAN, Type(newline) PROVE Input!Next
  BY <1>1, TypeSends DEF Input!Next
<1>2. CASE Feed
  BY <1>2, FeedMaps DEF Input!Next
<1>3. CASE ReadRbr
  BY <1>3, ReadRbrDelivers
<1>4. CASE UNCHANGED <<dr, rbr, keys, line, typed, received>>
  BY <1>4, MapsToStutter DEF InFlight, Register
<1>5. CASE SerialNext
  BY <1>2, <1>3, <1>4, <1>5
  DEF SerialNext, Open, StartTx, PolledBegin, Polled, PolledWrite, PolledEnd, Interrupt,
      IrqStart, ReadIir, ReadLsr, WriteThr, StopTx, SerialStdin, StdinEnds, Pulse, GuestEnds,
      WriteIer, Transmit, terminal, driver
<1> QED
  BY <1>1, <1>4, <1>5 DEF Next, ClientTypes, vars, serialVars, terminal, driver

\* At first nothing has been typed.
LEMMA InputStart == Init => Input!Init
<1> SUFFICES ASSUME Init PROVE Input!Init
  OBVIOUS
<1>1. typed = 0 /\ received = <<>> /\ dr = FALSE /\ keys = <<>> /\ line = <<>>
  BY DEF Init, SerialInit
<1> QED
  BY <1>1 DEF Input!Init

-----------------------------------------------------------------------------
(***************************************************************************)
(* The bridge.                                                             *)
(***************************************************************************)

\* The last n elements of a sequence.
LEMMA LastOf ==
  ASSUME NEW s \in Seq(Nat), NEW n \in Nat
  PROVE  /\ LastBytes(s, n) \in Seq(Nat)
         /\ Len(LastBytes(s, n)) = IF Len(s) > n THEN n ELSE Len(s)
         /\ \A i \in 1 .. Len(LastBytes(s, n)) :
              LastBytes(s, n)[i] = s[Len(s) - Len(LastBytes(s, n)) + i]
<1>1. CASE Len(s) > n
  <2> DEFINE m == Len(s) - n + 1
             t == SubSeq(s, m, Len(s))
  <2>1. m \in 1 .. Len(s) + 1 /\ Len(s) \in Nat
    BY <1>1
  <2>2. LastBytes(s, n) = t
    BY <1>1 DEF LastBytes
  <2>a. t \in Seq(Nat) /\ Len(t) = Len(s) - m + 1
    BY <1>1, <2>1
  <2>b. \A i \in 1 .. Len(s) - m + 1 : t[i] = s[m + i - 1]
    BY <2>1, SubSeqProperties
  <2>c. Len(s) - m + 1 = n
    BY <2>1
  <2>3. /\ t \in Seq(Nat) /\ Len(t) = n
        /\ \A i \in 1 .. n : t[i] = s[m + i - 1]
    BY <2>a, <2>b, <2>c
  <2>4. \A i \in 1 .. n : m + i - 1 = Len(s) - n + i
    BY <2>1
  <2> HIDE DEF t, m
  <2> QED
    BY <1>1, <2>2, <2>3, <2>4
<1>2. CASE ~ (Len(s) > n)
  <2>1. LastBytes(s, n) = s
    BY <1>2 DEF LastBytes
  <2>2. \A i \in 1 .. Len(s) : Len(s) - Len(s) + i = i
    OBVIOUS
  <2> QED
    BY <1>2, <2>1, <2>2
<1> QED
  BY <1>1, <1>2

\* What the channel keeps, told apart by chunk.
LEMMA ChunkTyped ==
  ASSUME BridgeInv, NEW k \in 1 .. Len(chan)
  PROVE  chan[k] \in Seq(Nat) /\ Start(k) \in Int /\ Len(chan[k]) \in Nat \ {0}
<1>1. chan[k] \in Seq(Nat)
  BY DEF BridgeInv, BridgeTypeOK
<1>2. Len(chan[k]) \in Nat \ {0}
  BY <1>1 DEF BridgeInv, ChanShape
<1>3. chan[k][1] \in Nat
  BY <1>1, <1>2
<1> QED
  BY <1>1, <1>2, <1>3 DEF Start

\* Reading puts the new bytes in the ring buffer and leaves them to be broadcast.
LEMMA ReadKeeps ==
  ASSUME BridgeInv, NEW available \in Nat, ReadChunk(available)
  PROVE  BridgeInv'
<1>1. PICK n \in 1 .. available - read : chunk' = [i \in 1 .. n |-> read + i]
  BY DEF ReadChunk
<1>2. read \in Nat /\ n \in Nat \ {0} /\ ring \in Seq(Nat) /\ RingSize \in Nat \ {0}
  BY <1>1, BridgeAssumption DEF BridgeInv, BridgeTypeOK
<1>3. chunk' \in Seq(Nat) /\ Len(chunk') = n /\ (\A i \in 1 .. n : chunk'[i] = read + i)
      /\ read' = read + n
  BY <1>1, <1>2 DEF ReadChunk
<1> DEFINE b == ring \o chunk'
<1>4. /\ b \in Seq(Nat) /\ Len(b) = Len(ring) + n
      /\ \A i \in 1 .. Len(ring) + n :
           b[i] = IF i <= Len(ring) THEN ring[i] ELSE chunk'[i - Len(ring)]
  BY <1>2, <1>3, ConcatProperties
<1>5. /\ Len(ring) \in Nat /\ Len(ring) <= read /\ Len(ring) <= RingSize
      /\ (\A i \in 1 .. Len(ring) : ring[i] = read - Len(ring) + i)
      /\ Len(ring) < RingSize => Len(ring) = read
  BY DEF BridgeInv, BridgeTypeOK, RingShape
<1> HIDE DEF b
<1>6. \A i \in 1 .. Len(b) : b[i] = read' - Len(b) + i
  <2> SUFFICES ASSUME NEW i \in 1 .. Len(b) PROVE b[i] = read' - Len(b) + i
    OBVIOUS
  <2>1. CASE i <= Len(ring)
    <3>1. i \in 1 .. Len(ring) /\ i \in 1 .. Len(ring) + n
      BY <1>4, <1>5, <2>1
    <3>2. b[i] = ring[i]
      BY <1>4, <2>1, <3>1
    <3>3. b[i] = read - Len(ring) + i
      BY <1>5, <3>1, <3>2
    <3> QED
      BY <1>2, <1>3, <1>4, <3>3
  <2>2. CASE ~ (i <= Len(ring))
    <3>1. i - Len(ring) \in 1 .. n
      BY <1>2, <1>4, <1>5, <2>2
    <3>2. b[i] = chunk'[i - Len(ring)]
      BY <1>4, <2>2
    <3>3. b[i] = read + (i - Len(ring))
      BY <1>3, <3>1, <3>2
    <3> QED
      BY <1>2, <1>3, <1>4, <3>3
  <2> QED
    BY <2>1, <2>2
<1>7. ring' = LastBytes(b, RingSize)
  BY DEF ReadChunk, Appended, b
<1>8. /\ ring' \in Seq(Nat) /\ Len(ring') = IF Len(b) > RingSize THEN RingSize ELSE Len(b)
      /\ \A i \in 1 .. Len(ring') : ring'[i] = b[Len(b) - Len(ring') + i]
  BY <1>2, <1>4, <1>7, LastOf
<1>9. \A i \in 1 .. Len(ring') : ring'[i] = read' - Len(ring') + i
  <2> SUFFICES ASSUME NEW i \in 1 .. Len(ring') PROVE ring'[i] = read' - Len(ring') + i
    OBVIOUS
  <2>1. Len(b) \in Nat /\ Len(ring') \in Nat /\ Len(ring') <= Len(b) /\ read' \in Nat
    BY <1>2, <1>3, <1>4, <1>8
  <2>2. Len(b) - Len(ring') + i \in 1 .. Len(b)
    BY <2>1
  <2>3. ring'[i] = read' - Len(b) + (Len(b) - Len(ring') + i)
    BY <1>6, <1>8, <2>2
  <2> QED
    BY <2>1, <2>3
<1>10. RingShape'
  <2>1. Len(ring') <= read' /\ (Len(ring') < RingSize => Len(ring') = read')
    <3> DEFINE m == Len(ring)
               d == Len(ring')
    <3>1. m \in Nat /\ m <= read /\ m <= RingSize /\ (m < RingSize => m = read)
          /\ d = (IF m + n > RingSize THEN RingSize ELSE m + n) /\ read' = read + n
      BY <1>3, <1>4, <1>5, <1>8
    <3> HIDE DEF m, d
    <3>2. CASE m + n > RingSize
      BY <1>2, <3>1, <3>2 DEF d
    <3>3. CASE ~ (m + n > RingSize)
      BY <1>2, <3>1, <3>3 DEF d
    <3> QED
      BY <3>2, <3>3
  <2>2. Len(chunk') <= read' /\ \A i \in 1 .. Len(chunk') : chunk'[i] = read' - Len(chunk') + i
    BY <1>2, <1>3
  <2> QED
    BY <1>9, <2>1, <2>2 DEF RingShape
<1>11. BridgeTypeOK'
  BY <1>2, <1>3, <1>8 DEF ReadChunk, BridgeInv, BridgeTypeOK
<1>12. UNCHANGED <<chan, st, pos, got, lagged>> /\ Len(chunk) = 0
  BY DEF ReadChunk
<1>13. \A k \in Nat : Start(k)' = Start(k)
  BY <1>2, <1>3, <1>12 DEF Start
<1>14. ChanShape'
  <2> SUFFICES ASSUME NEW k \in 1 .. Len(chan)
               PROVE  /\ Len(chan[k]) > 0
                      /\ \A i \in 1 .. Len(chan[k]) : chan[k][i] = Start(k)' + i
                      /\ Start(k + 1)' = Start(k)' + Len(chan[k])
                      /\ Start(k)' >= 0 /\ Start(k)' <= read'
    BY <1>12 DEF ChanShape
  <2>1. Start(k)' = Start(k) /\ Start(k + 1)' = Start(k + 1)
    BY <1>13
  <2>2. Start(k) \in Int
    BY ChunkTyped
  <2> QED
    BY <1>2, <1>3, <2>1, <2>2 DEF BridgeInv, ChanShape
<1>15. NextFits'
  BY <1>12, <1>13 DEF BridgeInv, NextFits, Reached
<1>16. NoGap'
  BY <1>12 DEF BridgeInv, NoGap
<1> QED
  BY <1>10, <1>11, <1>14, <1>15, <1>16 DEF BridgeInv

\* Broadcasting makes the chunk the last one of the channel.
LEMMA BroadcastKeeps ==
  ASSUME BridgeInv, Broadcast
  PROVE  BridgeInv'
<1>1. PICK n \in Nat : n = Len(chan)
  BY DEF BridgeInv, BridgeTypeOK
<1>2. /\ chan \in Seq(Seq(Nat)) /\ chunk \in Seq(Nat) /\ read \in Nat /\ n \in Nat
      /\ Len(chunk) \in Nat \ {0} /\ Len(chunk) <= read
      /\ \A i \in 1 .. Len(chunk) : chunk[i] = read - Len(chunk) + i
  BY DEF BridgeInv, BridgeTypeOK, RingShape, Broadcast
<1>3. /\ chan' = Append(chan, chunk) /\ chunk' = <<>>
      /\ UNCHANGED <<ring, read, st, pos, got, joins, lagged>>
  BY DEF Broadcast
<1>4. /\ Len(chan') = n + 1 /\ chan'[n + 1] = chunk /\ \A k \in 1 .. n : chan'[k] = chan[k]
      /\ chan' \in Seq(Seq(Nat)) /\ Len(chunk') = 0 /\ chunk' \in Seq(Nat)
  BY <1>1, <1>2, <1>3
<1>5. \A k \in 1 .. n : Start(k)' = Start(k)
  BY <1>1, <1>2, <1>4 DEF Start
<1>6. Start(n + 1)' = read - Len(chunk) /\ Start(n + 1) = read - Len(chunk)
  <2>1. 1 \in 1 .. Len(chunk)
    BY <1>2
  <2>2. chunk[1] = read - Len(chunk) + 1
    BY <1>2, <2>1
  <2>3. chunk[1] - 1 = read - Len(chunk)
    BY <1>2, <2>2
  <2>4. Start(n + 1)' = chan'[n + 1][1] - 1
    BY <1>2, <1>4 DEF Start
  <2>5. Start(n + 1) = read - Len(chunk)
    BY <1>1, <1>2 DEF Start
  <2> QED
    BY <1>4, <2>3, <2>4, <2>5
<1>7. Start(n + 2)' = read
  BY <1>2, <1>3, <1>4 DEF Start
<1>8. BridgeTypeOK' /\ RingShape'
  BY <1>3 DEF BridgeInv, BridgeTypeOK, RingShape
<1>9. ChanShape'
  <2> SUFFICES ASSUME NEW k \in 1 .. n + 1
               PROVE  /\ Len(chan'[k]) > 0
                      /\ \A i \in 1 .. Len(chan'[k]) : chan'[k][i] = Start(k)' + i
                      /\ Start(k + 1)' = Start(k)' + Len(chan'[k])
                      /\ Start(k)' >= 0 /\ Start(k)' <= read'
    BY <1>4 DEF ChanShape
  <2>1. CASE k \in 1 .. n
    <3>1. Start(k + 1)' = Start(k + 1)
      <4>1. k + 1 \in 1 .. n \/ k + 1 = n + 1
        BY <1>2, <2>1
      <4> QED
        BY <1>5, <1>6, <4>1
    <3> QED
      BY <1>3, <1>4, <1>5, <2>1, <3>1 DEF BridgeInv, ChanShape
  <2>2. CASE k = n + 1
    <3>1. k + 1 = n + 2
      BY <1>2, <2>2
    <3>2. Start(k + 1)' = read /\ Start(k)' = read - Len(chunk) /\ chan'[k] = chunk /\ read' = read
      BY <1>3, <1>4, <1>6, <1>7, <3>1
    <3> QED
      BY <1>2, <3>2
  <2> QED
    BY <1>2, <2>1, <2>2
<1>10. NextFits'
  <2>1. \A k \in 1 .. n + 1 : Start(k)' = Start(k)
    <3>1. \A k \in 1 .. n + 1 : k \in 1 .. n \/ k = n + 1
      BY <1>2
    <3> QED
      BY <1>5, <1>6, <3>1
  <2> QED
    BY <1>1, <1>3, <2>1 DEF BridgeInv, NextFits, Reached
<1>11. NoGap'
  BY <1>3 DEF BridgeInv, NoGap
<1> QED
  BY <1>8, <1>9, <1>10, <1>11 DEF BridgeInv

\* A client that joins is to receive what is broadcast next.
LEMMA AcceptKeeps ==
  ASSUME BridgeInv, NEW c \in Clients, Accept(c)
  PROVE  BridgeInv'
<1>1. /\ UNCHANGED <<ring, chunk, chan, read, got, lagged>>
      /\ st' = [st EXCEPT ![c] = "joined"] /\ pos' = [pos EXCEPT ![c] = Len(chan) + 1]
      /\ joins' = joins + 1 /\ joins < MaxJoins
  BY DEF Accept
<1>2. Len(chan) \in Nat /\ MaxJoins \in Nat /\ joins \in 0 .. MaxJoins
  BY BridgeAssumption DEF BridgeInv, BridgeTypeOK
<1>3. BridgeTypeOK'
  BY <1>1, <1>2 DEF BridgeInv, BridgeTypeOK
<1>4. NextFits'
  <2> SUFFICES ASSUME NEW d \in Clients
               PROVE  /\ pos'[d] \in 1 .. Len(chan) + 1
                      /\ st'[d] = "live" /\ d \notin lagged => Start(pos[d])' <= Reached(d)
    BY <1>1 DEF NextFits, Reached
  <2>1. CASE d = c
    BY <1>1, <2>1 DEF BridgeInv, BridgeTypeOK
  <2>2. CASE d # c
    <3>1. pos'[d] = pos[d] /\ st'[d] = st[d] /\ pos[d] \in Nat
      BY <1>1, <2>2 DEF BridgeInv, BridgeTypeOK
    <3>2. Start(pos[d])' = Start(pos[d])
      BY <1>1, <3>1 DEF Start
    <3> QED
      BY <3>1, <3>2 DEF BridgeInv, NextFits
  <2> QED
    BY <2>1, <2>2
<1>5. RingShape' /\ ChanShape' /\ NoGap'
  BY <1>1 DEF BridgeInv, RingShape, ChanShape, Start, NoGap
<1> QED
  BY <1>3, <1>4, <1>5 DEF BridgeInv

\* A client that goes away leaves nothing behind.
LEMMA LeaveKeeps ==
  ASSUME BridgeInv, NEW c \in Clients, Leave(c)
  PROVE  BridgeInv'
<1>1. /\ UNCHANGED <<ring, chunk, chan, read, joins>>
      /\ st' = [st EXCEPT ![c] = "off"] /\ pos' = [pos EXCEPT ![c] = 1]
      /\ got' = [got EXCEPT ![c] = <<>>] /\ lagged' = lagged \ {c}
  BY DEF Leave
<1>2. Len(chan) \in Nat
  BY DEF BridgeInv, BridgeTypeOK
<1>3. BridgeTypeOK'
  BY <1>1 DEF BridgeInv, BridgeTypeOK
<1>4. \A d \in Clients \ {c} :
        /\ pos'[d] = pos[d] /\ st'[d] = st[d] /\ got'[d] = got[d]
        /\ d \in lagged' <=> d \in lagged
  BY <1>1 DEF BridgeInv, BridgeTypeOK
<1>5. st'[c] = "off" /\ pos'[c] = 1 /\ got'[c] = <<>>
  BY <1>1 DEF BridgeInv, BridgeTypeOK
<1>6. NextFits'
  <2> SUFFICES ASSUME NEW d \in Clients
               PROVE  /\ pos'[d] \in 1 .. Len(chan) + 1
                      /\ st'[d] = "live" /\ d \notin lagged' => Start(pos[d])' <= Reached(d)'
    BY <1>1 DEF NextFits
  <2>1. CASE d = c
    BY <1>2, <1>5, <2>1
  <2>2. CASE d # c
    <3>1. Start(pos[d])' = Start(pos[d]) /\ Reached(d)' = Reached(d)
      BY <1>1, <2>2 DEF Start, Reached
    <3> QED
      BY <1>4, <2>2, <3>1 DEF BridgeInv, NextFits
  <2> QED
    BY <2>1, <2>2
<1>7. NoGap'
  <2> SUFFICES ASSUME NEW d \in Clients \ lagged'
               PROVE  /\ got'[d] # <<>> /\ got'[d][1] > 1 => Len(got'[d]) >= RingSize
                      /\ \A i \in 1 .. Len(got'[d]) - 1 : got'[d][i + 1] <= got'[d][i] + 1
    BY DEF NoGap
  <2>1. CASE d = c
    BY <1>5, <2>1
  <2>2. CASE d # c
    BY <1>4, <2>2 DEF BridgeInv, NoGap
  <2> QED
    BY <2>1, <2>2
<1>8. RingShape' /\ ChanShape'
  BY <1>1 DEF BridgeInv, RingShape, ChanShape, Start
<1> QED
  BY <1>3, <1>6, <1>7, <1>8 DEF BridgeInv

\* The start of what a client is to receive is not behind what has been read.
LEMMA StartRead ==
  ASSUME BridgeInv, NEW k \in 1 .. Len(chan) + 1
  PROVE  Start(k) \in Nat /\ Start(k) <= read
<1>1. /\ Len(chan) \in Nat /\ Len(chunk) \in Nat /\ read \in Nat /\ Len(chunk) <= read
  BY DEF BridgeInv, BridgeTypeOK, RingShape
<1>2. CASE k \in 1 .. Len(chan)
  <2>1. Start(k) \in Int
    BY <1>2, ChunkTyped
  <2> QED
    BY <1>2, <2>1 DEF BridgeInv, ChanShape
<1>3. CASE k = Len(chan) + 1
  BY <1>1, <1>3 DEF Start
<1> QED
  BY <1>1, <1>2, <1>3

\* The backlog ends with the byte read last, and misses earlier ones only when it is full.
LEMMA BacklogKeeps ==
  ASSUME BridgeInv, NEW c \in Clients, Backlog(c)
  PROVE  BridgeInv'
<1>1. /\ UNCHANGED <<ring, chunk, chan, read, pos, joins, lagged>>
      /\ st' = [st EXCEPT ![c] = "live"] /\ got' = [got EXCEPT ![c] = ring]
  BY DEF Backlog
<1>2. BridgeTypeOK'
  BY <1>1 DEF BridgeInv, BridgeTypeOK
<1>3. /\ ring \in Seq(Nat) /\ Len(ring) \in Nat /\ read \in Nat /\ RingSize \in Nat \ {0}
      /\ Len(ring) <= read /\ (\A i \in 1 .. Len(ring) : ring[i] = read - Len(ring) + i)
      /\ Len(ring) < RingSize => Len(ring) = read
  BY BridgeAssumption DEF BridgeInv, BridgeTypeOK, RingShape
<1>4. \A d \in Clients \ {c} : st'[d] = st[d] /\ got'[d] = got[d]
  BY <1>1 DEF BridgeInv, BridgeTypeOK
<1>5. got'[c] = ring
  BY <1>1 DEF BridgeInv, BridgeTypeOK
<1>6. Reached(c)' = read
  <2>1. CASE ring = <<>>
    <3> QED
      BY <1>3, <1>5 DEF Reached
  <2>2. CASE ring # <<>>
    <3>1. Len(ring) \in 1 .. Len(ring)
      BY <1>3, <2>2
    <3>2. ring[Len(ring)] = read - Len(ring) + Len(ring)
      BY <1>3, <3>1
    <3>3. Reached(c)' = ring[Len(ring)]
      BY <1>5, <2>2 DEF Reached
    <3> QED
      BY <1>3, <3>2, <3>3
  <2> QED
    BY <2>1, <2>2
<1>7. NextFits'
  <2> SUFFICES ASSUME NEW d \in Clients
               PROVE  /\ pos[d] \in 1 .. Len(chan) + 1
                      /\ st'[d] = "live" /\ d \notin lagged => Start(pos[d])' <= Reached(d)'
    BY <1>1 DEF NextFits
  <2>1. pos[d] \in 1 .. Len(chan) + 1
    BY DEF BridgeInv, NextFits
  <2>2. Start(pos[d])' = Start(pos[d])
    BY <1>1 DEF Start
  <2>3. CASE d = c
    BY <1>6, <2>1, <2>2, <2>3, StartRead
  <2>4. CASE d # c
    BY <1>4, <2>2, <2>4 DEF BridgeInv, NextFits, Reached
  <2> QED
    BY <2>3, <2>4
<1>8. ring # <<>> /\ ring[1] > 1 => Len(ring) >= RingSize
  <2> SUFFICES ASSUME ring # <<>>, ring[1] > 1 PROVE Len(ring) >= RingSize
    OBVIOUS
  <2>1. 1 \in 1 .. Len(ring)
    BY <1>3
  <2>2. ring[1] = read - Len(ring) + 1
    BY <1>3, <2>1
  <2> QED
    BY <1>3, <2>2
<1>9. \A i \in 1 .. Len(ring) - 1 : ring[i + 1] <= ring[i] + 1
  <2> SUFFICES ASSUME NEW i \in 1 .. Len(ring) - 1 PROVE ring[i + 1] <= ring[i] + 1
    OBVIOUS
  <2>1. i \in 1 .. Len(ring) /\ i + 1 \in 1 .. Len(ring)
    BY <1>3
  <2>2. ring[i] = read - Len(ring) + i /\ ring[i + 1] = read - Len(ring) + (i + 1)
    BY <1>3, <2>1
  <2> QED
    BY <1>3, <2>2
<1>10. NoGap'
  <2> SUFFICES ASSUME NEW d \in Clients \ lagged
               PROVE  /\ got'[d] # <<>> /\ got'[d][1] > 1 => Len(got'[d]) >= RingSize
                      /\ \A i \in 1 .. Len(got'[d]) - 1 : got'[d][i + 1] <= got'[d][i] + 1
    BY <1>1 DEF NoGap
  <2>1. CASE d = c
    BY <1>5, <1>8, <1>9, <2>1
  <2>2. CASE d # c
    BY <1>4, <2>2 DEF BridgeInv, NoGap
  <2> QED
    BY <2>1, <2>2
<1>11. RingShape' /\ ChanShape'
  BY <1>1 DEF BridgeInv, RingShape, ChanShape, Start
<1> QED
  BY <1>2, <1>7, <1>10, <1>11 DEF BridgeInv

\* A client that is skipped ahead goes on with the oldest chunk there is.
LEMMA RecvLaggedKeeps ==
  ASSUME BridgeInv, NEW c \in Clients, RecvLagged(c)
  PROVE  BridgeInv'
<1>1. /\ UNCHANGED <<ring, chunk, chan, read, st, got, joins>> /\ lagged' = lagged \cup {c}
      /\ pos' = [pos EXCEPT ![c] = Len(chan) - ChanSize + 1] /\ pos[c] + ChanSize <= Len(chan)
  BY DEF RecvLagged, Lags
<1>2. Len(chan) \in Nat /\ ChanSize \in Nat \ {0} /\ pos[c] \in 1 .. Len(chan) + 1
  BY BridgeAssumption DEF BridgeInv, BridgeTypeOK, NextFits
<1>3. Len(chan) - ChanSize + 1 \in 1 .. Len(chan) + 1
  BY <1>1, <1>2
<1>4. pos'[c] \in 1 .. Len(chan) + 1 /\ \A d \in Clients \ {c} : pos'[d] = pos[d]
  BY <1>1, <1>3 DEF BridgeInv, BridgeTypeOK
<1>5. BridgeTypeOK'
  <2>1. pos' \in [Clients -> Nat]
    BY <1>1, <1>3 DEF BridgeInv, BridgeTypeOK
  <2> QED
    BY <1>1, <2>1 DEF BridgeInv, BridgeTypeOK
<1>6. NextFits'
  <2> SUFFICES ASSUME NEW d \in Clients
               PROVE  /\ pos'[d] \in 1 .. Len(chan) + 1
                      /\ st[d] = "live" /\ d \notin lagged' => Start(pos[d])' <= Reached(d)
    BY <1>1 DEF NextFits, Reached
  <2>1. CASE d = c
    BY <1>1, <1>4, <2>1
  <2>2. CASE d # c
    <3>1. Start(pos[d])' = Start(pos[d])
      BY <1>1, <1>4, <2>2 DEF Start
    <3> QED
      BY <1>1, <2>2, <3>1 DEF BridgeInv, NextFits
  <2> QED
    BY <2>1, <2>2
<1>7. RingShape' /\ ChanShape' /\ NoGap'
  BY <1>1 DEF BridgeInv, RingShape, ChanShape, Start, NoGap
<1> QED
  BY <1>5, <1>6, <1>7 DEF BridgeInv

\* A chunk that begins at most one behind what a client has leaves no gap there.
LEMMA ChunkFits ==
  ASSUME NEW g \in Seq(Nat), NEW k \in Seq(Nat), Len(k) > 0, NEW s \in Nat,
         \A i \in 1 .. Len(k) : k[i] = s + i,
         s <= IF g = <<>> THEN 0 ELSE g[Len(g)],
         g # <<>> /\ g[1] > 1 => Len(g) >= RingSize,
         \A i \in 1 .. Len(g) - 1 : g[i + 1] <= g[i] + 1,
         NEW b \in Seq(Nat), b = g \o k
  PROVE  /\ b # <<>> /\ b[Len(b)] = s + Len(k)
         /\ b[1] > 1 => Len(b) >= RingSize
         /\ \A i \in 1 .. Len(b) - 1 : b[i + 1] <= b[i] + 1
<1>1. /\ Len(g) \in Nat /\ Len(k) \in Nat \ {0} /\ Len(b) = Len(g) + Len(k)
      /\ \A i \in 1 .. Len(g) + Len(k) : b[i] = IF i <= Len(g) THEN g[i] ELSE k[i - Len(g)]
  BY ConcatProperties
<1>2. b # <<>> /\ b[Len(b)] = s + Len(k)
  <2>1. /\ Len(b) \in 1 .. Len(g) + Len(k) /\ ~ (Len(b) <= Len(g)) /\ Len(b) - Len(g) = Len(k)
        /\ Len(k) \in 1 .. Len(k)
    BY <1>1
  <2>2. b[Len(b)] = k[Len(k)]
    BY <1>1, <2>1
  <2> QED
    BY <1>1, <2>1, <2>2
<1>3. b[1] > 1 => Len(b) >= RingSize
  <2>1. 1 \in 1 .. Len(g) + Len(k) /\ 1 \in 1 .. Len(k)
    BY <1>1
  <2>2. CASE g = <<>>
    <3>1. s = 0 /\ Len(g) = 0
      BY <2>2
    <3>2. b[1] = k[1]
      BY <1>1, <2>1, <3>1
    <3> QED
      BY <2>1, <3>1, <3>2
  <2>3. CASE g # <<>>
    <3>1. 1 <= Len(g)
      BY <2>3
    <3>2. b[1] = g[1]
      BY <1>1, <2>1, <3>1
    <3> QED
      BY <1>1, <2>3, <3>2, BridgeAssumption
  <2> QED
    BY <2>2, <2>3
<1>4. ASSUME NEW i \in 1 .. Len(b) - 1 PROVE b[i + 1] <= b[i] + 1
  <2>1. i \in 1 .. Len(g) + Len(k) /\ i + 1 \in 1 .. Len(g) + Len(k) /\ i \in Nat
    BY <1>1, <1>4
  <2>2. CASE i + 1 <= Len(g)
    <3>1. i <= Len(g) /\ i \in 1 .. Len(g) - 1
      BY <1>1, <2>1, <2>2
    <3>2. b[i] = g[i] /\ b[i + 1] = g[i + 1]
      BY <1>1, <2>1, <2>2, <3>1
    <3> QED
      BY <3>1, <3>2
  <2>3. CASE i = Len(g)
    <3>1. g # <<>> /\ ~ (i + 1 <= Len(g)) /\ i + 1 - Len(g) = 1 /\ 1 \in 1 .. Len(k) /\ i <= Len(g)
      BY <1>1, <2>1, <2>3
    <3>2. b[i] = g[i] /\ b[i + 1] = k[1]
      BY <1>1, <2>1, <3>1
    <3>3. k[1] = s + 1 /\ s <= g[i] /\ g[i] \in Nat
      BY <2>1, <2>3, <3>1
    <3> QED
      BY <3>2, <3>3
  <2>4. CASE i > Len(g)
    <3>a. Len(g) \in Nat /\ Len(k) \in Nat
      BY <1>1
    <3>b. ASSUME NEW x \in Nat, NEW y \in Nat, i \in 1 .. x + y, i + 1 \in 1 .. x + y, i > x
          PROVE  ~ (i <= x) /\ ~ (i + 1 <= x) /\ i - x \in 1 .. y /\ i + 1 - x \in 1 .. y
      BY <3>b
    <3>1. /\ ~ (i <= Len(g)) /\ ~ (i + 1 <= Len(g)) /\ i - Len(g) \in 1 .. Len(k)
          /\ i + 1 - Len(g) \in 1 .. Len(k)
      BY <3>a, <3>b, <2>1, <2>4
    <3>2. b[i] = k[i - Len(g)] /\ b[i + 1] = k[i + 1 - Len(g)]
      BY <1>1, <2>1, <3>1
    <3>3. b[i] = s + (i - Len(g)) /\ b[i + 1] = s + (i + 1 - Len(g))
      BY <3>1, <3>2
    <3> QED
      BY <1>1, <2>1, <3>3
  <2> QED
    BY <2>1, <2>3, <2>4
<1> QED
  BY <1>2, <1>3, <1>4

\* A client that keeps up receives the chunk that follows, or repeats, what it has.
LEMMA RecvKeeps ==
  ASSUME BridgeInv, NEW c \in Clients, Recv(c)
  PROVE  BridgeInv'
<1>1. PICK p \in 1 .. Len(chan) : p = pos[c]
  BY DEF Recv, BridgeInv, NextFits
<1>2. /\ UNCHANGED <<ring, chunk, chan, read, st, joins, lagged>> /\ st[c] = "live"
      /\ got' = [got EXCEPT ![c] = @ \o chan[p]] /\ pos' = [pos EXCEPT ![c] = @ + 1]
  BY <1>1 DEF Recv
<1>3. /\ Len(chan) \in Nat /\ chan[p] \in Seq(Nat) /\ got[c] \in Seq(Nat)
      /\ got \in [Clients -> Seq(Nat)] /\ pos \in [Clients -> Nat]
      /\ p + 1 \in 1 .. Len(chan) + 1 /\ p \in 1 .. Len(chan) + 1
  BY <1>1 DEF BridgeInv, BridgeTypeOK
<1>4. /\ Len(chan[p]) > 0 /\ (\A i \in 1 .. Len(chan[p]) : chan[p][i] = Start(p) + i)
      /\ Start(p + 1) = Start(p) + Len(chan[p]) /\ Start(p) \in Nat
  BY StartRead DEF BridgeInv, ChanShape
<1>5. got[c] \o chan[p] \in Seq(Nat)
  BY <1>3, ConcatProperties
<1>6. /\ got'[c] = got[c] \o chan[p] /\ got' \in [Clients -> Seq(Nat)]
      /\ \A d \in Clients \ {c} : got'[d] = got[d]
  BY <1>2, <1>3, <1>5
<1>7. /\ pos'[c] = p + 1 /\ pos' \in [Clients -> Nat]
      /\ \A d \in Clients \ {c} : pos'[d] = pos[d]
  BY <1>1, <1>2, <1>3
<1>8. BridgeTypeOK'
  BY <1>2, <1>6 DEF BridgeInv, BridgeTypeOK
<1>9. ASSUME c \notin lagged
      PROVE  /\ got'[c] # <<>> /\ got'[c][Len(got'[c])] = Start(p) + Len(chan[p])
             /\ got'[c][1] > 1 => Len(got'[c]) >= RingSize
             /\ \A i \in 1 .. Len(got'[c]) - 1 : got'[c][i + 1] <= got'[c][i] + 1
  <2> DEFINE g == got[c]
             k == chan[p]
             s == Start(p)
             b == got'[c]
  <2>1. g \in Seq(Nat) /\ k \in Seq(Nat) /\ s \in Nat /\ b \in Seq(Nat) /\ b = g \o k
    BY <1>3, <1>4, <1>5, <1>6
  <2>2. /\ Len(k) > 0 /\ (\A i \in 1 .. Len(k) : k[i] = s + i)
        /\ s <= IF g = <<>> THEN 0 ELSE g[Len(g)]
    BY <1>1, <1>2, <1>4, <1>9 DEF BridgeInv, NextFits, Reached
  <2>3. /\ g # <<>> /\ g[1] > 1 => Len(g) >= RingSize
        /\ \A i \in 1 .. Len(g) - 1 : g[i + 1] <= g[i] + 1
    BY <1>9 DEF BridgeInv, NoGap
  <2> HIDE DEF g, k, s, b
  <2>4. /\ b # <<>> /\ b[Len(b)] = s + Len(k)
        /\ b[1] > 1 => Len(b) >= RingSize
        /\ \A i \in 1 .. Len(b) - 1 : b[i + 1] <= b[i] + 1
    BY <2>1, <2>2, <2>3, ChunkFits
  <2> QED
    BY <2>4 DEF b, s, k
<1>10. NextFits'
  <2> SUFFICES ASSUME NEW d \in Clients
               PROVE  /\ pos'[d] \in 1 .. Len(chan) + 1
                      /\ st[d] = "live" /\ d \notin lagged => Start(pos[d])' <= Reached(d)'
    BY <1>2 DEF NextFits
  <2>1. CASE d = c
    <3>1. Start(pos[d])' = Start(p + 1)
      BY <1>2, <1>7, <2>1 DEF Start
    <3>2. c \notin lagged => Reached(d)' = Start(p + 1)
      BY <1>4, <1>9, <2>1 DEF Reached
    <3>3. Start(p + 1) \in Nat
      BY <1>3, StartRead
    <3> QED
      BY <1>7, <2>1, <3>1, <3>2, <3>3
  <2>2. CASE d # c
    <3>1. Start(pos[d])' = Start(pos[d]) /\ Reached(d)' = Reached(d)
      BY <1>2, <2>2 DEF Start, Reached
    <3> QED
      BY <1>7, <3>1 DEF BridgeInv, NextFits
  <2> QED
    BY <2>1, <2>2
<1>11. NoGap'
  <2> SUFFICES ASSUME NEW d \in Clients \ lagged
               PROVE  /\ got'[d] # <<>> /\ got'[d][1] > 1 => Len(got'[d]) >= RingSize
                      /\ \A i \in 1 .. Len(got'[d]) - 1 : got'[d][i + 1] <= got'[d][i] + 1
    BY <1>2 DEF NoGap
  <2>1. CASE d = c
    BY <1>9, <2>1
  <2>2. CASE d # c
    BY <1>6, <2>2 DEF BridgeInv, NoGap
  <2> QED
    BY <2>1, <2>2
<1>12. RingShape' /\ ChanShape'
  BY <1>2 DEF BridgeInv, RingShape, ChanShape, Start
<1> QED
  BY <1>8, <1>10, <1>11, <1>12 DEF BridgeInv

\* Every step keeps the invariant of the bridge.
LEMMA NextBridge == SerialInv /\ BridgeInv /\ [Next]_vars => BridgeInv'
<1> SUFFICES ASSUME SerialInv, BridgeInv, [Next]_vars PROVE BridgeInv'
  OBVIOUS
<1>1. out \in Nat
  BY DEF SerialInv, SerialTypeOK
<1>2. CASE BridgeNext(out)
  <2>1. CASE Reader(out)
    BY <1>1, <2>1, ReadKeeps, BroadcastKeeps DEF Reader
  <2>2. ASSUME NEW c \in Clients, Accept(c) \/ Serve(c) \/ Leave(c) PROVE BridgeInv'
    BY <2>2, AcceptKeeps, BacklogKeeps, RecvKeeps, RecvLaggedKeeps, LeaveKeeps DEF Serve
  <2> QED
    BY <1>2, <2>1, <2>2 DEF BridgeNext
<1>3. CASE UNCHANGED bridgeVars
  BY <1>3
  DEF bridgeVars, BridgeInv, BridgeTypeOK, RingShape, ChanShape, NextFits, NoGap, Start, Reached
<1> QED
  BY <1>2, <1>3 DEF Next, ClientTypes, vars

-----------------------------------------------------------------------------
(***************************************************************************)
(* What holds of every behaviour.                                          *)
(***************************************************************************)

\* The initial state satisfies the invariant.
LEMMA InitIInv == Init => IInv
<1> SUFFICES ASSUME Init PROVE IInv
  OBVIOUS
<1>1. /\ rbr = 0 /\ dr = FALSE /\ ier = {} /\ iir = "NO_INT" /\ irqfd = FALSE
      /\ held = 0 /\ pulses = 0 /\ line = <<>> /\ keys = <<>> /\ typed = 0 /\ reading = TRUE
      /\ drv = "boot" /\ saved = {} /\ todo = 0 /\ sent = 0 /\ received = <<>> /\ out = 0
  BY DEF Init, SerialInit
<1>2. SerialInv
  <2>1. held \in 0 .. OutMax - 1 /\ pulses \in 0 .. Pulses /\ typed \in 0 .. MaxType
        /\ todo \in 0 .. MaxSend /\ sent \in 0 .. MaxSend /\ rbr \in Nat /\ out \in Nat
    BY <1>1, SerialAssumption
  <2>2. line \in Seq(Nat) /\ keys \in Seq(Nat) /\ received \in Seq([message: Nat, whole: BOOLEAN])
    BY <1>1
  <2>3. SerialTypeOK
    BY <1>1, <2>1, <2>2 DEF SerialTypeOK
  <2>4. Enabling /\ Indicating /\ NoLostInput
    BY <1>1 DEF Enabling, InDriver, Indicating, NoLostInput
  <2>5. Sending
    BY <1>1, SerialAssumption DEF Sending
  <2> QED
    BY <2>3, <2>4, <2>5 DEF SerialInv
<1>3. BridgeTypeOK
  BY BridgeAssumption DEF Init, BridgeInit, BridgeTypeOK
<1>4. RingShape /\ ChanShape
  BY DEF Init, BridgeInit, RingShape, ChanShape
<1>5. NextFits /\ NoGap
  BY DEF Init, BridgeInit, NextFits, NoGap
<1> QED
  BY <1>2, <1>3, <1>4, <1>5 DEF IInv, BridgeInv

\* The invariant holds in every state of every behaviour of the console.
THEOREM ConsoleInvariant == Spec => []IInv
<1>1. IInv /\ [Next]_vars => IInv'
  BY NextSerial, NextBridge DEF IInv
<1> QED
  BY InitIInv, <1>1, PTL DEF Spec

\* All variables have their types; the ring buffer never holds more than RingSize bytes
\* and Serial.output never OutMax.
THEOREM TypeCorrect == Spec => []TypeOK
<1>1. IInv => TypeOK
  BY DEF IInv, SerialInv, BridgeInv, TypeOK
<1> QED
  BY ConsoleInvariant, <1>1, PTL

\* A byte in the receive register is never forgotten while the guest waits for an
\* interrupt: serial-stdin or the port has written irqfd, or will.
THEOREM InputNoticed == Spec => []NoLostInput
<1>1. IInv => NoLostInput
  BY DEF IInv, SerialInv
<1> QED
  BY ConsoleInvariant, <1>1, PTL

\* A client that keeps up with the broadcast channel misses no byte from the oldest one
\* of its backlog on.
THEOREM NothingSkipped == Spec => []NoGap
<1>1. IInv => NoGap
  BY DEF IInv, BridgeInv
<1> QED
  BY ConsoleInvariant, <1>1, PTL

\* What clients type reaches the guest in order and at most once: the path from the
\* terminal through the receive register implements a lossy FIFO link.
THEOREM InputFifo == Spec => InputIsFifo
<1>1. IInv => SerialInv
  BY DEF IInv
<1> QED
  BY ConsoleInvariant, <1>1, InputStart, InputStep, PTL DEF Spec, InputIsFifo, Input!Spec

=============================================================================

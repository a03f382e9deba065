--------------------------- MODULE ConsoleBridge ---------------------------
(***************************************************************************)
(* The console bridge of the API (runner.rs): a thread reads the VM's      *)
(* terminal into a ring buffer and a broadcast channel; each client of     *)
(* console.sock gets the ring buffer first and the channel from then on.   *)
(*                                                                         *)
(* Bytes are numbered as they leave the terminal.                          *)
(***************************************************************************)
EXTENDS Integers, Sequences

CONSTANTS
  Clients,
  RingSize,    \* 65536
  ChanSize,    \* 256: chunks the broadcast channel keeps
  MaxJoins     \* bound: connections

ASSUME BridgeAssumption ==
  RingSize \in Nat \ {0} /\ ChanSize \in Nat \ {0} /\ MaxJoins \in Nat

VARIABLES
  ring,        \* the ring buffer, oldest byte first
  chunk,       \* what the reader has put there and not yet broadcast
  chan,        \* the chunks broadcast so far
  read,        \* how many bytes the reader has read
  st, pos,     \* a client: "off", "joined" or "live"; the next chunk it receives
  got,         \* the bytes written to its socket
  joins,
  lagged       \* ghost: clients that the channel has skipped ahead

bridgeVars == <<ring, chunk, chan, read, st, pos, got, joins, lagged>>

BridgeInit ==
  /\ ring = <<>> /\ chunk = <<>> /\ chan = <<>> /\ read = 0
  /\ st = [c \in Clients |-> "off"] /\ pos = [c \in Clients |-> 1]
  /\ got = [c \in Clients |-> <<>>] /\ joins = 0 /\ lagged = {}

-----------------------------------------------------------------------------
(***************************************************************************)
(* The reader thread                                                       *)
(***************************************************************************)

LastBytes(s, n) == IF Len(s) > n THEN SubSeq(s, Len(s) - n + 1, Len(s)) ELSE s

\* Mutant of Appended: the ring buffer grows by one too many.
AppendedBeyond(bytes) ==
  LastBytes(ring \o bytes, RingSize + 1)

\* pop_front when the buffer is full
Appended(bytes) == LastBytes(ring \o bytes, RingSize)

\* Mutant of ReadChunk: it reads on before the last chunk is broadcast.
ReadChunkAhead(available) ==
  /\ read < available
  /\ \E n \in 1 .. available - read : chunk' = [i \in 1 .. n |-> read + i]
  /\ read' = read + Len(chunk')
  /\ ring' = Appended(chunk')
  /\ UNCHANGED <<chan, st, pos, got, joins, lagged>>

\* libc::read returns any part of what the terminal has, up to available bytes.
ReadChunk(available) ==
  /\ chunk = <<>> /\ read < available
  /\ \E n \in 1 .. available - read : chunk' = [i \in 1 .. n |-> read + i]
  /\ read' = read + Len(chunk')
  /\ ring' = Appended(chunk')
  /\ UNCHANGED <<chan, st, pos, got, joins, lagged>>

\* bcast_tx_reader.send, with or without receivers
Broadcast ==
  /\ chunk # <<>>
  /\ chan' = Append(chan, chunk)
  /\ chunk' = <<>>
  /\ UNCHANGED <<ring, read, st, pos, got, joins, lagged>>

-----------------------------------------------------------------------------
(***************************************************************************)
(* Clients                                                                 *)
(***************************************************************************)

\* The listener accepts and subscribes.
Accept(c) ==
  /\ st[c] = "off" /\ joins < MaxJoins
  /\ joins' = joins + 1
  /\ st' = [st EXCEPT ![c] = "joined"]
  /\ pos' = [pos EXCEPT ![c] = Len(chan) + 1]
  /\ UNCHANGED <<ring, chunk, chan, read, got, lagged>>

\* The client's task takes the ring buffer and writes it out.
Backlog(c) ==
  /\ st[c] = "joined"
  /\ st' = [st EXCEPT ![c] = "live"]
  /\ got' = [got EXCEPT ![c] = ring]
  /\ UNCHANGED <<ring, chunk, chan, read, pos, joins, lagged>>

Lags(c) == pos[c] + ChanSize <= Len(chan)

\* brx.recv: the next chunk,
Recv(c) ==
  /\ st[c] = "live" /\ pos[c] <= Len(chan) /\ ~Lags(c)
  /\ got' = [got EXCEPT ![c] = @ \o chan[pos[c]]]
  /\ pos' = [pos EXCEPT ![c] = @ + 1]
  /\ UNCHANGED <<ring, chunk, chan, read, st, joins, lagged>>

\* Mutant of RecvLagged: the task ends, and the client waits for ever.
RecvLaggedEnds(c) ==
  /\ st[c] = "live" /\ Lags(c)
  /\ pos' = [pos EXCEPT ![c] = Len(chan) + 100]
  /\ lagged' = lagged \cup {c}
  /\ UNCHANGED <<ring, chunk, chan, read, st, got, joins>>

\* or Lagged: the next one will be the oldest there is.
RecvLagged(c) ==
  /\ st[c] = "live" /\ Lags(c)
  /\ pos' = [pos EXCEPT ![c] = Len(chan) - ChanSize + 1]
  /\ lagged' = lagged \cup {c}
  /\ UNCHANGED <<ring, chunk, chan, read, st, got, joins>>

\* The client goes away.
Leave(c) ==
  /\ st[c] # "off"
  /\ st' = [st EXCEPT ![c] = "off"]
  /\ pos' = [pos EXCEPT ![c] = 1]
  /\ got' = [got EXCEPT ![c] = <<>>]
  /\ lagged' = lagged \ {c}
  /\ UNCHANGED <<ring, chunk, chan, read, joins>>

-----------------------------------------------------------------------------
Reader(available) == ReadChunk(available) \/ Broadcast

Serve(c) == Backlog(c) \/ Recv(c) \/ RecvLagged(c)

BridgeNext(available) ==
  Reader(available) \/ \E c \in Clients : Accept(c) \/ Serve(c) \/ Leave(c)

\* The variables of the bridge have their types; the ring buffer keeps its size.
BridgeTypeOK ==
  /\ ring \in Seq(Nat) /\ Len(ring) <= RingSize
  /\ chunk \in Seq(Nat) /\ chan \in Seq(Seq(Nat)) /\ read \in Nat
  /\ st \in [Clients -> {"off", "joined", "live"}] /\ pos \in [Clients -> Nat]
  /\ got \in [Clients -> Seq(Nat)]
  /\ joins \in 0 .. MaxJoins /\ lagged \subseteq Clients

\* A client that keeps up misses nothing from the oldest byte of its backlog on: chunks
\* may be repeated where backlog and channel meet, because they are in the ring buffer
\* before they are broadcast, but never skipped.
NoGap ==
  \A c \in Clients \ lagged :
    /\ got[c] # <<>> /\ got[c][1] > 1 => Len(got[c]) >= RingSize
    /\ \A i \in 1 .. Len(got[c]) - 1 : got[c][i + 1] <= got[c][i] + 1

=============================================================================

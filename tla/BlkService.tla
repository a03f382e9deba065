----------------------------- MODULE BlkService -----------------------------
(***************************************************************************)
(* What a guest is promised by its virtio disk, whatever rings, threads    *)
(* and interrupts carry the requests: requests are served one at a time,   *)
(* in the order the driver made them available, each with exactly one      *)
(* answer, and a read returns what the last successful write stored.  Only *)
(* a read into a buffer that is not in guest memory may be answered with   *)
(* OK and deliver nothing.                                                 *)
(*                                                                         *)
(* A request is posted under the index of the descriptor that heads its    *)
(* chain.  A request that the device cannot even parse may be swallowed    *)
(* (its head is then never answered): only the two malformed forms may.    *)
(***************************************************************************)
EXTENDS Sequences

CONSTANTS Heads,     \* descriptor indices
          Sectors,   \* addressable units of the disk
          Values,    \* what a sector can hold
          Requests,  \* requests a driver may post
          Writable   \* FALSE for a disk attached read-only

VARIABLES disk,      \* [Sectors -> Values]
          queue,     \* posted and not yet served, oldest first: <<head, request>>
          answer     \* [Heads -> answers not yet collected by the driver]

NoAnswer == [status |-> "none", data |-> "none"]

\* The answers allowed for a request r against disk contents d: pairs of the
\* disk afterwards and what the driver finds in its buffers.
Served(r, d) ==
  LET failed == <<d, [status |-> "IOERR", data |-> "none"]>>
      done(c, v) == <<c, [status |-> "OK", data |-> v]>>
      there == r.form # "badBuffer"
  IN  IF r.form \notin {"good", "badBuffer"}
      THEN {<<d, [status |-> "untouched", data |-> "none"]>>}
      ELSE CASE r.type = "IN"    -> {failed} \cup
                                    (IF r.devWrites
                                     THEN {done(d, IF there THEN d[r.sector] ELSE "none")}
                                     ELSE {})
             [] r.type = "OUT"   -> {failed} \cup
                                    (IF Writable /\ there
                                     THEN {done([d EXCEPT ![r.sector] = r.data], "none")}
                                     ELSE {})
             [] r.type = "FLUSH" -> {done(d, "none")}
             [] r.type = "GET_ID"-> {done(d, "none")} \cup
                                    (IF r.devWrites /\ there THEN {done(d, "serial")}
                                     ELSE {})
             [] OTHER            -> {<<d, [status |-> "UNSUPP", data |-> "none"]>>}

-----------------------------------------------------------------------------

Init ==
  /\ disk \in [Sectors -> Values]
  /\ queue = <<>>
  /\ answer = [h \in Heads |-> NoAnswer]

Post(h, r) ==
  /\ answer[h] = NoAnswer
  /\ \A i \in DOMAIN queue : queue[i][1] # h
  /\ queue' = Append(queue, <<h, r>>)
  /\ UNCHANGED <<disk, answer>>

Serve ==
  /\ queue # <<>>
  /\ LET h == Head(queue)[1]
         r == Head(queue)[2]
     IN  \E s \in Served(r, disk) :
            /\ disk' = s[1]
            /\ answer' = [answer EXCEPT ![h] = s[2]]
  /\ queue' = Tail(queue)

\* A chain whose header cannot be read disappears.
Swallow ==
  /\ queue # <<>>
  /\ Head(queue)[2].form = "badHeader"
  /\ queue' = Tail(queue)
  /\ UNCHANGED <<disk, answer>>

Collect(h) ==
  /\ answer[h] # NoAnswer
  /\ answer' = [answer EXCEPT ![h] = NoAnswer]
  /\ UNCHANGED <<disk, queue>>

Next ==
  \/ \E h \in Heads, r \in Requests : Post(h, r)
  \/ Serve
  \/ Swallow
  \/ \E h \in Heads : Collect(h)

vars == <<disk, queue, answer>>

Spec == Init /\ [][Next]_vars

=============================================================================

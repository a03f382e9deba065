--------------------------- MODULE LiveMigration ----------------------------
(***************************************************************************)
(* caiman livemig: the source side of a pre-copy migration (main.rs,       *)
(* memory.rs), the stream (proto.rs) and the destination's receive loop    *)
(* (coord.rs), against a guest that goes on writing until its vCPUs are    *)
(* paused.                                                                 *)
(*                                                                         *)
(* The control socket of the VMM, the two HTTP APIs and the guest are      *)
(* external.  The VMM hands out its dirty log together with the contents   *)
(* of the pages and clears it; as KVM's log it holds the pages written     *)
(* since EnableDirtyTracking.  The destination reads pages and registers,  *)
(* drops them (writing them to a guest is left to do in coord.rs) and      *)
(* answers DONE with RUNNING: arrived and vcpu are ghosts that follow what *)
(* has come off the stream by then.                                        *)
(*                                                                         *)
(* Neither the stream nor the control socket has a timeout.  A connection  *)
(* is "up", "down" (closed or reset: both ends get an error) or "half":    *)
(* bytes vanish and nobody is told.                                        *)
(*                                                                         *)
(* Left out: rate limiting, phases that are only logged, and the deadline  *)
(* of the iterative phase, which is looked at only when a pass leaves more *)
(* than the threshold (Remaining below: none does).                        *)
(***************************************************************************)
EXTENDS Naturals, Sequences, FiniteSets

CONSTANTS
  Pages,       \* guest page frames
  Threshold,   \* convergence threshold, in pages
  MaxWrites,   \* bound: guest writes in a behaviour
  MaxFaults,   \* bound: faults in a behaviour
  Faults       \* which faults: "api", "ctrl", "refuse", "link", "silent"

ASSUME MigrationAssumption ==
  /\ Threshold \in Nat /\ MaxWrites \in Nat /\ MaxFaults \in Nat
  /\ Faults \subseteq {"api", "ctrl", "refuse", "link", "silent"}

VARIABLES
  \* the source VMM and its guest; a write stores the guest's clock in a page
  src, clock, mem, dirty,
  since,       \* the clock when dirty tracking began, NoData before
  \* run_migration: its program point and the pages it has yet to send
  pc, batch,
  \* the stream in both directions
  out, back, link,
  \* receive_migration, and ghosts: the last contents of each page and the registers
  \* that it has read
  dst, arrived, vcpu,
  faults,
  refused      \* the VMM has answered some command with ok = false

vmm == <<src, clock, mem, since, dirty>>
job == <<pc, batch>>
stream == <<out, back, link>>
dest == <<dst, arrived, vcpu>>
vars == <<vmm, job, stream, dest, faults, refused>>

NoPage == "none"
NoData == 0
Versions == 1 .. MaxWrites + 1

Msg(type, gpa, data) == [type |-> type, gpa |-> gpa, data |-> data]
Plain(type) == Msg(type, NoPage, NoData)

Points == {"setup", "connect", "ready", "track", "copy", "send", "pause", "final",
           "finalsend", "vcpu", "done", "running", "cleanup", "complete", "failed",
           "hung"}   \* in a request whose answer never comes

\* The points at which run_migration talks to the VMM, and to the destination.
CtrlPoints == {"track", "copy", "pause", "final", "vcpu"}
StreamPoints == {"connect", "ready", "send", "finalsend", "vcpu", "done", "running"}

Init ==
  /\ src = "run" /\ clock = 1 /\ mem = [p \in Pages |-> 1]
  /\ since = NoData /\ dirty = {}
  /\ pc = "setup" /\ batch = {}
  /\ out = <<>> /\ back = <<>> /\ link = "up"
  /\ dst = "accept" /\ arrived = [p \in Pages |-> NoData] /\ vcpu = NoData
  /\ faults = 0 /\ refused = FALSE

Fault(kind) == kind \in Faults /\ faults < MaxFaults /\ faults' = faults + 1

\* write_all: on a broken or silent connection the bytes may still be taken and go
\* nowhere.
Send(m) ==
  /\ out' = IF link = "up" THEN Append(out, m) ELSE out
  /\ UNCHANGED <<back, link>>

-----------------------------------------------------------------------------
(***************************************************************************)
(* The guest and the network.                                              *)
(***************************************************************************)

GuestWrites(p) ==
  /\ src = "run"
  /\ clock <= MaxWrites
  /\ clock' = clock + 1
  /\ mem' = [mem EXCEPT ![p] = clock + 1]
  /\ dirty' = IF since # NoData THEN dirty \cup {p} ELSE dirty
  /\ UNCHANGED <<src, since, job, stream, dest, faults, refused>>

LinkBreaks ==
  /\ Fault("link")
  /\ link = "up"
  /\ link' = "down"
  /\ UNCHANGED <<vmm, job, out, back, dest, refused>>

\* The other host is gone without a word, or a firewall drops everything.
LinkSilent ==
  /\ Fault("silent")
  /\ link = "up"
  /\ link' = "half"
  /\ UNCHANGED <<vmm, job, out, back, dest, refused>>

-----------------------------------------------------------------------------
(***************************************************************************)
(* The source: run_migration.                                              *)
(***************************************************************************)

\* coord::setup: the destination's API prepares a shell.
Prepare ==
  /\ pc = "setup"
  /\ pc' = "connect"
  /\ UNCHANGED <<vmm, batch, stream, dest, faults, refused>>

\* coord::setup: connect and HELLO.
Connect ==
  /\ pc = "connect"
  /\ Send(Plain("Hello"))
  /\ pc' = "ready"
  /\ UNCHANGED <<vmm, batch, dest, faults, refused>>

\* The process ends; what it closes is heard of unless the connection is silent.
Closed == IF link = "half" THEN "half" ELSE "down"

\* stream.expect: a message of another type is an error.
Expect(point, type, next) ==
  /\ pc = point
  /\ back # <<>>
  /\ IF Head(back).type = type
       THEN pc' = next /\ UNCHANGED link
       ELSE pc' = "failed" /\ link' = Closed
  /\ back' = Tail(back)
  /\ UNCHANGED <<vmm, batch, out, dest, faults, refused>>

ExpectReady == Expect("ready", "Ready", "track")

EnableDirtyTracking ==
  /\ pc = "track"
  /\ since' = clock
  /\ pc' = "copy"
  /\ UNCHANGED <<src, clock, mem, dirty, batch, stream, dest, faults, refused>>

\* Mutant: a pass asks for the log once and the final pass sends nothing.
GetDirtyLogOnce ==
  /\ pc \in {"copy", "final"}
  /\ batch' = IF pc = "copy" THEN {<<p, mem[p]>> : p \in dirty} ELSE {}
  /\ dirty' = {}
  /\ pc' = IF pc = "copy" THEN "send" ELSE "finalsend"
  /\ UNCHANGED <<src, clock, mem, since, stream, dest, faults, refused>>

\* copy_dirty_pages and copy_all_remaining: GetDirtyLog.
GetDirtyLog ==
  /\ pc \in {"copy", "final"}
  /\ batch' = {<<p, mem[p]>> : p \in dirty}
  /\ dirty' = {}
  /\ pc' = IF pc = "copy" THEN "send" ELSE "finalsend"
  /\ UNCHANGED <<src, clock, mem, since, stream, dest, faults, refused>>

\* Mutant: the contents of a page are lost between the log and the stream.
SendPageEmpty ==
  /\ pc \in {"send", "finalsend"}
  /\ \E b \in batch :
       /\ Send(Msg("Page", b[1], NoData))
       /\ batch' = batch \ {b}
  /\ UNCHANGED <<vmm, pc, dest, faults, refused>>

\* copy_dirty_pages: the loop over the pages of the log.
SendPage ==
  /\ pc \in {"send", "finalsend"}
  /\ \E b \in batch :
       /\ Send(Msg("Page", b[1], b[2]))
       /\ batch' = batch \ {b}
  /\ UNCHANGED <<vmm, pc, dest, faults, refused>>

\* What copy_dirty_pages returns: count - sent, once every page is sent.
Remaining == 0

\* The end of a pass: converged, or once more.
EndPass ==
  /\ pc = "send"
  /\ batch = {}
  /\ pc' = IF Remaining <= Threshold THEN "pause" ELSE "copy"
  /\ UNCHANGED <<vmm, batch, stream, dest, faults, refused>>

PauseVcpus ==
  /\ pc = "pause"
  /\ src' = "paused"
  /\ pc' = "final"
  /\ UNCHANGED <<clock, mem, since, dirty, batch, stream, dest, faults, refused>>

EndFinal ==
  /\ pc = "finalsend"
  /\ batch = {}
  /\ pc' = "vcpu"
  /\ UNCHANGED <<vmm, batch, stream, dest, faults, refused>>

TransferVcpuState ==
  /\ pc = "vcpu"
  /\ Send(Msg("VcpuState", NoPage, clock))
  /\ pc' = "done"
  /\ UNCHANGED <<vmm, batch, dest, faults, refused>>

\* Mutant: RUNNING is not waited for.
SendDoneNoWait ==
  /\ pc = "done"
  /\ Send(Plain("Done"))
  /\ pc' = "cleanup"
  /\ UNCHANGED <<vmm, batch, dest, faults, refused>>

\* transfer_bpf_maps ignores what the API answers; then start_destination_vm.
SendDone ==
  /\ pc = "done"
  /\ Send(Plain("Done"))
  /\ pc' = "running"
  /\ UNCHANGED <<vmm, batch, dest, faults, refused>>

\* Then switch_network and reconnect_on_destination, which cannot fail.
ExpectRunning == Expect("running", "Running", "cleanup")

\* cleanup_source: any answer of the source's API will do, errors included.
CleanUp ==
  /\ pc = "cleanup"
  /\ src' \in {src, "deleted"}
  /\ pc' = "complete"
  /\ UNCHANGED <<clock, mem, since, dirty, batch, stream, dest, faults, refused>>

-----------------------------------------------------------------------------
(***************************************************************************)
(* What can go wrong.  run_migration returns with ?: the process ends, the *)
(* connection closes, and the VMM is left as it is.                        *)
(***************************************************************************)

\* Mutant: a failed migration resumes the vCPUs of the source.
AbortResumes ==
  /\ pc' = "failed"
  /\ batch' = {}
  /\ link' = Closed
  /\ src' = IF src = "paused" THEN "run" ELSE src
  /\ UNCHANGED <<clock, mem, since, dirty, out, back, dest, refused>>

Abort ==
  /\ pc' = "failed"
  /\ batch' = {}
  /\ link' = Closed
  /\ src' = src
  /\ UNCHANGED <<clock, mem, since, dirty, out, back, dest, refused>>

PrepareFails ==
  /\ pc = "setup"
  /\ Fault("api")
  /\ Abort

\* The control socket cannot be reached, or its answer cannot be read.
CtrlFails ==
  /\ pc \in CtrlPoints
  /\ Fault("ctrl")
  /\ Abort

\* PauseVcpus is carried out and the answer is lost.
PauseAnswerLost ==
  /\ pc = "pause"
  /\ Fault("ctrl")
  /\ src' = "paused"
  /\ pc' = "failed"
  /\ batch' = {}
  /\ link' = Closed
  /\ UNCHANGED <<clock, mem, since, dirty, out, back, dest, refused>>

\* The VMM, or an API, takes the command, carries it out or not, and never answers:
\* neither read_exact in send_ctrl nor the HTTP client has a timeout.
PeerSilent ==
  /\ pc \in CtrlPoints \cup {"setup", "done", "cleanup"}
  /\ Fault("silent")
  /\ src' \in {src} \cup (CASE pc = "pause" -> {"paused"}
                            [] pc = "cleanup" -> {"deleted"}
                            [] OTHER -> {})
  /\ pc' = "hung"
  /\ UNCHANGED <<clock, mem, since, dirty, batch, stream, dest, refused>>

\* The VMM answers ok = false: send_ctrl does not look, the data it lacks is taken
\* as empty, and the migration goes on.
Refused ==
  /\ pc \in CtrlPoints
  /\ Fault("refuse")
  /\ refused' = TRUE
  /\ pc' = CASE pc = "track" -> "copy"
             [] pc = "copy" -> "send"
             [] pc = "pause" -> "final"
             [] pc = "final" -> "finalsend"
             [] pc = "vcpu" -> "done"
  /\ IF pc = "vcpu" THEN Send(Msg("VcpuState", NoPage, NoData)) ELSE UNCHANGED stream
  /\ UNCHANGED <<vmm, batch, dest>>

\* A write or a read on the broken connection fails.
StreamFails ==
  /\ pc \in StreamPoints
  /\ link = "down"
  /\ Abort
  /\ UNCHANGED faults

\* On a silent connection the kernel may give up on bytes that are never acknowledged.
\* It does not when all of them were, as when RUNNING is waited for.
StreamTimesOut ==
  /\ pc \in StreamPoints
  /\ link = "half"
  /\ Abort
  /\ UNCHANGED faults

-----------------------------------------------------------------------------
(***************************************************************************)
(* The destination: receive_migration.                                     *)
(***************************************************************************)

Receive(type) ==
  /\ out # <<>>
  /\ Head(out).type = type
  /\ out' = Tail(out)
  /\ UNCHANGED <<vmm, job, link, faults, refused>>

Reply(type) ==
  back' = IF link = "up" THEN Append(back, Plain(type)) ELSE back

ReceiveHello ==
  /\ dst = "accept"
  /\ Receive("Hello")
  /\ Reply("Ready")
  /\ dst' = "receive"
  /\ UNCHANGED <<arrived, vcpu>>

\* The page is counted and dropped, as are the registers.
ReceivePage ==
  /\ dst = "receive"
  /\ Receive("Page")
  /\ arrived' = [arrived EXCEPT ![Head(out).gpa] = Head(out).data]
  /\ UNCHANGED <<back, dst, vcpu>>

ReceiveVcpuState ==
  /\ dst = "receive"
  /\ Receive("VcpuState")
  /\ vcpu' = Head(out).data
  /\ UNCHANGED <<back, dst, arrived>>

\* Mutant: the destination starts the guest and does not say so.
ReceiveDoneSilent ==
  /\ dst = "receive"
  /\ Receive("Done")
  /\ UNCHANGED back
  /\ dst' = "running"
  /\ UNCHANGED <<arrived, vcpu>>

\* DONE is answered with RUNNING, whatever has arrived before it.
ReceiveDone ==
  /\ dst = "receive"
  /\ Receive("Done")
  /\ Reply("Running")
  /\ dst' = "running"
  /\ UNCHANGED <<arrived, vcpu>>

\* Only a closed or reset connection ends recv_msg.
ReceiveFails ==
  /\ dst \in {"accept", "receive"}
  /\ link = "down"
  /\ dst' = "failed"
  /\ UNCHANGED <<vmm, job, stream, arrived, vcpu, faults, refused>>

-----------------------------------------------------------------------------

Source ==
  \/ Prepare \/ Connect \/ ExpectReady \/ EnableDirtyTracking \/ GetDirtyLog \/ SendPage
  \/ EndPass \/ PauseVcpus \/ EndFinal \/ TransferVcpuState \/ SendDone
  \/ ExpectRunning \/ CleanUp \/ StreamFails

Destination ==
  ReceiveHello \/ ReceivePage \/ ReceiveVcpuState \/ ReceiveDone \/ ReceiveFails

Failure ==
  \/ PrepareFails \/ CtrlFails \/ PauseAnswerLost \/ Refused \/ LinkBreaks
  \/ LinkSilent \/ PeerSilent \/ StreamTimesOut

Next == Source \/ Destination \/ Failure \/ \E p \in Pages : GuestWrites(p)

Spec == Init /\ [][Next]_vars

\* Both processes are scheduled, and a closed or reset connection is noticed; guests,
\* faults and the kernel's retransmission timer are not obliged to anything.
FairSpec == Spec /\ WF_vars(Source) /\ WF_vars(Destination)

-----------------------------------------------------------------------------
(***************************************************************************)
(* Properties.                                                             *)
(***************************************************************************)

\* What travels to the destination; only a refused GetVcpuState leaves data out.
SourceMsgs ==
  [type: {"Hello", "Done"}, gpa: {NoPage}, data: {NoData}]
    \cup [type: {"Page"}, gpa: Pages, data: Versions]
    \cup [type: {"VcpuState"}, gpa: {NoPage}, data: Versions \cup {NoData}]

DestMsgs == [type: {"Ready", "Running"}, gpa: {NoPage}, data: {NoData}]

\* The type invariant of VMM, job, stream and destination: in particular a PAGE
\* always carries a page of the guest and contents this guest has written.
TypeOK ==
  /\ src \in {"run", "paused", "deleted"} /\ clock \in Versions
  /\ mem \in [Pages -> Versions] /\ since \in Versions \cup {NoData} /\ dirty \subseteq Pages
  /\ pc \in Points /\ batch \subseteq Pages \X Versions
  /\ out \in Seq(SourceMsgs)
  /\ back \in Seq(DestMsgs)
  /\ link \in {"up", "down", "half"}
  /\ dst \in {"accept", "receive", "running", "failed"}
  /\ arrived \in [Pages -> Versions \cup {NoData}] /\ vcpu \in Versions \cup {NoData}
  /\ faults \in 0 .. MaxFaults /\ refused \in BOOLEAN

\* The virtual machine never runs on both nodes: whatever fails, and wherever, the
\* source stays paused once DONE may have reached the destination.  The only way
\* out is a refused command, because send_ctrl ignores ok.
OneSideRuns == src = "run" /\ dst = "running" => refused

\* Every page the guest has written since dirty tracking began has arrived in its
\* last version, and the registers have, before the destination answers RUNNING:
\* GetDirtyLog hands out contents and clears the log while the guest goes on writing,
\* and the final pass runs with the vCPUs paused.
WritesArrive ==
  dst = "running" /\ ~refused =>
    /\ \A p \in Pages : mem[p] > since => arrived[p] = mem[p]
    /\ vcpu = clock

\* The source is given up only when the destination runs: cleanup_source comes
\* after RUNNING, so that the virtual machine is never nowhere.
NeverNowhere == src = "deleted" => dst = "running"

\* A migration ends, completed or failed, unless a peer falls silent: failing and
\* refused commands, lost answers, unexpected messages and broken connections leave
\* neither end waiting for the other.
EndsUnlessSilent == <>(pc \in {"complete", "failed", "hung"} \/ link = "half")

\* The blackout ends: a paused guest runs again, here or there.
BlackoutEnds == src = "paused" ~> (src = "run" \/ dst = "running")

=============================================================================
